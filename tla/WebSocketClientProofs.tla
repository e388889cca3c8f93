----------------------- MODULE WebSocketClientProofs -----------------------
(***************************************************************************)
(* Proofs about WebSocketClient, for any number of threads that send, any  *)
(* limits and delays: a connection that is not stopped waits for one       *)
(* thing, pendingMessages() is exact, writes never overlap and stay with   *)
(* their connection, callbacks come in order, and close() is final.        *)
(***************************************************************************)
EXTENDS WebSocketClient, SeqLemmas

(***************************************************************************)
(* The inductive invariant                                                 *)
(***************************************************************************)
OpNames == Steps \cup {"read", "write", "close"}

Args == {"ok", "error", "declined", "message", "closed", "aborted", "none",
         "normal", "going_away"}

Tasks == [op : OpNames \cup {"start", "retry", "send", "doClose"}, gen : Nat, arg : Args]

\* What the tasks of a kind carry, in generation g
TaskOK(t, g) ==
    /\ t.gen <= g
    /\ t.op \in OpNames => t.gen > 0
    /\ t.op = "start" => t.gen = 0
    /\ t.op = "retry" => t.arg \in {"ok", "aborted"}
    /\ t.op = "doClose" => t.arg \in {"normal", "going_away"}

Events ==
    [event : {"open", "message", "error", "close", "rejected", "reconnecting", "gave_up"},
     attempt : Nat, delay : Nat]

StrandOK ==
    /\ strand \in Seq(Tasks)
    /\ \A i \in 1 .. Len(strand) : TaskOK(strand[i], generation)

OpsOK ==
    /\ IsABag(ops)
    /\ \A o \in DOMAIN ops : o \in [op : OpNames, gen : 1 .. generation]

Types ==
    /\ request \in Requests
    /\ link \in {"none", "up", "down"}
    /\ state \in States
    /\ generation \in Nat /\ failures \in Nat /\ pending \in Nat /\ opens \in 0 .. MaxOpens
    /\ write_queue \in Seq(Nat)
    /\ calls \in Seq(Events)
    /\ requested_code \in Codes /\ asked \in Codes
    /\ destroyer \in {"none", "holding", "joining", "done"}
    /\ sender \in [Senders ->
           [at : {"idle", "checked", "reserved", "loaded"}, gen : 0 .. generation]]

Flags ==
    /\ timer \in BOOLEAN /\ connected \in BOOLEAN /\ stop_requested \in BOOLEAN
    /\ close_done \in BOOLEAN /\ read_done \in BOOLEAN /\ closed \in BOOLEAN
    /\ handle \in BOOLEAN

\* Tasks of a kind on the strand
Starts == {t \in Tasks : t.op = "start"}
Sends == {t \in Tasks : t.op = "send"}
Expired == {t \in Tasks : t.op = "retry" /\ t.arg = "ok"}
Count(P) == Cardinality(Places(strand, P))

\* The tasks that complete an operation, and InFlight() of any strand and operations
Kind(op, gen) == {t \in Tasks : t.op = op /\ t.gen = gen}

Fly(q, B, op, gen) == Copies(Op(op, gen), B) + Cardinality(Places(q, Kind(op, gen)))

\* Operations of an attempt in flight before its connection is open
Attempting(q, B, g) ==
    Fly(q, B, "resolve", g) + Fly(q, B, "connect", g) + Fly(q, B, "tls", g)
        + Fly(q, B, "upgrade", g)

\* Of the current attempt
In(op) == Fly(strand, ops, op, generation)

\* What each state waits for
Flow ==
    /\ Count(Starts) = Flag(state = "idle")
    /\ Attempting(strand, ops, generation) = Flag(state = "connecting")
    /\ In("read") = Flag(state = "open" \/ (state = "closing" /\ read_done = FALSE))
    /\ state = "closing" =>
           /\ stop_requested = TRUE
           /\ ~(close_done = TRUE /\ read_done = TRUE)
           /\ In("close") = Flag(close_done = FALSE)
    /\ state \notin {"closing", "stopped"} =>
           close_done = FALSE /\ read_done = FALSE /\ In("close") = 0

\* The retry timer; one that expired before close() finds the connection stopped
Retrying ==
    /\ state = "waiting" => Flag(timer = TRUE) + Count(Expired) = 1
    /\ state # "waiting" => timer = FALSE
    /\ state \notin {"waiting", "stopped"} => Count(Expired) = 0

\* No write of this attempt has failed yet
NoneFailed(q, g) ==
    \A i \in 1 .. Len(q) : q[i].op = "write" /\ q[i].gen = g => q[i].arg = "ok"

\* A write is outstanding, or has failed with its stream
Writing ==
    /\ In("write") <= 1
    /\ state \in {"open", "closing"} /\ write_queue = <<>> => In("write") = 0
    /\ state \in {"idle", "connecting"} => In("write") = 0
    /\ state \notin {"open", "closing"} => write_queue = <<>>
    /\ \A i \in 1 .. Len(write_queue) : write_queue[i] = generation
    /\ state = "open" /\ link = "up" => /\ write_queue # <<>> => In("write") = 1
                                       /\ NoneFailed(strand, generation)

\* Threads in send() that reserved a place
Inside == {t \in Senders : sender[t].at \in {"reserved", "loaded"}}

Pending == pending = Cardinality(Inside) + Count(Sends) + Len(write_queue)

Limits == pending <= send_queue_limit

\* The server accepted this attempt, and its handler has not run
Accepted(q, g) == \E i \in 1 .. Len(q) : q[i] = Task("upgrade", g, "ok")

\* At most max_attempts retries follow a handshake
Bounded ==
    max_attempts > 0 =>
        /\ state = "stopped" => /\ failures <= max_attempts + 1
                                /\ generation <= opens * (max_attempts + 1) + max_attempts + 1
        /\ state # "stopped" =>
               /\ failures <= max_attempts
               /\ generation <= opens * (max_attempts + 1) + failures
                                   + Flag(state = "connecting")
               /\ Accepted(strand, generation) => generation <= opens * (max_attempts + 1)

\* CallbackOrder, of any sequence of callbacks (DelaysDouble: the delays)
At(c, event) == {i \in 1 .. Len(c) : c[i].event = event}

IsUp(c) == At(c, "open") # {} /\ At(c, "close") = {}

Retries(c) ==
    \A i \in At(c, "reconnecting") :
        LET n == Cardinality({j \in At(c, "reconnecting") : j <= i})
        IN  /\ i > 1 /\ c[i - 1].event \in {"error", "close"}
            /\ c[i].attempt = n
            /\ max_attempts > 0 => n <= max_attempts
            /\ c[i].delay = retryDelay(n)

Ordered(c) ==
    /\ At(c, "open") \subseteq {1}
    /\ Cardinality(At(c, "close")) = IF At(c, "open") = {} \/ IsUp(c) THEN 0 ELSE 1
    /\ \A i \in At(c, "message") :
           At(c, "open") = {1} /\ \A j \in At(c, "close") : i < j
    /\ Retries(c)
    /\ \A i \in At(c, "gave_up") :
           /\ i = Len(c) /\ max_attempts > 0
           /\ Cardinality(At(c, "reconnecting")) = max_attempts

\* After n retries, and not given up
Going(c, n) ==
    /\ c \in Seq(Events) /\ Ordered(c)
    /\ At(c, "gave_up") = {} /\ Cardinality(At(c, "reconnecting")) = n

Callbacks ==
    /\ Ordered(calls)
    /\ IsUp(calls) <=> state \in {"open", "closing"}
    /\ connected = TRUE <=> state \in {"open", "closing"}
    /\ state # "stopped" => Going(calls, failures)

Closing == asked # "none" => stop_requested = TRUE

IInv ==
    /\ StrandOK /\ OpsOK /\ Types /\ Flags /\ Flow /\ Retrying /\ Writing
    /\ Pending /\ Limits /\ Bounded /\ Callbacks /\ Closing

(***************************************************************************)
(* Operations outstanding, and tasks on the strand                         *)
(***************************************************************************)
\* An operation is started: one more of its kind.
LEMMA Added ==
    ASSUME NEW B, IsABag(B), NEW x
    PROVE  /\ IsABag(BagAdd(B, x)) /\ DOMAIN BagAdd(B, x) = DOMAIN B \cup {x}
           /\ \A y : Copies(y, BagAdd(B, x)) = Copies(y, B) + Flag(y = x)
<1> DEFINE a == BagAdd(B, x)
<1>1. \A e \in DOMAIN B : B[e] \in Nat /\ B[e] > 0
  BY DEF IsABag
<1>2. /\ a = [e \in DOMAIN a |-> a[e]]
      /\ DOMAIN a = DOMAIN B \cup {x}
      /\ \A e \in DOMAIN a :
            a[e] = IF e \notin DOMAIN B THEN 1 ELSE IF e = x THEN B[e] + 1 ELSE B[e]
  BY DEF BagAdd
<1> HIDE DEF a
<1>3. IsABag(a)
  <2>1. \A e \in DOMAIN a : a[e] \in Nat /\ a[e] > 0
    BY <1>1, <1>2
  <2> QED BY <1>2, <2>1 DEF IsABag
<1>4. ASSUME NEW y PROVE Copies(y, a) = Copies(y, B) + Flag(y = x)
  BY <1>1, <1>2 DEF Copies, BagIn, BagToSet, Flag
<1> QED BY <1>2, <1>3, <1>4 DEF a

\* An operation ends: one less of its kind.
LEMMA Removed ==
    ASSUME NEW B, IsABag(B), NEW x, BagIn(x, B)
    PROVE  /\ IsABag(BagRemove(B, x)) /\ DOMAIN BagRemove(B, x) \subseteq DOMAIN B
           /\ \A y : Copies(y, B) = Copies(y, BagRemove(B, x)) + Flag(y = x)
<1> DEFINE a == BagRemove(B, x)
<1>1. x \in DOMAIN B /\ \A e \in DOMAIN B : B[e] \in Nat /\ B[e] > 0
  BY DEF IsABag, BagIn, BagToSet
<1>2. /\ a = [e \in DOMAIN a |-> a[e]]
      /\ DOMAIN a = IF B[x] = 1 THEN DOMAIN B \ {x} ELSE DOMAIN B
      /\ \A e \in DOMAIN a : a[e] = IF e = x THEN B[e] - 1 ELSE B[e]
  BY <1>1 DEF BagRemove
<1> HIDE DEF a
<1>3. IsABag(a)
  <2>1. \A e \in DOMAIN a : a[e] \in Nat /\ a[e] > 0
    BY <1>1, <1>2
  <2> QED BY <1>2, <2>1 DEF IsABag
<1>4. ASSUME NEW y PROVE Copies(y, B) = Copies(y, a) + Flag(y = x)
  BY <1>1, <1>2 DEF Copies, BagIn, BagToSet, Flag
<1> QED BY <1>2, <1>3, <1>4 DEF a

\* Fly() counts, and is InFlight().
LEMMA FlyIsInFlight ==
    ASSUME NEW q \in Seq(Tasks), NEW B, IsABag(B), NEW op, NEW gen
    PROVE  /\ Copies(Op(op, gen), B) \in Nat
           /\ Cardinality(Places(q, Kind(op, gen))) \in Nat
           /\ Fly(q, B, op, gen) \in Nat
           /\ Fly(q, B, op, gen) = Copies(Op(op, gen), B)
                 + Cardinality({i \in 1 .. Len(q) : q[i].op = op /\ q[i].gen = gen})
           /\ (\E i \in 1 .. Len(q) : q[i].op = op /\ q[i].gen = gen)
                 => Fly(q, B, op, gen) >= 1
           /\ BagIn(Op(op, gen), B) => Fly(q, B, op, gen) >= 1
<1> DEFINE P == Places(q, Kind(op, gen))
           n == Copies(Op(op, gen), B)
<1>1. \A i \in 1 .. Len(q) : q[i] \in Tasks
  OBVIOUS
<1>2. P = {i \in 1 .. Len(q) : q[i].op = op /\ q[i].gen = gen}
  BY <1>1 DEF Places, Kind
<1>3. Cardinality(P) \in Nat /\ (Cardinality(P) = 0 <=> P = {})
  BY PlacesFinite, Zenon
<1>4. n \in Nat /\ (BagIn(Op(op, gen), B) => n >= 1)
  BY DEF IsABag, Copies, BagIn, BagToSet
<1>5. Fly(q, B, op, gen) = n + Cardinality(P)
  BY DEF Fly
<1> HIDE DEF n
<1>6. (\E i \in 1 .. Len(q) : q[i].op = op /\ q[i].gen = gen) => Cardinality(P) # 0
  BY <1>2, <1>3
<1> HIDE DEF P
<1> QED BY <1>2, <1>3, <1>4, <1>5, <1>6 DEF P, n

\* Nothing of a kind is in flight.
LEMMA NoneFly ==
    ASSUME NEW q \in Seq(Tasks), NEW B, IsABag(B), NEW op, NEW gen,
           ~BagIn(Op(op, gen), B), \A i \in 1 .. Len(q) : q[i].op = op => q[i].gen # gen
    PROVE  Fly(q, B, op, gen) = 0
<1>1. Places(q, Kind(op, gen)) = {}
  BY DEF Places, Kind
<1>2. Copies(Op(op, gen), B) = 0
  BY DEF Copies
<1>3. Cardinality(Places(q, Kind(op, gen))) = 0
  BY <1>1, FS_EmptySet
<1> QED BY <1>2, <1>3 DEF Fly

\* A completion takes the place of its operation.
LEMMA FlyCompletes ==
    ASSUME NEW q \in Seq(Tasks), NEW B, IsABag(B), NEW x, BagIn(x, B),
           NEW t \in Tasks, x = Op(t.op, t.gen)
    PROVE  \A op, gen : Fly(Append(q, t), BagRemove(B, x), op, gen) = Fly(q, B, op, gen)
<1> SUFFICES ASSUME NEW op, NEW gen
             PROVE  Fly(Append(q, t), BagRemove(B, x), op, gen) = Fly(q, B, op, gen)
  OBVIOUS
<1> DEFINE a == Append(q, t)
           C == BagRemove(B, x)
           K == Kind(op, gen)
           y == Op(op, gen)
<1>1. Cardinality(Places(a, K)) = Cardinality(Places(q, K)) + IF t \in K THEN 1 ELSE 0
  BY PlacesAppend
<1>2. IsABag(C) /\ Copies(y, B) = Copies(y, C) + Flag(y = x)
  BY Removed
<1>3. t \in K <=> y = x
  BY DEF Kind, Op
<1>4. a \in Seq(Tasks)
  OBVIOUS
<1> HIDE DEF a, C
<1>5. /\ Cardinality(Places(q, K)) \in Nat /\ Cardinality(Places(a, K)) \in Nat
      /\ Copies(y, B) \in Nat /\ Copies(y, C) \in Nat
  BY <1>2, <1>4, FlyIsInFlight
<1> HIDE DEF K, y
<1>6. Copies(y, C) + Cardinality(Places(a, K)) = Copies(y, B) + Cardinality(Places(q, K))
  BY <1>1, <1>2, <1>3, <1>5 DEF Flag
<1> QED BY <1>6 DEF Fly, a, C, K, y

\* Something else is posted.
LEMMA FlyPosts ==
    ASSUME NEW q \in Seq(Tasks), NEW B, IsABag(B), NEW t \in Tasks, NEW op, op # t.op, NEW gen
    PROVE  Fly(Append(q, t), B, op, gen) = Fly(q, B, op, gen)
<1> DEFINE K == Kind(op, gen)
<1>1. Cardinality(Places(Append(q, t), K))
         = Cardinality(Places(q, K)) + IF t \in K THEN 1 ELSE 0
  BY PlacesAppend
<1>2. t \notin K
  BY DEF Kind
<1>3. Cardinality(Places(q, K)) \in Nat
  BY FlyIsInFlight
<1> HIDE DEF K
<1>4. Cardinality(Places(Append(q, t), K)) = Cardinality(Places(q, K))
  BY <1>1, <1>2, <1>3
<1> QED BY <1>4 DEF Fly, K

\* The first task runs.
LEMMA FlyRuns ==
    ASSUME NEW q \in Seq(Tasks), q # <<>>, NEW B, IsABag(B), NEW op, NEW gen
    PROVE  Fly(q, B, op, gen) = Fly(Tail(q), B, op, gen)
                                    + Flag(Head(q).op = op /\ Head(q).gen = gen)
<1> DEFINE a == Tail(q)
           K == Kind(op, gen)
           y == Op(op, gen)
           here == Head(q).op = op /\ Head(q).gen = gen
<1>1. Cardinality(Places(q, K)) = Cardinality(Places(a, K)) + IF Head(q) \in K THEN 1 ELSE 0
  BY PlacesTail
<1>2. Head(q) \in K <=> here
  BY DEF Kind
<1>3. a \in Seq(Tasks)
  OBVIOUS
<1> HIDE DEF a
<1>4. /\ Cardinality(Places(q, K)) \in Nat /\ Cardinality(Places(a, K)) \in Nat
      /\ Copies(y, B) \in Nat
  BY <1>3, FlyIsInFlight
<1> HIDE DEF K, y, here
<1>5. Copies(y, B) + Cardinality(Places(q, K))
         = Copies(y, B) + Cardinality(Places(a, K)) + Flag(here)
  BY <1>1, <1>2, <1>4 DEF Flag
<1> QED BY <1>5 DEF Fly, a, K, y, here

\* A handler starts an operation.
LEMMA FlyStarts ==
    ASSUME NEW q \in Seq(Tasks), NEW B, IsABag(B), NEW x, NEW op, NEW gen
    PROVE  Fly(q, BagAdd(B, x), op, gen) = Fly(q, B, op, gen) + Flag(x = Op(op, gen))
<1> DEFINE C == BagAdd(B, x)
           y == Op(op, gen)
           n == Cardinality(Places(q, Kind(op, gen)))
<1>1. n \in Nat /\ Copies(y, B) \in Nat
  BY FlyIsInFlight
<1> HIDE DEF y, n
<1> HIDE DEF C
<1>2. IsABag(C) /\ Copies(y, C) = Copies(y, B) + Flag(y = x)
  BY Added DEF C, Flag
<1>3. Copies(y, C) + n = Copies(y, B) + n + Flag(x = y)
  BY <1>1, <1>2 DEF Flag
<1> QED BY <1>3 DEF Fly, C, y, n

(***************************************************************************)
(* The delays of retries                                                   *)
(***************************************************************************)
\* What the recursion of retryDelay() asks of the function doubled
Doubling(f, n) ==
    f = [i \in 1 .. n |->
            IF i = 1 THEN initial_delay
            ELSE IF f[i - 1] < max_delay THEN 2 * f[i - 1]
            ELSE f[i - 1]]

\* There is such a function for any number of attempts.
LEMMA DoublingExists == \A n \in Nat : \E f : Doubling(f, n)
<1> DEFINE T == {n \in Nat : \E f : Doubling(f, n)}
<1>1. 0 \in T
  <2> DEFINE f == [i \in 1 .. 0 |-> 0]
  <2>1. f = [i \in 1 .. 0 |->
            IF i = 1 THEN initial_delay
            ELSE IF f[i - 1] < max_delay THEN 2 * f[i - 1]
            ELSE f[i - 1]]
    OBVIOUS
  <2> QED BY <2>1 DEF Doubling
<1>2. ASSUME NEW n \in Nat, n \in T PROVE n + 1 \in T
  <2>1. PICK f : Doubling(f, n) BY <1>2
  <2> DEFINE next == IF n = 0 THEN initial_delay
                     ELSE IF f[n] < max_delay THEN 2 * f[n] ELSE f[n]
             g == [i \in 1 .. n + 1 |-> IF i = n + 1 THEN next ELSE f[i]]
  <2>2. DOMAIN f = 1 .. n /\ \A i \in 1 .. n :
            f[i] = IF i = 1 THEN initial_delay
                   ELSE IF f[i - 1] < max_delay THEN 2 * f[i - 1] ELSE f[i - 1]
    BY <2>1 DEF Doubling
  <2>3. \A i \in 1 .. n + 1 :
            g[i] = IF i = 1 THEN initial_delay
                   ELSE IF g[i - 1] < max_delay THEN 2 * g[i - 1] ELSE g[i - 1]
    <3> SUFFICES ASSUME NEW i \in 1 .. n + 1
                 PROVE  g[i] = IF i = 1 THEN initial_delay
                               ELSE IF g[i - 1] < max_delay THEN 2 * g[i - 1] ELSE g[i - 1]
      OBVIOUS
    <3>1. i # 1 => i - 1 \in 1 .. n /\ g[i - 1] = f[i - 1]
      OBVIOUS
    <3>2. CASE i = n + 1
      <4>1. g[i] = next BY <3>2
      <4> QED BY <3>1, <3>2, <4>1
    <3>3. CASE i # n + 1
      <4>1. i \in 1 .. n /\ g[i] = f[i] BY <3>3
      <4> QED BY <2>2, <3>1, <4>1
    <3> QED BY <3>2, <3>3
  <2>4. DOMAIN g = 1 .. n + 1 /\ g = [i \in DOMAIN g |-> g[i]]
    OBVIOUS
  <2> HIDE DEF g
  <2>5. Doubling(g, n + 1)
    BY <2>3, <2>4 DEF Doubling
  <2> QED BY <2>5
<1> HIDE DEF T
<1>3. Nat \subseteq T
  BY <1>1, <1>2, Induction
<1> QED BY <1>3 DEF T

\* Functions for different numbers of attempts agree, and count in naturals.
LEMMA DoublingAgrees ==
    ASSUME NEW m \in Nat, NEW n \in Nat, NEW f, Doubling(f, m), NEW g, Doubling(g, n)
    PROVE  \A i \in Nat \ {0} : i <= m /\ i <= n => f[i] = g[i] /\ f[i] \in Nat
<1> DEFINE T == {i \in Nat : i > 0 /\ i <= m /\ i <= n => f[i] = g[i] /\ f[i] \in Nat}
<1>1. /\ \A i \in 1 .. m : f[i] = IF i = 1 THEN initial_delay
                                 ELSE IF f[i - 1] < max_delay THEN 2 * f[i - 1] ELSE f[i - 1]
      /\ \A i \in 1 .. n : g[i] = IF i = 1 THEN initial_delay
                                 ELSE IF g[i - 1] < max_delay THEN 2 * g[i - 1] ELSE g[i - 1]
  BY DEF Doubling
<1>2. 0 \in T
  OBVIOUS
<1>3. ASSUME NEW i \in Nat, i \in T PROVE i + 1 \in T
  <2>1. CASE i + 1 <= m /\ i + 1 <= n /\ i # 0
    <3>1. f[i] = g[i] /\ f[i] \in Nat BY <1>3, <2>1
    <3>2. i + 1 \in 1 .. m /\ i + 1 \in 1 .. n /\ i + 1 # 1 /\ (i + 1) - 1 = i BY <2>1
    <3>3. /\ f[i + 1] = IF f[i] < max_delay THEN 2 * f[i] ELSE f[i]
          /\ g[i + 1] = IF g[i] < max_delay THEN 2 * g[i] ELSE g[i]
      BY <1>1, <3>2
    <3> HIDE DEF T
    <3>4. f[i + 1] = g[i + 1] /\ f[i + 1] \in Nat BY <3>1, <3>3
    <3> QED BY <3>4 DEF T
  <2>2. CASE i + 1 <= m /\ i + 1 <= n /\ i = 0
    BY <1>1, <2>2, ClientAssumption
  <2> QED BY <2>1, <2>2
<1> HIDE DEF T
<1>4. Nat \subseteq T
  BY <1>2, <1>3, Induction
<1> QED BY <1>4 DEF T

\* retryDelay(): the first retry waits for initial_delay, each twice as long as the
\* one before, none longer than max_delay.
LEMMA DelaysDouble ==
    /\ \A n \in Nat \ {0} : retryDelay(n) \in Nat
    /\ retryDelay(1) = capped(initial_delay)
    /\ \A n \in Nat \ {0} : retryDelay(n + 1) = capped(2 * retryDelay(n))
<1> DEFINE D(n) == CHOOSE f : Doubling(f, n)
<1>1. \A n \in Nat : Doubling(D(n), n)
  BY DoublingExists
<1>2. \A n \in Nat \ {0} : retryDelay(n) = capped(D(n)[n])
  BY DEF retryDelay, capped, Doubling
<1> HIDE DEF D
<1>3. ASSUME NEW n \in Nat \ {0}
      PROVE  /\ D(n)[n] \in Nat
             /\ n = 1 => D(n)[n] = initial_delay
             /\ D(n + 1)[n] = D(n)[n]
             /\ D(n + 1)[n + 1] = IF D(n)[n] < max_delay THEN 2 * D(n)[n] ELSE D(n)[n]
  <2>0. n \in Nat /\ n + 1 \in Nat /\ n <= n + 1 /\ n <= n
    OBVIOUS
  <2>1. Doubling(D(n), n) /\ Doubling(D(n + 1), n + 1)
    BY <1>1, <2>0
  <2>2. D(n)[n] = D(n + 1)[n] /\ D(n)[n] \in Nat
    BY <2>0, <2>1, DoublingAgrees
  <2>3. n = 1 => D(n)[n] = initial_delay
    <3>1. n = 1 => n \in 1 .. n OBVIOUS
    <3> QED BY <2>1, <3>1 DEF Doubling
  <2>4. n + 1 \in 1 .. n + 1 /\ n + 1 # 1 /\ (n + 1) - 1 = n
    OBVIOUS
  <2>5. D(n + 1)[n + 1] = IF D(n + 1)[n] < max_delay THEN 2 * D(n + 1)[n] ELSE D(n + 1)[n]
    BY <2>1, <2>4 DEF Doubling
  <2> QED BY <2>2, <2>3, <2>5
<1>4. max_delay \in Nat /\ initial_delay \in Nat
  BY ClientAssumption
<1>5. \A n \in Nat \ {0} : retryDelay(n) \in Nat
  BY <1>2, <1>3, <1>4 DEF capped
<1>6. retryDelay(1) = capped(initial_delay)
  BY <1>2, <1>3
<1>7. ASSUME NEW n \in Nat \ {0} PROVE retryDelay(n + 1) = capped(2 * retryDelay(n))
  <2> DEFINE d == D(n)[n]
  <2>1. n + 1 \in Nat \ {0} /\ d \in Nat
    BY <1>3
  <2>2. retryDelay(n) = capped(d)
    BY <1>2
  <2>3. retryDelay(n + 1) = capped(IF d < max_delay THEN 2 * d ELSE d)
    BY <1>2, <1>3, <2>1
  <2> HIDE DEF d
  <2> QED BY <1>4, <2>1, <2>2, <2>3 DEF capped
<1> QED BY <1>5, <1>6, <1>7

(***************************************************************************)
(* Callbacks                                                               *)
(***************************************************************************)
\* One more callback.
LEMMA OneMore ==
    ASSUME NEW c \in Seq(Events), NEW e \in Events
    PROVE  LET d == Append(c, e)
           IN  /\ d \in Seq(Events) /\ Len(c) \in Nat /\ Len(d) = Len(c) + 1
               /\ \A i \in 1 .. Len(c) : d[i] = c[i]
               /\ d[Len(c) + 1] = e
               /\ \A v : At(c, v) \subseteq 1 .. Len(c) /\ IsFiniteSet(At(c, v))
               /\ \A v : At(d, v) = At(c, v) \cup IF e.event = v THEN {Len(c) + 1} ELSE {}
<1> DEFINE d == Append(c, e)
<1>1. /\ d \in Seq(Events) /\ Len(c) \in Nat /\ Len(d) = Len(c) + 1
      /\ \A i \in 1 .. Len(c) : d[i] = c[i]
      /\ d[Len(c) + 1] = e
  OBVIOUS
<1> HIDE DEF d
<1>2. ASSUME NEW v PROVE At(c, v) \subseteq 1 .. Len(c) /\ IsFiniteSet(At(c, v))
  <2>1. IsFiniteSet(1 .. Len(c))
    BY <1>1, FS_Interval
  <2> QED BY <2>1, FS_Subset DEF At
<1>3. ASSUME NEW v
      PROVE  At(d, v) = At(c, v) \cup IF e.event = v THEN {Len(c) + 1} ELSE {}
  <2>1. \A i : i \in 1 .. Len(d) <=> i \in 1 .. Len(c) \/ i = Len(c) + 1
    BY <1>1
  <2> QED BY <1>1, <2>1 DEF At
<1> QED BY <1>1, <1>2, <1>3 DEF d

\* The retries already reported stay in order.
LEMMA RetriesKept ==
    ASSUME NEW c \in Seq(Events), Retries(c), NEW e \in Events,
           NEW i \in At(c, "reconnecting")
    PROVE  LET d == Append(c, e)
               n == Cardinality({j \in At(d, "reconnecting") : j <= i})
           IN  /\ i > 1 /\ d[i - 1].event \in {"error", "close"}
               /\ d[i].attempt = n
               /\ max_attempts > 0 => n <= max_attempts
               /\ d[i].delay = retryDelay(n)
<1> DEFINE d == Append(c, e)
           m == Cardinality({j \in At(c, "reconnecting") : j <= i})
<1>1. /\ Len(c) \in Nat /\ \A k \in 1 .. Len(c) : d[k] = c[k]
      /\ At(c, "reconnecting") \subseteq 1 .. Len(c)
      /\ At(d, "reconnecting") = At(c, "reconnecting")
                                    \cup IF e.event = "reconnecting" THEN {Len(c) + 1} ELSE {}
  BY OneMore
<1> HIDE DEF d
<1>2. {j \in At(d, "reconnecting") : j <= i} = {j \in At(c, "reconnecting") : j <= i}
  BY <1>1
<1>3. /\ i > 1 /\ c[i - 1].event \in {"error", "close"}
      /\ c[i].attempt = m
      /\ max_attempts > 0 => m <= max_attempts
      /\ c[i].delay = retryDelay(m)
  BY DEF Retries
<1>4. i \in 1 .. Len(c) /\ i - 1 \in 1 .. Len(c)
  BY <1>1, <1>3
<1> HIDE DEF m
<1>5. d[i] = c[i] /\ d[i - 1] = c[i - 1]
  BY <1>1, <1>4
<1> QED BY <1>2, <1>3, <1>5 DEF d, m

\* onError, onRejected, or a message of an open connection.
LEMMA PlainCall ==
    ASSUME NEW c, NEW n, Going(c, n), NEW e \in Events,
           e.event \in {"error", "rejected", "message"}, e.event = "message" => IsUp(c)
    PROVE  Going(Append(c, e), n) /\ (IsUp(Append(c, e)) <=> IsUp(c))
<1> DEFINE d == Append(c, e)
<1>0. c \in Seq(Events) /\ Ordered(c) /\ Retries(c)
  BY DEF Going, Ordered
<1>1. /\ d \in Seq(Events) /\ Len(c) \in Nat /\ Len(d) = Len(c) + 1
      /\ \A v : At(c, v) \subseteq 1 .. Len(c)
      /\ \A v : At(d, v) = At(c, v) \cup IF e.event = v THEN {Len(c) + 1} ELSE {}
  BY <1>0, OneMore
<1>2. At(d, "reconnecting") = At(c, "reconnecting") /\ Retries(d)
  <2>1. At(d, "reconnecting") = At(c, "reconnecting")
    BY <1>1
  <2>2. Retries(d)
    BY <1>0, <2>1, RetriesKept DEF Retries
  <2> QED BY <2>1, <2>2
<1> HIDE DEF d
<1>3. /\ At(d, "open") = At(c, "open") /\ At(d, "close") = At(c, "close")
      /\ At(d, "gave_up") = At(c, "gave_up")
      /\ IsUp(d) <=> IsUp(c)
  BY <1>1 DEF IsUp
<1>4. \A i \in At(d, "message") :
          At(d, "open") = {1} /\ \A j \in At(d, "close") : i < j
  <2>1. ASSUME NEW i \in At(c, "message")
        PROVE  At(d, "open") = {1} /\ \A j \in At(d, "close") : i < j
    BY <1>0, <1>3, <2>1 DEF Ordered
  <2>2. e.event = "message" => At(c, "open") = {1} /\ At(c, "close") = {}
    BY <1>0 DEF Ordered, IsUp
  <2> QED BY <1>1, <1>3, <2>1, <2>2
<1> QED BY <1>0, <1>1, <1>2, <1>3, <1>4 DEF Going, Ordered, d

\* onClose, of an open connection.
LEMMA CloseCall ==
    ASSUME NEW c, NEW n, Going(c, n), IsUp(c)
    PROVE  Going(Append(c, Call("close")), n) /\ ~IsUp(Append(c, Call("close")))
<1> DEFINE e == Call("close")
           d == Append(c, e)
<1>0. c \in Seq(Events) /\ Ordered(c) /\ Retries(c) /\ e \in Events /\ e.event = "close"
  BY DEF Going, Ordered, Call, Events
<1> HIDE DEF e
<1>1. /\ d \in Seq(Events) /\ Len(c) \in Nat /\ Len(d) = Len(c) + 1
      /\ \A v : At(c, v) \subseteq 1 .. Len(c)
      /\ \A v : At(d, v) = At(c, v) \cup IF e.event = v THEN {Len(c) + 1} ELSE {}
  BY <1>0, OneMore
<1>2. At(d, "reconnecting") = At(c, "reconnecting") /\ Retries(d)
  <2>1. At(d, "reconnecting") = At(c, "reconnecting")
    BY <1>0, <1>1
  <2>2. Retries(d)
    BY <1>0, <2>1, RetriesKept DEF Retries
  <2> QED BY <2>1, <2>2
<1> HIDE DEF d
<1>3. /\ At(d, "open") = At(c, "open") /\ At(d, "close") = {Len(c) + 1}
      /\ At(d, "gave_up") = At(c, "gave_up") /\ At(d, "message") = At(c, "message")
      /\ ~IsUp(d) /\ At(c, "open") # {}
  BY <1>0, <1>1 DEF IsUp
<1>4. Cardinality(At(d, "close")) = 1
  BY <1>3, FS_Singleton
<1>5. \A i \in At(d, "message") :
          At(d, "open") = {1} /\ \A j \in At(d, "close") : i < j
  <2>1. \A i \in At(c, "message") : i <= Len(c) /\ At(c, "open") = {1}
    BY <1>0, <1>1 DEF Ordered
  <2> QED BY <1>1, <1>3, <2>1
<1>6. At(c, "gave_up") = {} /\ Cardinality(At(c, "reconnecting")) = n
  BY DEF Going
<1> QED BY <1>0, <1>1, <1>2, <1>3, <1>4, <1>5, <1>6 DEF Going, Ordered, d, e

\* onReconnecting, after an error or a close.
LEMMA RetryCall ==
    ASSUME NEW c, NEW n \in Nat, Going(c, n), ~IsUp(c), c # <<>>,
           c[Len(c)].event \in {"error", "close"}, max_attempts > 0 => n + 1 <= max_attempts
    PROVE  /\ Going(Append(c, Reconnecting(n + 1)), n + 1)
           /\ ~IsUp(Append(c, Reconnecting(n + 1)))
<1> DEFINE e == Reconnecting(n + 1)
           d == Append(c, e)
           m(i) == Cardinality({j \in At(d, "reconnecting") : j <= i})
<1>0. /\ c \in Seq(Events) /\ Ordered(c) /\ Retries(c) /\ At(c, "gave_up") = {}
      /\ Cardinality(At(c, "reconnecting")) = n
      /\ e \in Events /\ e.event = "reconnecting"
      /\ e.attempt = n + 1 /\ e.delay = retryDelay(n + 1)
  <2>0. n + 1 \in Nat \ {0}
    OBVIOUS
  <2>1. retryDelay(n + 1) \in Nat /\ n + 1 \in Nat
    BY <2>0, DelaysDouble
  <2> QED BY <2>1 DEF Going, Ordered, Reconnecting, Events
<1> HIDE DEF e
<1>1. /\ d \in Seq(Events) /\ Len(c) \in Nat /\ Len(d) = Len(c) + 1
      /\ \A i \in 1 .. Len(c) : d[i] = c[i]
      /\ d[Len(c) + 1] = e
      /\ \A v : At(c, v) \subseteq 1 .. Len(c) /\ IsFiniteSet(At(c, v))
      /\ \A v : At(d, v) = At(c, v) \cup IF e.event = v THEN {Len(c) + 1} ELSE {}
  BY <1>0, OneMore
<1>2. ASSUME NEW i \in At(c, "reconnecting")
      PROVE  /\ i > 1 /\ d[i - 1].event \in {"error", "close"}
             /\ d[i].attempt = m(i)
             /\ max_attempts > 0 => m(i) <= max_attempts
             /\ d[i].delay = retryDelay(m(i))
  BY <1>0, <1>2, RetriesKept
<1> HIDE DEF d
<1>3. /\ At(d, "reconnecting") = At(c, "reconnecting") \cup {Len(c) + 1}
      /\ Cardinality(At(d, "reconnecting")) = n + 1
  <2>1. At(d, "reconnecting") = At(c, "reconnecting") \cup {Len(c) + 1}
    BY <1>0, <1>1
  <2>2. Len(c) + 1 \notin At(c, "reconnecting") /\ IsFiniteSet(At(c, "reconnecting"))
    BY <1>1
  <2> QED BY <1>0, <2>1, <2>2, FS_AddElement
<1>4. LET i == Len(c) + 1
      IN  /\ i > 1 /\ d[i - 1].event \in {"error", "close"}
          /\ d[i].attempt = m(i)
          /\ max_attempts > 0 => m(i) <= max_attempts
          /\ d[i].delay = retryDelay(m(i))
  <2>1. {j \in At(d, "reconnecting") : j <= Len(c) + 1} = At(d, "reconnecting")
    BY <1>1, <1>3
  <2>2. m(Len(c) + 1) = n + 1
    BY <1>3, <2>1
  <2>3. Len(c) > 0 /\ Len(c) \in 1 .. Len(c) /\ (Len(c) + 1) - 1 = Len(c)
    BY <1>0, <1>1
  <2>4. Len(c) + 1 > 1 /\ d[(Len(c) + 1) - 1].event \in {"error", "close"}
    BY <1>1, <2>3
  <2> HIDE DEF m
  <2> QED BY <1>0, <1>1, <2>2, <2>4
<1>5. Retries(d)
  <2>1. \A i \in At(d, "reconnecting") : i \in At(c, "reconnecting") \/ i = Len(c) + 1
    BY <1>3
  <2> QED BY <1>2, <1>4, <2>1, Zenon DEF Retries
<1> HIDE DEF m
<1>6. /\ At(d, "open") = At(c, "open") /\ At(d, "close") = At(c, "close")
      /\ At(d, "gave_up") = At(c, "gave_up") /\ At(d, "message") = At(c, "message")
      /\ IsUp(d) <=> IsUp(c)
  <2>1. ASSUME NEW v, v # "reconnecting" PROVE At(d, v) = At(c, v)
    <3>1. e.event # v
      BY <1>0, <2>1, Zenon
    <3>2. At(d, v) = At(c, v) \cup IF e.event = v THEN {Len(c) + 1} ELSE {}
      BY <1>1, Zenon
    <3> QED BY <3>1, <3>2
  <2> QED BY <2>1 DEF IsUp
<1>7. Ordered(d)
  BY <1>0, <1>5, <1>6 DEF Ordered
<1> QED BY <1>0, <1>1, <1>3, <1>6, <1>7 DEF Going, d, e

\* Giving up.
LEMMA LastCall ==
    ASSUME NEW c, Going(c, max_attempts), max_attempts > 0
    PROVE  LET d == Append(c, Call("gave_up"))
           IN  d \in Seq(Events) /\ Ordered(d) /\ (IsUp(d) <=> IsUp(c))
<1> DEFINE e == Call("gave_up")
           d == Append(c, e)
<1>0. /\ c \in Seq(Events) /\ Ordered(c) /\ Retries(c) /\ At(c, "gave_up") = {}
      /\ Cardinality(At(c, "reconnecting")) = max_attempts
      /\ e \in Events /\ e.event = "gave_up"
  BY DEF Going, Ordered, Call, Events
<1> HIDE DEF e
<1>1. /\ d \in Seq(Events) /\ Len(c) \in Nat /\ Len(d) = Len(c) + 1
      /\ \A v : At(d, v) = At(c, v) \cup IF e.event = v THEN {Len(c) + 1} ELSE {}
  BY <1>0, OneMore
<1>2. At(d, "reconnecting") = At(c, "reconnecting") /\ Retries(d)
  <2>1. At(d, "reconnecting") = At(c, "reconnecting")
    BY <1>0, <1>1
  <2>2. Retries(d)
    BY <1>0, <2>1, RetriesKept DEF Retries
  <2> QED BY <2>1, <2>2
<1> HIDE DEF d
<1>3. /\ At(d, "open") = At(c, "open") /\ At(d, "close") = At(c, "close")
      /\ At(d, "gave_up") = {Len(c) + 1} /\ At(d, "message") = At(c, "message")
      /\ IsUp(d) <=> IsUp(c)
  BY <1>0, <1>1 DEF IsUp
<1>4. Ordered(d)
  BY <1>0, <1>1, <1>2, <1>3 DEF Ordered
<1> QED BY <1>1, <1>3, <1>4 DEF d, e

\* onOpen: counting starts again.
LEMMA OpenCall == Going(<<Call("open")>>, 0) /\ IsUp(<<Call("open")>>)
<1> DEFINE d == <<Call("open")>>
<1>1. d \in Seq(Events) /\ Len(d) = 1 /\ d[1].event = "open"
  BY DEF Call, Events
<1> HIDE DEF d
<1>2. At(d, "open") = {1} /\ \A v : v # "open" => At(d, v) = {}
  BY <1>1 DEF At
<1>3. Cardinality({}) = 0
  BY FS_EmptySet
<1>4. IsUp(d) /\ Retries(d)
  BY <1>2 DEF IsUp, Retries
<1>5. Ordered(d)
  <2>1. /\ At(d, "close") = {} /\ Cardinality(At(d, "close")) = 0
        /\ At(d, "message") = {} /\ At(d, "gave_up") = {}
    BY <1>2, <1>3
  <2> QED BY <1>2, <1>4, <2>1 DEF Ordered
<1> QED BY <1>1, <1>2, <1>3, <1>4, <1>5 DEF Going, d

\* Before anything is called.
LEMMA NoCall == Going(<<>>, 0) /\ ~IsUp(<<>>)
<1>1. <<>> \in Seq(Events) /\ \A v : At(<<>>, v) = {}
  BY DEF At
<1>2. Cardinality({}) = 0
  BY FS_EmptySet
<1> QED BY <1>1, <1>2 DEF Going, Ordered, Retries, IsUp

\* What an attempt or a connection that is over reports.
LEMMA OverCalls ==
    ASSUME NEW c, NEW n \in Nat, Going(c, n), NEW events,
           \/ ~IsUp(c) /\ events \in {<<>>, <<Call("error")>>, <<Call("rejected")>>}
           \/ IsUp(c) /\ events \in {<<Call("close")>>, <<Call("error"), Call("close")>>}
    PROVE  /\ Going(c \o events, n) /\ ~IsUp(c \o events)
           /\ events \notin {<<>>, <<Call("rejected")>>} /\ (max_attempts > 0 => n + 1 <= max_attempts)
                => LET d == c \o (events \o <<Reconnecting(n + 1)>>)
                   IN  Going(d, n + 1) /\ ~IsUp(d)
           /\ n = max_attempts /\ max_attempts > 0
                => LET d == c \o (events \o <<Call("gave_up")>>)
                   IN  d \in Seq(Events) /\ Ordered(d) /\ ~IsUp(d)
<1> DEFINE d == c \o events
<1>1. c \in Seq(Events) /\ \A x : Append(c, x) = c \o <<x>>
  <2>1. c \in Seq(Events)
    BY DEF Going
  <2> QED BY <2>1
<1>2. /\ Call("error") \in Events /\ Call("rejected") \in Events /\ Call("close") \in Events
      /\ Call("error").event = "error" /\ Call("rejected").event = "rejected"
      /\ Call("close").event = "close" /\ Reconnecting(n + 1) \in Events
      /\ Call("gave_up") \in Events
  <2>1. n + 1 \in Nat \ {0}
    OBVIOUS
  <2> QED BY <2>1, DelaysDouble DEF Call, Events, Reconnecting
<1>3. events \in Seq(Events)
  <2>1. \A x, y \in Events : <<x>> \in Seq(Events) /\ <<x, y>> \in Seq(Events)
    OBVIOUS
  <2>2. <<>> \in Seq(Events)
    OBVIOUS
  <2> QED BY <1>2, <2>1, <2>2, Zenon
<1>4. /\ Going(d, n) /\ ~IsUp(d)
      /\ events \notin {<<>>, <<Call("rejected")>>} =>
             d # <<>> /\ d[Len(d)].event \in {"error", "close"}
  <2>1. CASE events = <<>> /\ ~IsUp(c)
    <3>1. d = c
      BY <1>1, <2>1
    <3> QED BY <2>1, <3>1
  <2>2. CASE events = <<Call("error")>> /\ ~IsUp(c)
    <3>1. d = Append(c, Call("error"))
      BY <1>1, <2>2
    <3>2. d # <<>> /\ d[Len(d)] = Call("error")
      BY <1>1, <1>2, <3>1
    <3>3. Going(Append(c, Call("error")), n) /\ ~IsUp(Append(c, Call("error")))
      <4>1. Call("error").event \in {"error", "rejected", "message"}
            /\ Call("error").event # "message"
        BY <1>2
      <4> QED BY <1>2, <2>2, <4>1, PlainCall, Zenon
    <3> HIDE DEF d
    <3> QED BY <1>2, <3>1, <3>2, <3>3
  <2>3. CASE events = <<Call("rejected")>> /\ ~IsUp(c)
    <3>1. d = Append(c, Call("rejected"))
      BY <1>1, <2>3
    <3>3. Going(Append(c, Call("rejected")), n) /\ ~IsUp(Append(c, Call("rejected")))
      <4>1. Call("rejected").event \in {"error", "rejected", "message"}
            /\ Call("rejected").event # "message"
        BY <1>2
      <4> QED BY <1>2, <2>3, <4>1, PlainCall, Zenon
    <3> HIDE DEF d
    <3> QED BY <2>3, <3>1, <3>3
  <2>4. CASE events = <<Call("close")>> /\ IsUp(c)
    <3>1. d = Append(c, Call("close"))
      BY <1>1, <2>4
    <3>2. d # <<>> /\ d[Len(d)] = Call("close")
      BY <1>1, <1>2, <3>1
    <3> QED BY <1>2, <2>4, <3>1, <3>2, CloseCall
  <2>5. CASE events = <<Call("error"), Call("close")>> /\ IsUp(c)
    <3> DEFINE b == Append(c, Call("error"))
    <3>1. d = Append(b, Call("close"))
      BY <1>1, <1>2, <2>5
    <3>2. Going(b, n) /\ IsUp(b) /\ b \in Seq(Events)
      BY <1>1, <1>2, <2>5, PlainCall
    <3> HIDE DEF b, d
    <3>3. d # <<>> /\ d[Len(d)] = Call("close")
      BY <1>2, <3>1, <3>2
    <3> QED BY <1>2, <3>1, <3>2, <3>3, CloseCall
  <2> QED BY <2>1, <2>2, <2>3, <2>4, <2>5
<1>5. \A x \in Events : c \o (events \o <<x>>) = Append(d, x)
  BY <1>1, <1>3
<1> HIDE DEF d
<1>6. ASSUME events \notin {<<>>, <<Call("rejected")>>},
             max_attempts > 0 => n + 1 <= max_attempts
      PROVE  LET b == c \o (events \o <<Reconnecting(n + 1)>>)
             IN  Going(b, n + 1) /\ ~IsUp(b)
  <2>1. c \o (events \o <<Reconnecting(n + 1)>>) = Append(d, Reconnecting(n + 1))
    BY <1>2, <1>5
  <2> QED BY <1>4, <1>6, <2>1, RetryCall
<1>7. ASSUME n = max_attempts, max_attempts > 0
      PROVE  LET b == c \o (events \o <<Call("gave_up")>>)
             IN  b \in Seq(Events) /\ Ordered(b) /\ ~IsUp(b)
  <2>1. c \o (events \o <<Call("gave_up")>>) = Append(d, Call("gave_up"))
    BY <1>2, <1>5
  <2> QED BY <1>4, <1>7, <2>1, LastCall
<1> QED BY <1>4, <1>6, <1>7 DEF d

(***************************************************************************)
(* The stream and the timer                                                *)
(***************************************************************************)
\* Everything counted is a natural number.
LEMMA Counted ==
    ASSUME StrandOK, OpsOK
    PROVE  /\ \A o : Fly(strand, ops, o, generation) \in Nat
           /\ \A P : Cardinality(Places(strand, P)) \in Nat
<1>1. strand \in Seq(Tasks) /\ IsABag(ops)
  BY DEF StrandOK, OpsOK
<1> QED BY <1>1, FlyIsInFlight, PlacesFinite

\* A task is added to the strand.
LEMMA TaskAdded ==
    ASSUME StrandOK, NEW t \in Tasks, TaskOK(t, generation),
           strand' = Append(strand, t), generation' = generation
    PROVE  /\ StrandOK'
           /\ Cardinality(Places(strand', Starts))
                 = Cardinality(Places(strand, Starts)) + IF t \in Starts THEN 1 ELSE 0
           /\ Cardinality(Places(strand', Sends))
                 = Cardinality(Places(strand, Sends)) + IF t \in Sends THEN 1 ELSE 0
           /\ Cardinality(Places(strand', Expired))
                 = Cardinality(Places(strand, Expired)) + IF t \in Expired THEN 1 ELSE 0
           /\ NoneFailed(strand', generation) <=>
                 /\ NoneFailed(strand, generation)
                 /\ t.op = "write" /\ t.gen = generation => t.arg = "ok"
           /\ Accepted(strand', generation) <=>
                 Accepted(strand, generation) \/ t = Task("upgrade", generation, "ok")
<1>1. strand \in Seq(Tasks) /\ \A i \in 1 .. Len(strand) : TaskOK(strand[i], generation)
  BY DEF StrandOK
<1>2. /\ strand' \in Seq(Tasks) /\ Len(strand) \in Nat /\ Len(strand') = Len(strand) + 1
      /\ \A i \in 1 .. Len(strand) : strand'[i] = strand[i]
      /\ strand'[Len(strand) + 1] = t
  BY <1>1
<1>3. \A i : i \in 1 .. Len(strand') <=> i \in 1 .. Len(strand) \/ i = Len(strand) + 1
  BY <1>2
<1>4. StrandOK'
  <2>1. \A i \in 1 .. Len(strand') : TaskOK(strand'[i], generation)
    BY <1>1, <1>2, <1>3
  <2> QED BY <1>2, <2>1 DEF StrandOK
<1>5. \A P : Cardinality(Places(strand', P))
                = Cardinality(Places(strand, P)) + IF t \in P THEN 1 ELSE 0
  BY <1>1, PlacesAppend
<1>6. NoneFailed(strand', generation) <=>
          /\ NoneFailed(strand, generation)
          /\ t.op = "write" /\ t.gen = generation => t.arg = "ok"
  BY <1>2, <1>3 DEF NoneFailed
<1>7. Accepted(strand', generation) <=>
          Accepted(strand, generation) \/ t = Task("upgrade", generation, "ok")
  BY <1>2, <1>3 DEF Accepted
<1> QED BY <1>4, <1>5, <1>6, <1>7

\* An operation of a stream ends: nothing is lost or doubled.
LEMMA OpEnds ==
    ASSUME StrandOK, OpsOK, generation \in Nat, NEW op \in OpNames, NEW g,
           NEW res \in Args, Completes(op, g, res), generation' = generation
    PROVE  /\ StrandOK' /\ OpsOK'
           /\ \A o : Fly(strand', ops', o, generation) = Fly(strand, ops, o, generation)
           /\ Cardinality(Places(strand', Starts)) = Cardinality(Places(strand, Starts))
           /\ Cardinality(Places(strand', Sends)) = Cardinality(Places(strand, Sends))
           /\ Cardinality(Places(strand', Expired)) = Cardinality(Places(strand, Expired))
           /\ NoneFailed(strand, generation) /\ (op = "write" /\ g = generation => res = "ok")
                 => NoneFailed(strand', generation)
           /\ Accepted(strand', generation) =>
                 \/ Accepted(strand, generation)
                 \/ op = "upgrade" /\ g = generation /\ res = "ok"
           /\ g = generation => Fly(strand, ops, op, generation) >= 1
<1> DEFINE t == Task(op, g, res)
           x == Op(op, g)
<1>1. /\ strand \in Seq(Tasks) /\ IsABag(ops) /\ BagIn(x, ops)
      /\ ops' = BagRemove(ops, x) /\ strand' = Append(strand, t)
  BY DEF StrandOK, OpsOK, Completes
<1>2. x \in [op : OpNames, gen : 1 .. generation]
  BY <1>1 DEF OpsOK, BagIn, BagToSet
<1>3. g \in 1 .. generation
  BY <1>2 DEF Op
<1>4. /\ t \in Tasks /\ t.op = op /\ t.gen = g /\ t.arg = res /\ x = Op(t.op, t.gen)
      /\ TaskOK(t, generation)
      /\ t \notin Starts /\ t \notin Sends /\ t \notin Expired
  <2>1. t \in Tasks /\ t.op = op /\ t.gen = g /\ t.arg = res
    BY <1>3 DEF Tasks, Task
  <2>2. op \notin {"start", "retry", "send", "doClose"}
    BY DEF OpNames, Steps
  <2> HIDE DEF t
  <2> QED BY <1>3, <2>1, <2>2 DEF TaskOK, Starts, Sends, Expired
<1> HIDE DEF t
<1>5. OpsOK'
  <2>1. IsABag(ops') /\ DOMAIN ops' \subseteq DOMAIN ops
    BY <1>1, Removed
  <2> QED BY <2>1 DEF OpsOK
<1>6. \A o : Fly(strand', ops', o, generation) = Fly(strand, ops, o, generation)
  <2> HIDE DEF x
  <2> QED BY <1>1, <1>4, FlyCompletes
<1>7. /\ StrandOK'
      /\ Cardinality(Places(strand', Starts))
            = Cardinality(Places(strand, Starts)) + IF t \in Starts THEN 1 ELSE 0
      /\ Cardinality(Places(strand', Sends))
            = Cardinality(Places(strand, Sends)) + IF t \in Sends THEN 1 ELSE 0
      /\ Cardinality(Places(strand', Expired))
            = Cardinality(Places(strand, Expired)) + IF t \in Expired THEN 1 ELSE 0
      /\ NoneFailed(strand', generation) <=>
            /\ NoneFailed(strand, generation)
            /\ t.op = "write" /\ t.gen = generation => t.arg = "ok"
      /\ Accepted(strand', generation) <=>
            Accepted(strand, generation) \/ t = Task("upgrade", generation, "ok")
  BY <1>1, <1>4, TaskAdded
<1>8. t = Task("upgrade", generation, "ok") => op = "upgrade" /\ g = generation /\ res = "ok"
  BY <1>4 DEF Task
<1>9. g = generation => Fly(strand, ops, op, generation) >= 1
  BY <1>1, FlyIsInFlight
<1>10. \A P : Cardinality(Places(strand, P)) \in Nat
  BY Counted
<1> QED BY <1>4, <1>5, <1>6, <1>7, <1>8, <1>9, <1>10

\* max_attempts + 1 more for every handshake.
LEMMA OneMoreOpen ==
    \A n, m \in Nat : (n + 1) * (m + 1) = n * (m + 1) + m + 1 /\ n * (m + 1) \in Nat
  OBVIOUS

\* What the conjuncts of the invariant ask of the variables that steps outside the
\* handlers leave alone.
Still ==
    /\ request' = request /\ generation' = generation /\ write_queue' = write_queue
    /\ state' = state /\ failures' = failures /\ connected' = connected
    /\ timer' = timer /\ calls' = calls
    /\ stop_requested' = stop_requested /\ asked' = asked
    /\ requested_code' = requested_code
    /\ close_done' = close_done /\ read_done' = read_done

\* The invariant stays when a completion is queued.
LEMMA StreamKeeps ==
    ASSUME IInv, NEW op \in OpNames, NEW g, NEW res \in Args, Completes(op, g, res),
           Still, pending' = pending, closed' = closed, destroyer' = destroyer,
           handle' = handle, sender' = sender,
           link' \in {"none", "up", "down"}, link' = "up" => link = "up",
           op = "write" /\ g = generation /\ res # "ok" => link' # "up" \/ state # "open",
           \/ op = "upgrade" /\ g = generation /\ opens < MaxOpens /\ opens' = opens + 1
           \/ opens' = opens /\ ~(op = "upgrade" /\ g = generation /\ res = "ok")
    PROVE  IInv'
<1>0. generation' = generation /\ generation \in Nat /\ StrandOK /\ OpsOK
  BY DEF IInv, Types, Still
<1>1. /\ StrandOK' /\ OpsOK'
      /\ \A o : Fly(strand', ops', o, generation) = Fly(strand, ops, o, generation)
      /\ Cardinality(Places(strand', Starts)) = Cardinality(Places(strand, Starts))
      /\ Cardinality(Places(strand', Sends)) = Cardinality(Places(strand, Sends))
      /\ Cardinality(Places(strand', Expired)) = Cardinality(Places(strand, Expired))
      /\ NoneFailed(strand, generation) /\ (op = "write" /\ g = generation => res = "ok")
            => NoneFailed(strand', generation)
      /\ Accepted(strand', generation) =>
            \/ Accepted(strand, generation)
            \/ op = "upgrade" /\ g = generation /\ res = "ok"
      /\ g = generation => Fly(strand, ops, op, generation) >= 1
  BY <1>0, OpEnds
<1>2. /\ \A o : Fly(strand, ops, o, generation) \in Nat
      /\ \A P : Cardinality(Places(strand, P)) \in Nat
  BY <1>0, Counted
<1>3. Types'
  <2>1. opens' \in 0 .. MaxOpens
    BY ClientAssumption DEF IInv, Types
  <2> QED BY <2>1 DEF IInv, Types, Still
<1>4. Flags'
  BY Zenon DEF IInv, Flags, Still
<1>5. Flow'
  BY <1>0, <1>1 DEF IInv, Flow, Attempting, In, Count, Still
<1>6. Retrying'
  BY <1>0, <1>1 DEF IInv, Retrying, Count, Still
<1>7. Writing'
  BY <1>0, <1>1 DEF IInv, Writing, In, Still
<1>8. Pending' /\ Limits'
  <2>1. Inside' = Inside
    BY DEF Inside
  <2> QED BY <1>0, <1>1, <2>1 DEF IInv, Pending, Limits, Count, Still
<1>9. Bounded'
  <2>1. CASE opens' = opens /\ ~(op = "upgrade" /\ g = generation /\ res = "ok")
    BY <1>0, <1>1, <2>1 DEF IInv, Bounded, Still
  <2>2. CASE op = "upgrade" /\ g = generation /\ opens < MaxOpens /\ opens' = opens + 1
    <3>1. state = "connecting"
      <4>1. Fly(strand, ops, "upgrade", generation) >= 1
        BY <1>1, <2>2
      <4>2. Fly(strand, ops, "resolve", generation) + Fly(strand, ops, "connect", generation)
              + Fly(strand, ops, "tls", generation) + Fly(strand, ops, "upgrade", generation)
                 = Flag(state = "connecting")
        BY DEF IInv, Flow, Attempting, In
      <4> QED BY <1>2, <4>1, <4>2 DEF Flag
    <3>2. opens \in Nat /\ failures \in Nat /\ max_attempts \in Nat /\ generation \in Nat
      BY ClientAssumption DEF IInv, Types
    <3> DEFINE X == opens * (max_attempts + 1)
    <3>3. opens' * (max_attempts + 1) = X + max_attempts + 1 /\ X \in Nat
      BY <2>2, <3>2, OneMoreOpen
    <3>4. max_attempts > 0 => failures <= max_attempts /\ generation <= X + failures + 1
      BY <3>1 DEF IInv, Bounded, Flag
    <3> HIDE DEF X
    <3> QED BY <1>0, <3>1, <3>2, <3>3, <3>4 DEF Bounded, Flag, Still
  <2> QED BY <2>1, <2>2
<1>10. Callbacks'
  BY Zenon DEF IInv, Callbacks, Still
<1>11. Closing'
  BY DEF IInv, Closing, Still
<1> QED BY <1>1, <1>3, <1>4, <1>5, <1>6, <1>7, <1>8, <1>9, <1>10, <1>11 DEF IInv

\* A task of another kind is added: operations in flight stay the same.
LEMMA Posted ==
    ASSUME StrandOK, OpsOK, NEW t \in Tasks, TaskOK(t, generation),
           t.op \in {"retry", "send", "doClose"},
           strand' = Append(strand, t), ops' = ops, generation' = generation
    PROVE  /\ StrandOK' /\ OpsOK'
           /\ \A o \in OpNames :
                 Fly(strand', ops', o, generation) = Fly(strand, ops, o, generation)
           /\ Cardinality(Places(strand', Starts)) = Cardinality(Places(strand, Starts))
           /\ Cardinality(Places(strand', Sends))
                 = Cardinality(Places(strand, Sends)) + Flag(t.op = "send")
           /\ Cardinality(Places(strand', Expired))
                 = Cardinality(Places(strand, Expired)) + Flag(t.op = "retry" /\ t.arg = "ok")
           /\ NoneFailed(strand', generation) <=> NoneFailed(strand, generation)
           /\ Accepted(strand', generation) <=> Accepted(strand, generation)
<1>1. strand \in Seq(Tasks) /\ IsABag(ops) /\ OpsOK'
  BY DEF StrandOK, OpsOK
<1>2. \A o \in OpNames : o # t.op
  BY DEF OpNames, Steps
<1>3. \A o \in OpNames : Fly(strand', ops', o, generation) = Fly(strand, ops, o, generation)
  BY <1>1, <1>2, FlyPosts
<1>4. /\ StrandOK'
      /\ Cardinality(Places(strand', Starts))
            = Cardinality(Places(strand, Starts)) + IF t \in Starts THEN 1 ELSE 0
      /\ Cardinality(Places(strand', Sends))
            = Cardinality(Places(strand, Sends)) + IF t \in Sends THEN 1 ELSE 0
      /\ Cardinality(Places(strand', Expired))
            = Cardinality(Places(strand, Expired)) + IF t \in Expired THEN 1 ELSE 0
      /\ NoneFailed(strand', generation) <=>
            /\ NoneFailed(strand, generation)
            /\ t.op = "write" /\ t.gen = generation => t.arg = "ok"
      /\ Accepted(strand', generation) <=>
            Accepted(strand, generation) \/ t = Task("upgrade", generation, "ok")
  BY TaskAdded
<1>5. /\ t \notin Starts /\ (t \in Sends <=> t.op = "send")
      /\ t \in Expired <=> t.op = "retry" /\ t.arg = "ok"
      /\ t.op # "write" /\ t # Task("upgrade", generation, "ok")
  BY DEF Starts, Sends, Expired, Task
<1>6. \A P : Cardinality(Places(strand, P)) \in Nat
  BY Counted
<1> QED BY <1>1, <1>3, <1>4, <1>5, <1>6 DEF Flag

\* The invariant stays when the retry timer expires.
LEMMA TimerKeeps == IInv /\ TimerExpires => IInv'
<1> SUFFICES ASSUME IInv, TimerExpires PROVE IInv'
  OBVIOUS
<1> DEFINE t == Task("retry", generation, "ok")
<1>0. /\ generation \in Nat /\ StrandOK /\ OpsOK
      /\ timer = TRUE /\ timer' = FALSE /\ strand' = Append(strand, t)
  <2>1. timer = TRUE
    BY Zenon DEF IInv, Flags, TimerExpires
  <2> QED BY <2>1 DEF IInv, Types, TimerExpires
<1>1. /\ request' = request /\ generation' = generation /\ pending' = pending
      /\ write_queue' = write_queue /\ stop_requested' = stop_requested
      /\ asked' = asked /\ requested_code' = requested_code
      /\ close_done' = close_done /\ read_done' = read_done /\ state' = state
      /\ failures' = failures /\ connected' = connected /\ calls' = calls /\ ops' = ops
      /\ link' = link /\ opens' = opens /\ closed' = closed /\ destroyer' = destroyer
      /\ handle' = handle /\ sender' = sender
  BY Zenon DEF TimerExpires, queueVars, closeVars, streamVars, appVars
<1>2. /\ t \in Tasks /\ t.op = "retry" /\ t.arg = "ok" /\ TaskOK(t, generation)
  BY <1>0 DEF Task, Tasks, Args, TaskOK, OpNames, Steps
<1> HIDE DEF t
<1>3. /\ StrandOK' /\ OpsOK'
      /\ \A o \in OpNames :
            Fly(strand', ops', o, generation) = Fly(strand, ops, o, generation)
      /\ Cardinality(Places(strand', Starts)) = Cardinality(Places(strand, Starts))
      /\ Cardinality(Places(strand', Sends))
            = Cardinality(Places(strand, Sends)) + Flag(t.op = "send")
      /\ Cardinality(Places(strand', Expired))
            = Cardinality(Places(strand, Expired)) + Flag(t.op = "retry" /\ t.arg = "ok")
      /\ NoneFailed(strand', generation) <=> NoneFailed(strand, generation)
      /\ Accepted(strand', generation) <=> Accepted(strand, generation)
  BY <1>0, <1>1, <1>2, Posted
<1>4. /\ Cardinality(Places(strand', Sends)) = Cardinality(Places(strand, Sends))
      /\ Cardinality(Places(strand', Expired)) = Cardinality(Places(strand, Expired)) + 1
      /\ \A P : Cardinality(Places(strand, P)) \in Nat
  <2>1. \A P : Cardinality(Places(strand, P)) \in Nat
    BY <1>0, Counted
  <2> QED BY <1>2, <1>3, <2>1 DEF Flag
<1>5. Types' /\ Closing'
  BY <1>1 DEF IInv, Types, Closing
<1>6. Flags'
  BY <1>0, <1>1, Zenon DEF IInv, Flags
<1>7. Flow'
  BY <1>1, <1>3 DEF IInv, Flow, Attempting, In, Count, OpNames, Steps
<1>8. Retrying'
  BY <1>0, <1>1, <1>4 DEF IInv, Retrying, Count, Flag
<1>9. Writing'
  BY <1>1, <1>3 DEF IInv, Writing, In, OpNames
<1>10. Pending' /\ Limits'
  <2>1. Inside' = Inside
    BY <1>1 DEF Inside
  <2> QED BY <1>1, <1>4, <2>1 DEF IInv, Pending, Limits, Count
<1>11. Bounded'
  BY <1>1, <1>3 DEF IInv, Bounded
<1>12. Callbacks'
  BY <1>1, Zenon DEF IInv, Callbacks
<1> QED BY <1>3, <1>5, <1>6, <1>7, <1>8, <1>9, <1>10, <1>11, <1>12 DEF IInv

(***************************************************************************)
(* Other threads                                                           *)
(***************************************************************************)
\* The invariant stays when a thread takes a step that counts its messages right.
LEMMA ThreadKeeps ==
    ASSUME IInv, ThreadFrame, NEW q,
           \/ strand' = strand /\ q = 0
           \/ \E t \in Tasks : /\ TaskOK(t, generation) /\ t.op \in {"send", "doClose"}
                               /\ strand' = Append(strand, t) /\ q = Flag(t.op = "send"),
           pending' = pending + Cardinality(Inside') - Cardinality(Inside) + q,
           Cardinality(Inside) \in Nat, Cardinality(Inside') \in Nat, Limits',
           closed' \in BOOLEAN, handle' \in BOOLEAN,
           destroyer' \in {"none", "holding", "joining", "done"},
           sender' \in [Senders ->
               [at : {"idle", "checked", "reserved", "loaded"}, gen : 0 .. generation]]
    PROVE  IInv'
<1>0. generation \in Nat /\ StrandOK /\ OpsOK
  BY DEF IInv, Types
<1>1. /\ request' = request /\ generation' = generation
      /\ write_queue' = write_queue /\ stop_requested' = stop_requested
      /\ asked' = asked /\ requested_code' = requested_code
      /\ close_done' = close_done /\ read_done' = read_done /\ state' = state
      /\ failures' = failures /\ connected' = connected /\ calls' = calls /\ ops' = ops
      /\ link' = link /\ opens' = opens /\ timer' = timer
  BY Zenon DEF ThreadFrame, lifeVars, closeVars, streamVars
<1>2. \A P : Cardinality(Places(strand, P)) \in Nat
  BY <1>0, Counted
<1>3. /\ StrandOK' /\ OpsOK'
      /\ \A o \in OpNames :
            Fly(strand', ops', o, generation) = Fly(strand, ops, o, generation)
      /\ Cardinality(Places(strand', Starts)) = Cardinality(Places(strand, Starts))
      /\ Cardinality(Places(strand', Sends)) = Cardinality(Places(strand, Sends)) + q
      /\ Cardinality(Places(strand', Expired)) = Cardinality(Places(strand, Expired))
      /\ NoneFailed(strand', generation) <=> NoneFailed(strand, generation)
      /\ Accepted(strand', generation) <=> Accepted(strand, generation)
      /\ q \in Nat
  <2>1. CASE strand' = strand /\ q = 0
    <3>1. StrandOK' /\ OpsOK'
      BY <1>0, <1>1, <2>1 DEF StrandOK, OpsOK
    <3> QED BY <1>1, <1>2, <2>1, <3>1
  <2>2. CASE \E t \in Tasks : /\ TaskOK(t, generation) /\ t.op \in {"send", "doClose"}
                              /\ strand' = Append(strand, t) /\ q = Flag(t.op = "send")
    <3>1. PICK t \in Tasks : /\ TaskOK(t, generation) /\ t.op \in {"send", "doClose"}
                             /\ strand' = Append(strand, t) /\ q = Flag(t.op = "send")
      BY <2>2
    <3>2. /\ StrandOK' /\ OpsOK'
          /\ \A o \in OpNames :
                Fly(strand', ops', o, generation) = Fly(strand, ops, o, generation)
          /\ Cardinality(Places(strand', Starts)) = Cardinality(Places(strand, Starts))
          /\ Cardinality(Places(strand', Sends))
                = Cardinality(Places(strand, Sends)) + Flag(t.op = "send")
          /\ Cardinality(Places(strand', Expired))
                = Cardinality(Places(strand, Expired)) + Flag(t.op = "retry" /\ t.arg = "ok")
          /\ NoneFailed(strand', generation) <=> NoneFailed(strand, generation)
          /\ Accepted(strand', generation) <=> Accepted(strand, generation)
      BY <1>0, <1>1, <3>1, Posted
    <3>3. Flag(t.op = "retry" /\ t.arg = "ok") = 0 /\ q \in Nat
      BY <3>1 DEF Flag
    <3> QED BY <1>2, <3>1, <3>2, <3>3
  <2> QED BY <2>1, <2>2
<1>4. Pending'
  <2>1. /\ pending = Cardinality(Inside) + Cardinality(Places(strand, Sends)) + Len(write_queue)
        /\ Len(write_queue) \in Nat /\ pending \in Nat
    BY DEF IInv, Pending, Count, Types
  <2>2. pending' = Cardinality(Inside') + Cardinality(Places(strand', Sends)) + Len(write_queue)
    BY <1>2, <1>3, <2>1, SMTT(30)
  <2> QED BY <1>1, <2>2 DEF Pending, Count
<1>5. Types' /\ Closing'
  <2>1. pending' \in Nat
    <3>1. pending \in Nat /\ pending >= Cardinality(Inside)
      BY <1>2 DEF IInv, Types, Pending, Count
    <3> QED BY <1>3, <3>1
  <2> QED BY <1>1, <2>1 DEF IInv, Types, Closing
<1>6. Flags'
  BY <1>1, Zenon DEF IInv, Flags
<1>7. Flow'
  BY <1>1, <1>3 DEF IInv, Flow, Attempting, In, Count, OpNames, Steps
<1>8. Retrying'
  BY <1>1, <1>3 DEF IInv, Retrying, Count
<1>9. Writing'
  BY <1>1, <1>3 DEF IInv, Writing, In, OpNames
<1>10. Bounded'
  BY <1>1, <1>3 DEF IInv, Bounded
<1>11. Callbacks'
  BY <1>1, Zenon DEF IInv, Callbacks
<1> QED BY <1>3, <1>4, <1>5, <1>6, <1>7, <1>8, <1>9, <1>10, <1>11 DEF IInv

\* Threads inside send() that did not reserve a place yet, or did.
LEMMA InsideFinite ==
    \A S : S \subseteq Senders => IsFiniteSet(S) /\ Cardinality(S) \in Nat
<1>1. IsFiniteSet(Senders)
  BY ClientAssumption
<1> QED BY <1>1, FS_Subset, FS_CardinalityType

LEMMA ThreadsKeep ==
    ASSUME IInv,
           \/ AppClose \/ DropHandle
           \/ \E t \in Senders : SendCheck(t) \/ Sending(t)
           \/ Destroy \/ DestroyCloses \/ DestroyJoins
    PROVE  IInv'
<1> DEFINE C == Cardinality(Inside)
           Typed(s) == s \in [Senders ->
               [at : {"idle", "checked", "reserved", "loaded"}, gen : 0 .. generation]]
<1>1. /\ Typed(sender) /\ generation \in Nat /\ pending \in Nat
      /\ destroyer \in {"none", "holding", "joining", "done"}
  BY DEF IInv, Types
<1>2. closed \in BOOLEAN /\ handle \in BOOLEAN
  BY DEF IInv, Flags
<1>3. C \in Nat /\ Inside \subseteq Senders /\ IsFiniteSet(Inside)
  <2>1. Inside \subseteq Senders
    BY DEF Inside
  <2> QED BY <2>1, InsideFinite
<1>4. Limits
  BY DEF IInv
<1>5. sender' = sender => Inside' = Inside
  BY DEF Inside
<1>6. ASSUME NEW code \in {"normal", "going_away"}, PostClose(code)
      PROVE  \E t \in Tasks : /\ TaskOK(t, generation) /\ t.op \in {"send", "doClose"}
                              /\ strand' = Append(strand, t) /\ 0 = Flag(t.op = "send")
  <2> DEFINE t == Task("doClose", 0, code)
  <2>1. t \in Tasks /\ t.op = "doClose" /\ t.gen = 0 /\ t.arg = code
    BY DEF Task, Tasks, Args
  <2>2. strand' = Append(strand, t)
    BY <1>6 DEF PostClose
  <2> HIDE DEF t
  <2>3. TaskOK(t, generation)
    BY <1>1, <2>1 DEF TaskOK, OpNames, Steps
  <2> QED BY <2>1, <2>2, <2>3 DEF Flag
<1>7. CASE AppClose \/ DropHandle \/ DestroyCloses
  <2>1. /\ pending' = pending /\ sender' = sender /\ ThreadFrame
        /\ PostClose("normal") \/ PostClose("going_away")
        /\ closed' = closed /\ (handle' = handle \/ handle' = FALSE)
        /\ destroyer' = destroyer \/ destroyer' = "joining"
    BY <1>7, Zenon DEF AppClose, DropHandle, DestroyCloses
  <2>2. \E t \in Tasks : /\ TaskOK(t, generation) /\ t.op \in {"send", "doClose"}
                         /\ strand' = Append(strand, t) /\ 0 = Flag(t.op = "send")
    BY <1>6, <2>1
  <2>3. Inside' = Inside /\ pending' = pending + Cardinality(Inside') - C + 0 /\ Limits'
    BY <1>1, <1>3, <1>4, <1>5, <2>1 DEF Limits
  <2>4. handle' \in BOOLEAN /\ closed' \in BOOLEAN
    BY <1>2, <2>1, Zenon
  <2>5. destroyer' \in {"none", "holding", "joining", "done"} /\ Typed(sender')
    BY <1>1, <2>1
  <2> QED BY <1>3, <2>1, <2>2, <2>3, <2>4, <2>5, ThreadKeeps
<1>8. CASE Destroy \/ DestroyJoins
  <2>1. /\ pending' = pending /\ sender' = sender /\ ThreadFrame /\ strand' = strand
        /\ closed' = closed \/ closed' = TRUE
        /\ handle' = handle
        /\ destroyer' \in {"none", "holding", "joining", "done"}
    BY <1>8, Zenon DEF Destroy, DestroyJoins
  <2>2. Inside' = Inside /\ pending' = pending + Cardinality(Inside') - C + 0 /\ Limits'
    BY <1>1, <1>3, <1>4, <1>5, <2>1 DEF Limits
  <2>3. handle' \in BOOLEAN /\ closed' \in BOOLEAN
    BY <1>2, <2>1, Zenon
  <2>4. Typed(sender')
    BY <1>1, <2>1
  <2> QED BY <1>3, <2>1, <2>2, <2>3, <2>4, ThreadKeeps
<1>9. ASSUME NEW t \in Senders, SendCheck(t) \/ Sending(t) PROVE IInv'
  <2>1. /\ closed' = closed /\ handle' = handle /\ destroyer' = destroyer /\ ThreadFrame
    BY <1>9, Zenon DEF SendCheck, Sending, SendReserve, SendLoad, SendPost
  <2>2. closed' \in BOOLEAN /\ handle' \in BOOLEAN
        /\ destroyer' \in {"none", "holding", "joining", "done"}
    BY <1>1, <1>2, <2>1, Zenon
  <2>3. IsFiniteSet(Inside') /\ Cardinality(Inside') \in Nat
    <3>1. Inside' \subseteq Senders
      BY DEF Inside
    <3> QED BY <3>1, InsideFinite
  <2>4. \A x \in Senders : sender[x].at \in {"idle", "checked", "reserved", "loaded"}
                           /\ sender[x].gen \in 0 .. generation
    BY <1>1
  <2>5. CASE SendCheck(t)
    <3>1. /\ sender[t].at = "idle" /\ sender' = [sender EXCEPT ![t].at = "checked"]
          /\ pending' = pending /\ strand' = strand
      BY <2>5, Zenon DEF SendCheck
    <3>2. Inside' = Inside
      BY <1>1, <3>1 DEF Inside
    <3>3. Typed(sender')
      BY <1>1, <2>4, <3>1
    <3>4. pending' = pending + Cardinality(Inside') - C + 0 /\ Limits'
      BY <1>1, <1>3, <1>4, <3>1, <3>2 DEF Limits
    <3> QED BY <1>3, <2>1, <2>2, <2>3, <3>1, <3>3, <3>4, ThreadKeeps
  <2>6. CASE SendReserve(t)
    <3>1. /\ sender[t].at = "checked" /\ strand' = strand
          /\ \/ sender' = [sender EXCEPT ![t].at = "idle"] /\ pending' = pending
             \/ /\ sender' = [sender EXCEPT ![t].at = "reserved"]
                /\ pending' = pending + 1 /\ ~(pending >= send_queue_limit)
      BY <2>6, Zenon DEF SendReserve
    <3>2. Typed(sender')
      BY <1>1, <2>4, <3>1
    <3>3. CASE sender' = [sender EXCEPT ![t].at = "idle"] /\ pending' = pending
      <4>1. Inside' = Inside
        BY <1>1, <3>1, <3>3 DEF Inside
      <4>2. pending' = pending + Cardinality(Inside') - C + 0 /\ Limits'
        BY <1>1, <1>3, <1>4, <3>3, <4>1 DEF Limits
      <4> QED BY <1>3, <2>1, <2>2, <2>3, <3>1, <3>2, <4>2, ThreadKeeps
    <3>4. CASE /\ sender' = [sender EXCEPT ![t].at = "reserved"]
               /\ pending' = pending + 1 /\ ~(pending >= send_queue_limit)
      <4>1. Inside' = Inside \cup {t} /\ t \notin Inside
        BY <1>1, <3>1, <3>4 DEF Inside
      <4>2. Cardinality(Inside') = C + 1
        BY <1>3, <4>1, FS_AddElement
      <4>3. send_queue_limit \in Nat
        BY ClientAssumption
      <4>4. pending' = pending + Cardinality(Inside') - C + 0 /\ Limits'
        BY <1>1, <1>3, <3>4, <4>2, <4>3 DEF Limits
      <4> QED BY <1>3, <2>1, <2>2, <2>3, <3>1, <3>2, <4>4, ThreadKeeps
    <3> QED BY <3>1, <3>3, <3>4
  <2>7. CASE SendLoad(t)
    <3>1. /\ sender[t].at = "reserved"
          /\ sender' = [sender EXCEPT ![t] = [at |-> "loaded", gen |-> generation]]
          /\ pending' = pending /\ strand' = strand
      BY <2>7, Zenon DEF SendLoad
    <3>2. Inside' = Inside
      BY <1>1, <3>1 DEF Inside
    <3>3. Typed(sender')
      BY <1>1, <3>1
    <3>4. pending' = pending + Cardinality(Inside') - C + 0 /\ Limits'
      BY <1>1, <1>3, <1>4, <3>1, <3>2 DEF Limits
    <3> QED BY <1>3, <2>1, <2>2, <2>3, <3>1, <3>3, <3>4, ThreadKeeps
  <2>8. CASE SendPost(t)
    <3> DEFINE x == Task("send", sender[t].gen, "none")
    <3>1. /\ sender[t].at = "loaded" /\ strand' = Append(strand, x)
          /\ sender' = [sender EXCEPT ![t] = [at |-> "idle", gen |-> 0]]
          /\ pending' = pending
      BY <2>8, Zenon DEF SendPost
    <3>2. x \in Tasks /\ x.op = "send" /\ x.gen <= generation
      BY <1>1, <2>4 DEF Task, Tasks, Args
    <3> HIDE DEF x
    <3>3. TaskOK(x, generation) /\ Flag(x.op = "send") = 1
      BY <3>2 DEF TaskOK, OpNames, Steps, Flag
    <3>4. Inside' = Inside \ {t} /\ t \in Inside
      BY <1>1, <3>1 DEF Inside
    <3>5. Cardinality(Inside') = C - 1
      BY <1>3, <3>4, FS_RemoveElement
    <3>6. Typed(sender')
      BY <1>1, <3>1
    <3>7. pending' = pending + Cardinality(Inside') - C + 1 /\ Limits'
      BY <1>1, <1>3, <1>4, <3>1, <3>5 DEF Limits
    <3>8. \E y \in Tasks : /\ TaskOK(y, generation) /\ y.op \in {"send", "doClose"}
                           /\ strand' = Append(strand, y) /\ 1 = Flag(y.op = "send")
      BY <3>1, <3>2, <3>3
    <3> QED BY <1>3, <2>1, <2>2, <2>3, <3>6, <3>7, <3>8, ThreadKeeps
  <2> QED BY <1>9, <2>5, <2>6, <2>7, <2>8 DEF Sending
<1> QED BY <1>7, <1>8, <1>9

(***************************************************************************)
(* Handlers                                                                *)
(***************************************************************************)
\* A task leaves the strand.
LEMMA TaskTaken ==
    ASSUME StrandOK, OpsOK, strand # <<>>
    PROVE  LET t == Head(strand)
               q == Tail(strand)
           IN  /\ t \in Tasks /\ TaskOK(t, generation)
               /\ q \in Seq(Tasks) /\ \A i \in 1 .. Len(q) : TaskOK(q[i], generation)
               /\ \A o : /\ Fly(strand, ops, o, generation)
                                = Fly(q, ops, o, generation)
                                  + Flag(t.op = o /\ t.gen = generation)
                         /\ Fly(q, ops, o, generation) \in Nat
               /\ Cardinality(Places(strand, Starts))
                     = Cardinality(Places(q, Starts)) + Flag(t.op = "start")
               /\ Cardinality(Places(strand, Sends))
                     = Cardinality(Places(q, Sends)) + Flag(t.op = "send")
               /\ Cardinality(Places(strand, Expired))
                     = Cardinality(Places(q, Expired)) + Flag(t.op = "retry" /\ t.arg = "ok")
               /\ \A P : Cardinality(Places(q, P)) \in Nat
               /\ NoneFailed(strand, generation) =>
                     /\ NoneFailed(q, generation)
                     /\ t.op = "write" /\ t.gen = generation => t.arg = "ok"
               /\ Accepted(q, generation) => Accepted(strand, generation)
               /\ t = Task("upgrade", generation, "ok") => Accepted(strand, generation)
<1> DEFINE t == Head(strand)
           q == Tail(strand)
<1>1. /\ strand \in Seq(Tasks) /\ \A i \in 1 .. Len(strand) : TaskOK(strand[i], generation)
      /\ IsABag(ops)
  BY DEF StrandOK, OpsOK
<1>2. /\ q \in Seq(Tasks) /\ t = strand[1] /\ t \in Tasks
      /\ Len(strand) \in Nat /\ Len(strand) >= 1 /\ Len(q) = Len(strand) - 1
      /\ \A i \in 1 .. Len(q) : q[i] = strand[i + 1]
  BY <1>1
<1>3. /\ \A i \in 1 .. Len(q) : i + 1 \in 1 .. Len(strand)
      /\ 1 \in 1 .. Len(strand)
  BY <1>2
<1>4. \A o : /\ Fly(strand, ops, o, generation)
                    = Fly(q, ops, o, generation) + Flag(t.op = o /\ t.gen = generation)
             /\ Fly(q, ops, o, generation) \in Nat
  <2>1. ASSUME NEW o PROVE Fly(q, ops, o, generation) \in Nat
    BY <1>1, <1>2, FlyIsInFlight
  <2>2. ASSUME NEW o
        PROVE  Fly(strand, ops, o, generation)
                   = Fly(q, ops, o, generation) + Flag(t.op = o /\ t.gen = generation)
    BY <1>1, FlyRuns DEF Flag
  <2> QED BY <2>1, <2>2
<1>5. \A P : Cardinality(Places(strand, P))
                = Cardinality(Places(q, P)) + IF t \in P THEN 1 ELSE 0
  BY <1>1, PlacesTail
<1>6. \A P : Cardinality(Places(q, P)) \in Nat
  BY <1>2, PlacesFinite
<1>7. /\ t \in Starts <=> t.op = "start"
      /\ t \in Sends <=> t.op = "send"
      /\ t \in Expired <=> t.op = "retry" /\ t.arg = "ok"
  BY <1>2 DEF Starts, Sends, Expired
<1>8. NoneFailed(strand, generation) =>
          /\ NoneFailed(q, generation)
          /\ t.op = "write" /\ t.gen = generation => t.arg = "ok"
  BY <1>2, <1>3 DEF NoneFailed
<1>9. /\ Accepted(q, generation) => Accepted(strand, generation)
      /\ t = Task("upgrade", generation, "ok") => Accepted(strand, generation)
  BY <1>2, <1>3 DEF Accepted
<1>10. TaskOK(t, generation) /\ \A i \in 1 .. Len(q) : TaskOK(q[i], generation)
  BY <1>1, <1>2, <1>3
<1> HIDE DEF t, q
<1> QED BY <1>2, <1>4, <1>5, <1>6, <1>7, <1>8, <1>9, <1>10 DEF Flag, t, q

\* A handler starts an operation of this attempt.
LEMMA Started ==
    ASSUME generation \in Nat, generation > 0, NEW B, IsABag(B),
           \A o \in DOMAIN B : o \in [op : OpNames, gen : 1 .. generation],
           NEW x \in OpNames, NEW q \in Seq(Tasks)
    PROVE  LET C == BagAdd(B, Op(x, generation))
           IN  /\ IsABag(C)
               /\ \A o \in DOMAIN C : o \in [op : OpNames, gen : 1 .. generation]
               /\ \A o : Fly(q, C, o, generation) = Fly(q, B, o, generation) + Flag(o = x)
<1> DEFINE y == Op(x, generation)
           C == BagAdd(B, y)
<1>1. y \in [op : OpNames, gen : 1 .. generation]
  BY DEF Op
<1>2. \A o : y = Op(o, generation) <=> o = x
  BY DEF Op
<1> HIDE DEF y
<1>3. IsABag(C) /\ DOMAIN C = DOMAIN B \cup {y}
  BY Added
<1>4. \A o : Fly(q, C, o, generation)
                = Fly(q, B, o, generation) + Flag(y = Op(o, generation))
  BY FlyStarts DEF Flag
<1> HIDE DEF C
<1>5. \A o : Fly(q, C, o, generation) = Fly(q, B, o, generation) + Flag(o = x)
  BY <1>2, <1>4 DEF Flag
<1> QED BY <1>1, <1>3, <1>5 DEF C, y

\* What a handler does that leaves the life of the connection alone.
LEMMA QuietRest ==
    ASSUME IInv, strand # <<>>, strand' = Tail(strand),
           request' = request, generation' = generation, state' = state,
           failures' = failures, connected' = connected, timer' = timer,
           opens' = opens, closed' = closed, destroyer' = destroyer, handle' = handle,
           sender' = sender,
           \/ calls' = calls
           \/ state \in {"open", "closing"} /\ calls' = Append(calls, Call("message")),
           ~(state = "waiting" /\ Head(strand).op = "retry" /\ Head(strand).arg = "ok"),
           stop_requested' \in BOOLEAN, close_done' \in BOOLEAN, read_done' \in BOOLEAN,
           asked' \in Codes, asked' = asked \/ stop_requested' = TRUE,
           stop_requested = TRUE => stop_requested' = TRUE,
           requested_code' \in Codes,
           link' \in {"none", "up", "down"}, pending' \in Nat, write_queue' \in Seq(Nat)
    PROVE  /\ StrandOK' /\ Types' /\ Flags' /\ Retrying' /\ Bounded' /\ Callbacks'
           /\ Closing'
<1>1. StrandOK /\ OpsOK
  BY DEF IInv
<1> DEFINE t == Head(strand)
           q == Tail(strand)
<1>2. /\ q \in Seq(Tasks) /\ \A i \in 1 .. Len(q) : TaskOK(q[i], generation)
      /\ Cardinality(Places(strand, Expired))
            = Cardinality(Places(q, Expired)) + Flag(t.op = "retry" /\ t.arg = "ok")
      /\ \A P : Cardinality(Places(q, P)) \in Nat
      /\ Accepted(q, generation) => Accepted(strand, generation)
  BY <1>1, TaskTaken
<1>3. StrandOK'
  BY <1>2 DEF StrandOK
<1>4. Callbacks' /\ calls' \in Seq(Events)
  <2>1. CASE calls' = calls
    <3>1. Callbacks'
      BY <2>1, Zenon DEF IInv, Callbacks
    <3> QED BY <2>1, <3>1 DEF IInv, Types
  <2>2. CASE state \in {"open", "closing"} /\ calls' = Append(calls, Call("message"))
    <3>1. Going(calls, failures) /\ IsUp(calls)
      BY <2>2 DEF IInv, Callbacks
    <3>2. Call("message") \in Events /\ Call("message").event = "message"
      BY DEF Call, Events
    <3>3. Going(calls', failures) /\ IsUp(calls')
      BY <2>2, <3>1, <3>2, PlainCall
    <3>4. connected = TRUE
      BY <2>2 DEF IInv, Callbacks
    <3>5. calls' \in Seq(Events) /\ Ordered(calls')
      BY <3>3 DEF Going
    <3>6. Callbacks'
      BY <2>2, <3>3, <3>4, <3>5 DEF Callbacks
    <3> QED BY <3>5, <3>6
  <2> QED BY <2>1, <2>2
<1>5. Types'
  BY <1>4 DEF IInv, Types
<1>6. Flags'
  BY Zenon DEF IInv, Flags
<1>7. Retrying'
  <2>1. timer' = TRUE <=> timer = TRUE
    OBVIOUS
  <2> HIDE DEF t, q
  <2>2. state # "stopped" => Flag(t.op = "retry" /\ t.arg = "ok") = 0
    <3>1. ~(state = "waiting" /\ t.op = "retry" /\ t.arg = "ok")
      BY DEF t
    <3>2. Flag(t.op = "retry" /\ t.arg = "ok") \in {0, 1}
      BY DEF Flag
    <3>3. state \notin {"waiting", "stopped"} => Cardinality(Places(strand, Expired)) = 0
      BY DEF IInv, Retrying, Count
    <3> QED BY <1>2, <3>1, <3>2, <3>3 DEF Flag
  <2>3. strand' = q
    BY DEF q
  <2>4. state # "stopped" =>
            Cardinality(Places(strand', Expired)) = Cardinality(Places(strand, Expired))
    <3>1. Cardinality(Places(q, Expired)) \in Nat
      BY <1>2
    <3>2. Cardinality(Places(strand, Expired))
             = Cardinality(Places(q, Expired)) + Flag(t.op = "retry" /\ t.arg = "ok")
      BY <1>2
    <3> HIDE DEF Flag
    <3>3. state # "stopped" =>
              Cardinality(Places(q, Expired)) = Cardinality(Places(strand, Expired))
      BY <2>2, <3>1, <3>2
    <3> QED BY <2>3, <3>3
  <2> QED BY <2>1, <2>4 DEF IInv, Retrying, Count
<1>8. Bounded'
  BY <1>2 DEF IInv, Bounded
<1>9. Closing'
  BY DEF IInv, Closing
<1> QED BY <1>3, <1>4, <1>5, <1>6, <1>7, <1>8, <1>9

\* A handler that starts one operation or none: what is in flight.
LEMMA HandlerOps ==
    ASSUME StrandOK, OpsOK, generation \in Nat, strand # <<>>, strand' = Tail(strand),
           generation' = generation, NEW x,
           \/ x = "none" /\ ops' = ops
           \/ x \in OpNames /\ generation > 0 /\ ops' = BagAdd(ops, Op(x, generation))
    PROVE  /\ StrandOK' /\ OpsOK'
           /\ \A o \in OpNames :
                 /\ Fly(strand', ops', o, generation) \in Nat
                 /\ Fly(strand, ops, o, generation) + Flag(o = x)
                       = Fly(strand', ops', o, generation)
                         + Flag(Head(strand).op = o /\ Head(strand).gen = generation)
           /\ Cardinality(Places(strand, Starts))
                 = Cardinality(Places(strand', Starts)) + Flag(Head(strand).op = "start")
           /\ Cardinality(Places(strand, Sends))
                 = Cardinality(Places(strand', Sends)) + Flag(Head(strand).op = "send")
           /\ Cardinality(Places(strand', Starts)) \in Nat
           /\ Cardinality(Places(strand', Sends)) \in Nat
           /\ NoneFailed(strand, generation) =>
                 /\ NoneFailed(strand', generation)
                 /\ Head(strand).op = "write" /\ Head(strand).gen = generation
                       => Head(strand).arg = "ok"
<1> DEFINE t == Head(strand)
           q == Tail(strand)
<1>1. /\ q \in Seq(Tasks) /\ \A i \in 1 .. Len(q) : TaskOK(q[i], generation)
      /\ \A o : /\ Fly(strand, ops, o, generation)
                       = Fly(q, ops, o, generation) + Flag(t.op = o /\ t.gen = generation)
                /\ Fly(q, ops, o, generation) \in Nat
      /\ Cardinality(Places(strand, Starts))
            = Cardinality(Places(q, Starts)) + Flag(t.op = "start")
      /\ Cardinality(Places(strand, Sends))
            = Cardinality(Places(q, Sends)) + Flag(t.op = "send")
      /\ \A P : Cardinality(Places(q, P)) \in Nat
      /\ NoneFailed(strand, generation) =>
            /\ NoneFailed(q, generation)
            /\ t.op = "write" /\ t.gen = generation => t.arg = "ok"
  BY TaskTaken
<1>2. IsABag(ops) /\ \A o \in DOMAIN ops : o \in [op : OpNames, gen : 1 .. generation]
  BY DEF OpsOK
<1>3. OpsOK' /\ \A o \in OpNames :
                   Fly(q, ops', o, generation) = Fly(q, ops, o, generation) + Flag(o = x)
  <2>1. CASE x = "none" /\ ops' = ops
    <3>1. \A o \in OpNames : Flag(o = x) = 0
      BY <2>1 DEF OpNames, Steps, Flag
    <3>2. \A o \in OpNames :
              Fly(q, ops', o, generation) = Fly(q, ops, o, generation) + Flag(o = x)
      BY <1>1, <2>1, <3>1
    <3>3. OpsOK'
      BY <2>1 DEF OpsOK
    <3> QED BY <3>2, <3>3
  <2>2. CASE x \in OpNames /\ generation > 0 /\ ops' = BagAdd(ops, Op(x, generation))
    <3> HIDE DEF q
    <3>1. /\ IsABag(ops')
          /\ \A o \in DOMAIN ops' : o \in [op : OpNames, gen : 1 .. generation]
          /\ \A o : Fly(q, ops', o, generation) = Fly(q, ops, o, generation) + Flag(o = x)
      BY <1>1, <1>2, <2>2, Started DEF Flag
    <3>2. OpsOK'
      BY <3>1 DEF OpsOK
    <3> QED BY <3>1, <3>2
  <2> QED BY <2>1, <2>2
<1>4. StrandOK'
  BY <1>1 DEF StrandOK
<1>5. \A o : Flag(o = x) \in Nat /\ Flag(t.op = o /\ t.gen = generation) \in Nat
  BY DEF Flag
<1> HIDE DEF t
<1>6. strand' = q
  OBVIOUS
<1> HIDE DEF q
<1>7. ASSUME NEW o \in OpNames
      PROVE  /\ Fly(strand', ops', o, generation) \in Nat
             /\ Fly(strand, ops, o, generation) + Flag(o = x)
                   = Fly(strand', ops', o, generation) + Flag(t.op = o /\ t.gen = generation)
  <2>1. /\ Fly(strand, ops, o, generation)
              = Fly(q, ops, o, generation) + Flag(t.op = o /\ t.gen = generation)
        /\ Fly(q, ops, o, generation) \in Nat
    BY <1>1 DEF Flag
  <2>2. Fly(strand', ops', o, generation) = Fly(q, ops, o, generation) + Flag(o = x)
    BY <1>3, <1>6 DEF Flag
  <2>3. Flag(o = x) \in Nat /\ Flag(t.op = o /\ t.gen = generation) \in Nat
    BY DEF Flag
  <2> HIDE DEF Flag
  <2> QED BY <2>1, <2>2, <2>3
<1> QED BY <1>1, <1>3, <1>4, <1>6, <1>7 DEF t, q, Flag

\* What every handler leaves alone.
LEMMA RunsFacts ==
    ASSUME IInv, NEW op, Runs(op)
    PROVE  /\ strand # <<>> /\ strand' = Tail(strand)
           /\ request' = request /\ closed' = closed /\ destroyer' = destroyer
           /\ handle' = handle /\ sender' = sender /\ Inside' = Inside
           /\ Head(strand) \in Tasks /\ TaskOK(Head(strand), generation)
           /\ Head(strand).op = op /\ generation \in Nat
           /\ op \in OpNames => generation > 0
<1>1. /\ strand # <<>> /\ strand' = Tail(strand) /\ Head(strand).op = op
      /\ request' = request /\ closed' = closed /\ destroyer' = destroyer
      /\ handle' = handle /\ sender' = sender
  BY Zenon DEF Runs, Running, appVars
<1>2. Inside' = Inside
  BY <1>1 DEF Inside
<1>3. Head(strand) \in Tasks /\ TaskOK(Head(strand), generation)
  BY <1>1, TaskTaken DEF IInv
<1>4. generation \in Nat
  BY DEF IInv, Types
<1> HIDE DEF TaskOK
<1>5. op \in OpNames => generation > 0
  BY <1>1, <1>3, <1>4 DEF TaskOK, Tasks
<1> QED BY <1>1, <1>2, <1>3, <1>4, <1>5

\* A completion of this attempt comes in the state that waits for it.
LEMMA CompletedFacts ==
    ASSUME IInv, NEW op \in OpNames, Completed(op)
    PROVE  /\ Runs(op) /\ Head(strand).gen = generation
           /\ state \notin {"stopped", "idle"}
           /\ Fly(strand, ops, op, generation) >= 1
           /\ op \in Steps => state = "connecting"
           /\ op = "read" => \/ state = "open"
                             \/ state = "closing" /\ read_done = FALSE
           /\ op = "close" => state = "closing" /\ close_done = FALSE
<1>1. Runs(op) /\ Head(strand).gen = generation /\ state # "stopped"
  BY DEF Completed, stale, Gen
<1>2. Head(strand).op = op /\ strand # <<>> /\ generation \in Nat
  BY <1>1, RunsFacts
<1>3. /\ Fly(strand, ops, op, generation)
            = Fly(Tail(strand), ops, op, generation)
              + Flag(Head(strand).op = op /\ Head(strand).gen = generation)
      /\ Fly(Tail(strand), ops, op, generation) \in Nat
  BY <1>2, TaskTaken DEF IInv, Flag
<1>4. Fly(strand, ops, op, generation) >= 1
  <2>1. Flag(Head(strand).op = op /\ Head(strand).gen = generation) = 1
    BY <1>1, <1>2 DEF Flag
  <2> HIDE DEF Flag
  <2> QED BY <1>3, <2>1
<1>5. \A o : Fly(strand, ops, o, generation) \in Nat
  BY Counted DEF IInv
<1>6. op \in Steps => state = "connecting"
  <2>1. Fly(strand, ops, "resolve", generation) + Fly(strand, ops, "connect", generation)
          + Fly(strand, ops, "tls", generation) + Fly(strand, ops, "upgrade", generation)
             = Flag(state = "connecting")
    BY DEF IInv, Flow, Attempting, In
  <2>2. Flag(state = "connecting") = IF state = "connecting" THEN 1 ELSE 0
    BY DEF Flag
  <2> QED BY <1>4, <1>5, <2>1, <2>2 DEF Steps
<1>7. op = "read" => state = "open" \/ (state = "closing" /\ read_done = FALSE)
  <2>1. Fly(strand, ops, "read", generation)
           = Flag(state = "open" \/ (state = "closing" /\ read_done = FALSE))
    BY DEF IInv, Flow, Attempting, In
  <2> QED BY <1>4, <2>1 DEF Flag
<1>8. op = "close" => state = "closing" /\ close_done = FALSE
  <2>1. /\ state = "closing" => Fly(strand, ops, "close", generation) = Flag(close_done = FALSE)
        /\ state \notin {"closing", "stopped"} => Fly(strand, ops, "close", generation) = 0
    BY DEF IInv, Flow, Attempting, In
  <2> QED BY <1>1, <1>4, <2>1 DEF Flag
<1>9. state # "idle"
  <2>1. CASE op = "write"
    BY <1>4, <2>1 DEF IInv, Writing, In
  <2> QED BY <1>6, <1>7, <1>8, <2>1 DEF OpNames
<1> QED BY <1>1, <1>4, <1>6, <1>7, <1>8, <1>9

\* A sum over the steps of an attempt
Sum(f) == f["resolve"] + f["connect"] + f["tls"] + f["upgrade"]

LEMMA SumsMove ==
    ASSUME NEW p \in [Steps -> Nat], NEW q \in [Steps -> Nat], NEW d \in [Steps -> Int],
           \A o \in Steps : p[o] = q[o] + d[o]
    PROVE  Sum(p) = Sum(q) + Sum(d) /\ Sum(p) \in Nat /\ Sum(q) \in Nat
<1>1. /\ p["resolve"] = q["resolve"] + d["resolve"]
      /\ p["connect"] = q["connect"] + d["connect"]
      /\ p["tls"] = q["tls"] + d["tls"]
      /\ p["upgrade"] = q["upgrade"] + d["upgrade"]
  BY DEF Steps
<1>2. /\ q["resolve"] \in Nat /\ q["connect"] \in Nat /\ q["tls"] \in Nat
      /\ q["upgrade"] \in Nat
      /\ d["resolve"] \in Int /\ d["connect"] \in Int /\ d["tls"] \in Int
      /\ d["upgrade"] \in Int
  BY DEF Steps
<1>3. Sum(p) = (q["resolve"] + d["resolve"]) + (q["connect"] + d["connect"])
                  + (q["tls"] + d["tls"]) + (q["upgrade"] + d["upgrade"])
  BY <1>1 DEF Sum
<1>4. @ = (q["resolve"] + q["connect"] + q["tls"] + q["upgrade"])
             + (d["resolve"] + d["connect"] + d["tls"] + d["upgrade"])
  BY <1>2
<1>5. Sum(p) \in Nat
  <2>1. /\ p["resolve"] \in Nat /\ p["connect"] \in Nat /\ p["tls"] \in Nat
        /\ p["upgrade"] \in Nat
    BY DEF Steps
  <2> QED BY <2>1 DEF Sum
<1>6. Sum(q) \in Nat
  BY <1>2 DEF Sum
<1> QED BY <1>3, <1>4, <1>5, <1>6 DEF Sum

\* Completion a, or another task op, has run, and x or nothing was started.
Moved(o, a, x) ==
    /\ Fly(strand', ops', o, generation) + (IF o = a THEN 1 ELSE 0)
          = Fly(strand, ops, o, generation) + (IF o = x THEN 1 ELSE 0)
    /\ Fly(strand', ops', o, generation) \in Nat
    /\ Fly(strand, ops, o, generation) \in Nat

Moves(op, a, x) ==
    /\ Attempting(strand', ops', generation) + (IF a \in Steps THEN 1 ELSE 0)
          = Attempting(strand, ops, generation) + (IF x \in Steps THEN 1 ELSE 0)
    /\ Attempting(strand', ops', generation) \in Nat
    /\ Attempting(strand, ops, generation) \in Nat
    /\ Moved("read", a, x) /\ Moved("write", a, x) /\ Moved("close", a, x)
    /\ Cardinality(Places(strand, Starts))
          = Cardinality(Places(strand', Starts)) + (IF op = "start" THEN 1 ELSE 0)
    /\ Cardinality(Places(strand, Sends))
          = Cardinality(Places(strand', Sends)) + (IF op = "send" THEN 1 ELSE 0)
    /\ Cardinality(Places(strand', Starts)) \in Nat
    /\ Cardinality(Places(strand', Sends)) \in Nat

\* A handler of completion a, or of another task, that starts x or nothing: what is
\* in flight of each sort.
LEMMA HandlerMoves ==
    ASSUME StrandOK, OpsOK, generation \in Nat, strand # <<>>, strand' = Tail(strand),
           generation' = generation, NEW x,
           \/ x = "none" /\ ops' = ops
           \/ x \in OpNames /\ generation > 0 /\ ops' = BagAdd(ops, Op(x, generation)),
           NEW a, \/ Head(strand).op = a /\ Head(strand).gen = generation
                  \/ a = "none" /\ Head(strand).gen # generation
                  \/ a = "none" /\ Head(strand).op \notin OpNames
    PROVE  /\ StrandOK' /\ OpsOK'
           /\ Moves(Head(strand).op, a, x)
           /\ NoneFailed(strand, generation) =>
                 /\ NoneFailed(strand', generation)
                 /\ a = "write" => Head(strand).arg = "ok"
<1> DEFINE t == Head(strand)
           pre(o) == Fly(strand, ops, o, generation)
           post(o) == Fly(strand', ops', o, generation)
<1>1. /\ StrandOK' /\ OpsOK'
      /\ \A o \in OpNames :
            /\ post(o) \in Nat
            /\ pre(o) + Flag(o = x) = post(o) + Flag(t.op = o /\ t.gen = generation)
      /\ Cardinality(Places(strand, Starts))
            = Cardinality(Places(strand', Starts)) + Flag(t.op = "start")
      /\ Cardinality(Places(strand, Sends))
            = Cardinality(Places(strand', Sends)) + Flag(t.op = "send")
      /\ Cardinality(Places(strand', Starts)) \in Nat
      /\ Cardinality(Places(strand', Sends)) \in Nat
      /\ NoneFailed(strand, generation) =>
            /\ NoneFailed(strand', generation)
            /\ t.op = "write" /\ t.gen = generation => t.arg = "ok"
  BY HandlerOps DEF Flag
<1>2. \A o \in OpNames : pre(o) \in Nat
  BY Counted
<1> HIDE DEF t, pre, post
<1>3. ASSUME NEW o \in OpNames
      PROVE  post(o) + (IF o = a THEN 1 ELSE 0) = pre(o) + (IF o = x THEN 1 ELSE 0)
  <2>1. pre(o) + Flag(o = x) = post(o) + Flag(t.op = o /\ t.gen = generation)
    BY <1>1 DEF Flag
  <2>2. t.op = o /\ t.gen = generation <=> o = a
    BY DEF t, OpNames, Steps
  <2>3. pre(o) \in Nat /\ post(o) \in Nat
    BY <1>1, <1>2
  <2> QED BY <2>1, <2>2, <2>3 DEF Flag
<1>4. Steps \subseteq OpNames /\ {"read", "write", "close"} \subseteq OpNames
  BY DEF OpNames
<1> DEFINE p == [o \in Steps |-> post(o)]
           q == [o \in Steps |-> pre(o)]
           d == [o \in Steps |-> (IF o = x THEN 1 ELSE 0) - (IF o = a THEN 1 ELSE 0)]
<1>5. /\ p \in [Steps -> Nat] /\ q \in [Steps -> Nat] /\ d \in [Steps -> Int]
      /\ \A o \in Steps : p[o] = q[o] + d[o]
  <2>1. \A o \in Steps : post(o) \in Nat /\ pre(o) \in Nat
    BY <1>1, <1>2, <1>4
  <2>2. ASSUME NEW o \in Steps
        PROVE  post(o) = pre(o) + ((IF o = x THEN 1 ELSE 0) - (IF o = a THEN 1 ELSE 0))
    <3>1. o \in OpNames
      BY <1>4
    <3>2. post(o) + (IF o = a THEN 1 ELSE 0) = pre(o) + (IF o = x THEN 1 ELSE 0)
      BY <1>3, <3>1
    <3> QED BY <2>1, <3>2
  <2>3. \A o \in Steps : p[o] = post(o) /\ q[o] = pre(o)
            /\ d[o] = (IF o = x THEN 1 ELSE 0) - (IF o = a THEN 1 ELSE 0)
    OBVIOUS
  <2>4. p \in [Steps -> Nat] /\ q \in [Steps -> Nat] /\ d \in [Steps -> Int]
    BY <2>1
  <2> HIDE DEF p, q, d
  <2> QED BY <2>2, <2>3, <2>4
<1>6. /\ Sum(d) = (IF x \in Steps THEN 1 ELSE 0) - (IF a \in Steps THEN 1 ELSE 0)
      /\ Sum(p) = Attempting(strand', ops', generation)
      /\ Sum(q) = Attempting(strand, ops, generation)
  BY DEF Sum, Steps, Attempting, pre, post
<1> HIDE DEF p, q, d
<1>7. Sum(p) = Sum(q) + Sum(d) /\ Sum(p) \in Nat /\ Sum(q) \in Nat
  BY <1>5, SumsMove
<1>8. /\ Attempting(strand', ops', generation) + (IF a \in Steps THEN 1 ELSE 0)
            = Attempting(strand, ops, generation) + (IF x \in Steps THEN 1 ELSE 0)
      /\ Attempting(strand', ops', generation) \in Nat
      /\ Attempting(strand, ops, generation) \in Nat
  BY <1>6, <1>7
<1>9. NoneFailed(strand, generation) /\ a = "write" => t.arg = "ok"
  BY <1>1 DEF t, OpNames
<1>10. \A o \in {"read", "write", "close"} :
          /\ post(o) + (IF o = a THEN 1 ELSE 0) = pre(o) + (IF o = x THEN 1 ELSE 0)
          /\ post(o) \in Nat /\ pre(o) \in Nat
  BY <1>1, <1>2, <1>3, <1>4
<1>11. Moved("read", a, x) /\ Moved("write", a, x) /\ Moved("close", a, x)
  BY <1>10 DEF Moved, pre, post
<1>12. /\ Cardinality(Places(strand, Starts))
            = Cardinality(Places(strand', Starts)) + (IF t.op = "start" THEN 1 ELSE 0)
      /\ Cardinality(Places(strand, Sends))
            = Cardinality(Places(strand', Sends)) + (IF t.op = "send" THEN 1 ELSE 0)
      /\ Cardinality(Places(strand', Starts)) \in Nat
      /\ Cardinality(Places(strand', Sends)) \in Nat
  BY <1>1 DEF Flag
<1>13. Moves(Head(strand).op, a, x)
  BY <1>8, <1>11, <1>12, Zenon DEF Moves, t
<1> QED BY <1>1, <1>9, <1>13 DEF t

SameLife ==
    /\ generation' = generation /\ state' = state /\ failures' = failures
    /\ connected' = connected /\ timer' = timer /\ opens' = opens

SameClose ==
    /\ stop_requested' = stop_requested /\ asked' = asked
    /\ requested_code' = requested_code
    /\ close_done' = close_done /\ read_done' = read_done

\* doClose() may have taken effect, or one half of our own close ended.
CloseMoves ==
    /\ stop_requested' \in BOOLEAN /\ close_done' \in BOOLEAN /\ read_done' \in BOOLEAN
    /\ asked' \in Codes /\ (asked' = asked \/ stop_requested' = TRUE)
    /\ stop_requested = TRUE => stop_requested' = TRUE
    /\ requested_code' \in Codes

LEMMA SameCloseMoves == IInv /\ SameClose => CloseMoves
<1> SUFFICES ASSUME IInv, SameClose PROVE CloseMoves
  OBVIOUS
<1>1. stop_requested' \in BOOLEAN /\ close_done' \in BOOLEAN /\ read_done' \in BOOLEAN
  BY Zenon DEF IInv, Flags, SameClose
<1>2. asked' \in Codes /\ requested_code' \in Codes
  BY DEF IInv, Types, SameClose
<1>3. asked' = asked /\ (stop_requested = TRUE => stop_requested' = TRUE)
  BY Zenon DEF SameClose
<1> QED BY <1>1, <1>2, <1>3 DEF CloseMoves

\* A handler that leaves the life of the connection alone: all but the numbers in flight.
LEMMA QuietMoves ==
    ASSUME IInv, NEW op, Runs(op), SameLife, CloseMoves, NEW x,
           \/ x = "none" /\ ops' = ops
           \/ x \in OpNames /\ generation > 0 /\ ops' = BagAdd(ops, Op(x, generation)),
           NEW a, \/ op = a /\ Head(strand).gen = generation
                  \/ a = "none" /\ Head(strand).gen # generation
                  \/ a = "none" /\ op \notin OpNames,
           \/ calls' = calls
           \/ state \in {"open", "closing"} /\ calls' = Append(calls, Call("message")),
           ~(state = "waiting" /\ op = "retry" /\ Head(strand).arg = "ok"),
           link' \in {"none", "up", "down"}, pending' \in Nat, write_queue' \in Seq(Nat)
    PROVE  /\ StrandOK' /\ OpsOK' /\ Types' /\ Flags' /\ Retrying' /\ Bounded'
           /\ Callbacks' /\ Closing'
           /\ generation' = generation /\ state' = state /\ generation \in Nat
           /\ Cardinality(Inside') = Cardinality(Inside) /\ Cardinality(Inside) \in Nat
           /\ pending = Cardinality(Inside) + Cardinality(Places(strand, Sends))
                           + Len(write_queue)
           /\ pending \in Nat /\ Len(write_queue) \in Nat
           /\ pending <= send_queue_limit /\ send_queue_limit \in Nat
           /\ Moves(op, a, x)
           /\ NoneFailed(strand, generation) =>
                 NoneFailed(strand', generation) /\ (a = "write" => Head(strand).arg = "ok")
<1>1. /\ strand # <<>> /\ strand' = Tail(strand) /\ request' = request
      /\ closed' = closed /\ destroyer' = destroyer
      /\ handle' = handle /\ sender' = sender /\ Inside' = Inside
      /\ Head(strand).op = op /\ generation \in Nat
  BY RunsFacts
<1>2. /\ generation' = generation /\ state' = state /\ failures' = failures
      /\ connected' = connected /\ timer' = timer /\ opens' = opens
  BY Zenon DEF SameLife
<1>3. /\ StrandOK' /\ Types' /\ Flags' /\ Retrying' /\ Bounded'
      /\ Callbacks' /\ Closing'
  <2>1. /\ stop_requested' \in BOOLEAN /\ close_done' \in BOOLEAN /\ read_done' \in BOOLEAN
        /\ asked' \in Codes /\ (asked' = asked \/ stop_requested' = TRUE)
        /\ stop_requested = TRUE => stop_requested' = TRUE
        /\ requested_code' \in Codes
    BY Zenon DEF CloseMoves
  <2> QED BY <1>1, <1>2, <2>1, QuietRest
<1>4. StrandOK /\ OpsOK
  BY DEF IInv
<1>5. Cardinality(Inside) \in Nat
  <2>1. Inside \subseteq Senders
    BY DEF Inside
  <2> QED BY <2>1, InsideFinite
<1>6. /\ pending = Cardinality(Inside) + Cardinality(Places(strand, Sends)) + Len(write_queue)
      /\ pending \in Nat /\ Len(write_queue) \in Nat
      /\ pending <= send_queue_limit /\ send_queue_limit \in Nat
  BY ClientAssumption DEF IInv, Types, Pending, Limits, Count
<1>7. \/ Head(strand).op = a /\ Head(strand).gen = generation
      \/ a = "none" /\ Head(strand).gen # generation
      \/ a = "none" /\ Head(strand).op \notin OpNames
  BY <1>1
<1>8. /\ OpsOK' /\ Moves(op, a, x)
      /\ NoneFailed(strand, generation) =>
            NoneFailed(strand', generation) /\ (a = "write" => Head(strand).arg = "ok")
  BY <1>1, <1>2, <1>4, <1>7, HandlerMoves
<1> QED BY <1>1, <1>2, <1>3, <1>5, <1>6, <1>8

\* The rest of the invariant, from the numbers.
LEMMA FromNumbers ==
    ASSUME IInv, /\ StrandOK' /\ OpsOK' /\ Types' /\ Flags' /\ Retrying' /\ Bounded'
                 /\ Callbacks' /\ Closing',
           Flow', Writing', Pending', Limits'
    PROVE  IInv'
  BY DEF IInv

\* A step of an attempt leads to the next one.
LEMMA StepKeeps == IInv /\ (OnResolve \/ OnConnect \/ OnTls) => IInv'
<1> SUFFICES ASSUME IInv, OnResolve \/ OnConnect \/ OnTls PROVE IInv'
  OBVIOUS
<1>1. PICK op \in Steps, x \in Steps :
          /\ Completed(op) /\ ops' = BagAdd(ops, Op(x, generation))
          /\ link' = link \/ link' = "up"
  BY Zenon DEF OnResolve, OnConnect, OnTls, Steps
<1>2. /\ SameLife /\ SameClose /\ calls' = calls
      /\ pending' = pending /\ write_queue' = write_queue
  BY Zenon DEF OnResolve, OnConnect, OnTls, queueVars, closeVars, lifeVars, SameLife, SameClose
<1>3. op \in OpNames /\ x \in OpNames
  BY DEF OpNames
<1>4. Runs(op) /\ Head(strand).gen = generation /\ state = "connecting" /\ generation > 0
  BY <1>1, <1>3, CompletedFacts, RunsFacts
<1>5. /\ link' \in {"none", "up", "down"} /\ pending' \in Nat /\ write_queue' \in Seq(Nat)
      /\ CloseMoves
  BY <1>1, <1>2, SameCloseMoves DEF IInv, Types
<1>6. /\ StrandOK' /\ OpsOK' /\ Types' /\ Flags' /\ Retrying' /\ Bounded'
      /\ Callbacks' /\ Closing'
      /\ generation' = generation /\ state' = state /\ Moves(op, op, x)
      /\ Cardinality(Inside') = Cardinality(Inside) /\ Cardinality(Inside) \in Nat
  BY <1>1, <1>2, <1>3, <1>4, <1>5, QuietMoves
<1>7. op \notin {"start", "send", "read", "write", "close"} /\ x \notin {"read", "write", "close"}
  BY DEF Steps
<1>8. close_done' = close_done /\ read_done' = read_done
  BY <1>2, Zenon DEF SameClose
<1>9. Flow'
  BY <1>4, <1>6, <1>7, <1>8 DEF IInv, Flow, In, Count, Moves, Moved, Flag
<1>10. Writing'
  BY <1>2, <1>4, <1>6, <1>7 DEF IInv, Writing, In, Moves, Moved
<1>11. Pending' /\ Limits'
  BY <1>2, <1>6, <1>7 DEF IInv, Pending, Limits, Count, Moves
<1> QED BY <1>6, <1>9, <1>10, <1>11, FromNumbers

\* Nothing that Flow counts changes.
LEMMA FlowStays ==
    ASSUME IInv, generation' = generation, state' = state,
           stop_requested = TRUE => stop_requested' = TRUE,
           close_done' = close_done, read_done' = read_done,
           Cardinality(Places(strand', Starts)) = Cardinality(Places(strand, Starts)),
           Attempting(strand', ops', generation) = Attempting(strand, ops, generation),
           Fly(strand', ops', "read", generation) = Fly(strand, ops, "read", generation),
           \/ Fly(strand', ops', "close", generation) = Fly(strand, ops, "close", generation)
           \/ state = "stopped"
    PROVE  Flow'
  BY DEF IInv, Flow, In, Count

\* What the handlers that leave pending and the queue alone keep.
LEMMA QueueKept ==
    ASSUME IInv, pending' = pending, write_queue' = write_queue,
           Cardinality(Inside') = Cardinality(Inside), Cardinality(Inside) \in Nat,
           Cardinality(Places(strand', Sends)) = Cardinality(Places(strand, Sends))
    PROVE  Pending' /\ Limits' /\ pending' \in Nat /\ write_queue' \in Seq(Nat)
  BY DEF IInv, Pending, Limits, Count, Types

\* A stale completion is dropped.
LEMMA StaleKeeps ==
    ASSUME IInv, NEW op \in OpNames, OnStale(op)
    PROVE  IInv'
<1>1. /\ Runs(op) /\ SameLife /\ SameClose /\ calls' = calls /\ pending' = pending
      /\ write_queue' = write_queue /\ ops' = ops /\ link' = link
      /\ Head(strand).gen # generation \/ state = "stopped"
  BY Zenon DEF OnStale, stale, Gen, queueVars, closeVars, lifeVars, streamVars,
               SameLife, SameClose
<1>2. /\ link' \in {"none", "up", "down"} /\ pending' \in Nat /\ write_queue' \in Seq(Nat)
      /\ CloseMoves
  BY <1>1, SameCloseMoves DEF IInv, Types
<1>3. op \notin {"none", "start", "send", "retry"}
  BY DEF OpNames, Steps
<1>4. PICK b : \/ b = op /\ Head(strand).gen = generation /\ state = "stopped"
               \/ b = "none" /\ Head(strand).gen # generation
  BY <1>1
<1>7. /\ StrandOK' /\ OpsOK' /\ Types' /\ Flags' /\ Retrying' /\ Bounded'
      /\ Callbacks' /\ Closing'
      /\ generation' = generation /\ state' = state /\ Moves(op, b, "none")
      /\ Cardinality(Inside') = Cardinality(Inside) /\ Cardinality(Inside) \in Nat
      /\ NoneFailed(strand, generation) => NoneFailed(strand', generation)
  BY <1>1, <1>2, <1>3, <1>4, QuietMoves
<1>8. close_done' = close_done /\ read_done' = read_done
  BY <1>1, Zenon DEF SameClose
<1>9. "none" \notin Steps /\ (state # "stopped" => b = "none")
  BY <1>4 DEF Steps
<1>10. Flow'
  <2>1. /\ Cardinality(Places(strand', Starts)) = Cardinality(Places(strand, Starts))
        /\ state = "stopped" \/ b = "none"
    BY <1>3, <1>7, <1>9 DEF Moves
  <2>2. stop_requested = TRUE => stop_requested' = TRUE
    BY <1>1, Zenon DEF SameClose
  <2>3. CASE b = "none"
    <3>1. /\ Attempting(strand', ops', generation) = Attempting(strand, ops, generation)
          /\ Fly(strand', ops', "read", generation) = Fly(strand, ops, "read", generation)
          /\ Fly(strand', ops', "close", generation) = Fly(strand, ops, "close", generation)
      BY <1>7, <1>9, <2>3 DEF Moves, Moved
    <3> QED BY <1>7, <1>8, <2>1, <2>2, <3>1, FlowStays
  <2>4. CASE state = "stopped"
    <3>1. /\ Attempting(strand, ops, generation) = 0
          /\ Fly(strand, ops, "read", generation) = 0
      BY <2>4 DEF IInv, Flow, In, Flag
    <3>2. /\ Attempting(strand', ops', generation) = 0
          /\ Fly(strand', ops', "read", generation) = 0
      BY <1>3, <1>7, <1>9, <3>1 DEF Moves, Moved
    <3> QED BY <1>7, <1>8, <2>1, <2>2, <2>4, <3>1, <3>2, FlowStays
  <2> QED BY <2>1, <2>3, <2>4
<1>11. Writing'
  BY <1>1, <1>7, <1>9 DEF IInv, Writing, In, Moves, Moved
<1>12. Pending' /\ Limits'
  <2>1. Cardinality(Places(strand', Sends)) = Cardinality(Places(strand, Sends))
    BY <1>3, <1>7 DEF Moves
  <2> QED BY <1>1, <1>7, <2>1, QueueKept
<1> QED BY <1>7, <1>10, <1>11, <1>12, FromNumbers

\* Another message is read.
LEMMA MessageKeeps == IInv /\ OnMessage => IInv'
<1> SUFFICES ASSUME IInv, OnMessage PROVE IInv'
  OBVIOUS
<1>1. /\ Completed("read") /\ SameLife /\ SameClose /\ deliver(<<Call("message")>>)
      /\ pending' = pending /\ write_queue' = write_queue
      /\ ops' = BagAdd(ops, Op("read", generation)) /\ link' = link
  BY Zenon DEF OnMessage, queueVars, closeVars, SameLife, SameClose
<1>2. /\ "read" \in OpNames /\ "read" \notin {"none", "start", "send", "retry"}
      /\ "read" \notin Steps
  BY DEF OpNames, Steps
<1>3. /\ Runs("read") /\ Head(strand).gen = generation /\ state # "stopped"
      /\ state \in {"open", "closing"} /\ generation > 0
  BY <1>1, <1>2, CompletedFacts, RunsFacts
<1>4. calls' = Append(calls, Call("message"))
  <2>1. <<Call("message")>> # <<Call("open")>>
    BY DEF Call
  <2>2. calls' = calls \o <<Call("message")>>
    BY <1>1, <1>3, <2>1 DEF deliver
  <2>3. calls \in Seq(Events)
    BY DEF IInv, Types
  <2> QED BY <2>2, <2>3
<1>5. /\ link' \in {"none", "up", "down"} /\ pending' \in Nat /\ write_queue' \in Seq(Nat)
      /\ CloseMoves
  BY <1>1, SameCloseMoves DEF IInv, Types
<1>6. /\ StrandOK' /\ OpsOK' /\ Types' /\ Flags' /\ Retrying' /\ Bounded'
      /\ Callbacks' /\ Closing'
      /\ generation' = generation /\ state' = state /\ Moves("read", "read", "read")
      /\ Cardinality(Inside') = Cardinality(Inside) /\ Cardinality(Inside) \in Nat
      /\ NoneFailed(strand, generation) => NoneFailed(strand', generation)
  BY <1>1, <1>2, <1>3, <1>4, <1>5, QuietMoves
<1>7. close_done' = close_done /\ read_done' = read_done
  BY <1>1, Zenon DEF SameClose
<1>8. Flow'
  <2>1. /\ Cardinality(Places(strand', Starts)) = Cardinality(Places(strand, Starts))
        /\ Attempting(strand', ops', generation) = Attempting(strand, ops, generation)
        /\ Fly(strand', ops', "read", generation) = Fly(strand, ops, "read", generation)
        /\ Fly(strand', ops', "close", generation) = Fly(strand, ops, "close", generation)
    BY <1>2, <1>6 DEF Moves, Moved
  <2>2. stop_requested = TRUE => stop_requested' = TRUE
    BY <1>1, Zenon DEF SameClose
  <2> QED BY <1>6, <1>7, <2>1, <2>2, FlowStays
<1>9. Writing'
  BY <1>1, <1>6 DEF IInv, Writing, In, Moves, Moved
<1>10. Pending' /\ Limits'
  <2>1. Cardinality(Places(strand', Sends)) = Cardinality(Places(strand, Sends))
    BY <1>6 DEF Moves
  <2> QED BY <1>1, <1>6, <2>1, QueueKept
<1> QED BY <1>6, <1>8, <1>9, <1>10, FromNumbers

\* A write ends for nothing, or failed: the stream is down or closing.
LEMMA WriteFailedKeeps == IInv /\ OnWriteFailed => IInv'
<1> SUFFICES ASSUME IInv, OnWriteFailed PROVE IInv'
  OBVIOUS
<1>1. /\ Completed("write") /\ SameLife /\ SameClose /\ calls' = calls
      /\ pending' = pending /\ write_queue' = write_queue
      /\ ops' = ops /\ link' = link
      /\ write_queue = <<>> \/ Head(strand).arg = "error"
  BY Zenon DEF OnWriteFailed, Arg, queueVars, closeVars, lifeVars, streamVars, SameLife, SameClose
<1>2. /\ "write" \in OpNames /\ "write" \notin {"none", "start", "send", "retry"}
      /\ "write" \notin Steps /\ "none" \notin Steps
  BY DEF OpNames, Steps
<1>3. /\ Runs("write") /\ Head(strand).gen = generation
  BY <1>1, <1>2, CompletedFacts
<1>4. /\ link' \in {"none", "up", "down"} /\ pending' \in Nat /\ write_queue' \in Seq(Nat)
      /\ CloseMoves
  BY <1>1, SameCloseMoves DEF IInv, Types
<1>5. /\ StrandOK' /\ OpsOK' /\ Types' /\ Flags' /\ Retrying' /\ Bounded'
      /\ Callbacks' /\ Closing'
      /\ generation' = generation /\ state' = state /\ Moves("write", "write", "none")
      /\ Cardinality(Inside') = Cardinality(Inside) /\ Cardinality(Inside) \in Nat
      /\ NoneFailed(strand, generation) =>
            NoneFailed(strand', generation) /\ Head(strand).arg = "ok"
  BY <1>1, <1>2, <1>3, <1>4, QuietMoves
<1>6. close_done' = close_done /\ read_done' = read_done
  BY <1>1, Zenon DEF SameClose
<1>7. Flow'
  <2>1. /\ Cardinality(Places(strand', Starts)) = Cardinality(Places(strand, Starts))
        /\ Attempting(strand', ops', generation) = Attempting(strand, ops, generation)
        /\ Fly(strand', ops', "read", generation) = Fly(strand, ops, "read", generation)
        /\ Fly(strand', ops', "close", generation) = Fly(strand, ops, "close", generation)
    BY <1>2, <1>5 DEF Moves, Moved
  <2>2. stop_requested = TRUE => stop_requested' = TRUE
    BY <1>1, Zenon DEF SameClose
  <2> QED BY <1>5, <1>6, <2>1, <2>2, FlowStays
<1>8. Writing'
  BY <1>1, <1>5 DEF IInv, Writing, In, Moves, Moved
<1>9. Pending' /\ Limits'
  <2>1. Cardinality(Places(strand', Sends)) = Cardinality(Places(strand, Sends))
    BY <1>5 DEF Moves
  <2> QED BY <1>1, <1>5, <2>1, QueueKept
<1> QED BY <1>5, <1>7, <1>8, <1>9, FromNumbers

\* A message is written; the next one goes out, if there is one.
LEMMA WriteKeeps == IInv /\ OnWrite => IInv'
<1> SUFFICES ASSUME IInv, OnWrite PROVE IInv'
  OBVIOUS
<1>1. /\ Completed("write") /\ SameLife /\ SameClose /\ calls' = calls
      /\ pending' = pending - 1 /\ write_queue' = Tail(write_queue) /\ write_queue # <<>>
      /\ ops' = IF write_queue' # <<>> THEN BagAdd(ops, Op("write", generation)) ELSE ops
      /\ link' = link
  BY Zenon DEF OnWrite, closeVars, lifeVars, SameLife, SameClose
<1>2. /\ "write" \in OpNames /\ "write" \notin {"none", "start", "send", "retry"}
      /\ "write" \notin Steps /\ "none" \notin Steps
  BY DEF OpNames, Steps
<1>3. Runs("write") /\ Head(strand).gen = generation /\ generation > 0
  BY <1>1, <1>2, CompletedFacts, RunsFacts
<1>4. /\ write_queue \in Seq(Nat) /\ write_queue' \in Seq(Nat)
      /\ Len(write_queue') = Len(write_queue) - 1 /\ Len(write_queue) \in Nat \ {0}
      /\ \A i \in 1 .. Len(write_queue') :
            write_queue'[i] = write_queue[i + 1] /\ i + 1 \in 1 .. Len(write_queue)
  <2>1. write_queue \in Seq(Nat)
    BY DEF IInv, Types
  <2> QED BY <1>1, <2>1
<1>5. /\ pending = Cardinality(Inside) + Cardinality(Places(strand, Sends)) + Len(write_queue)
      /\ Cardinality(Inside) \in Nat /\ Cardinality(Places(strand, Sends)) \in Nat
  <2>1. Inside \subseteq Senders
    BY DEF Inside
  <2> QED BY <2>1, InsideFinite, Counted DEF IInv, Pending, Count
<1>6. /\ link' \in {"none", "up", "down"} /\ pending' \in Nat /\ CloseMoves
  <2>1. pending' \in Nat
    BY <1>1, <1>4, <1>5
  <2> QED BY <1>1, <2>1, SameCloseMoves DEF IInv, Types
<1>7. PICK x : \/ x = "none" /\ ops' = ops /\ write_queue' = <<>>
               \/ /\ x = "write" /\ ops' = BagAdd(ops, Op("write", generation))
                  /\ write_queue' # <<>>
  BY <1>1
<1>8. /\ StrandOK' /\ OpsOK' /\ Types' /\ Flags' /\ Retrying' /\ Bounded'
      /\ Callbacks' /\ Closing'
      /\ generation' = generation /\ state' = state /\ Moves("write", "write", x)
      /\ Cardinality(Inside') = Cardinality(Inside)
      /\ pending <= send_queue_limit /\ send_queue_limit \in Nat
      /\ NoneFailed(strand, generation) => NoneFailed(strand', generation)
  BY <1>1, <1>2, <1>3, <1>4, <1>6, <1>7, QuietMoves
<1>9. close_done' = close_done /\ read_done' = read_done
  BY <1>1, Zenon DEF SameClose
<1>10. x \notin Steps /\ x \notin {"read", "close"}
  BY <1>2, <1>7
<1>11. Flow'
  <2>1. /\ Cardinality(Places(strand', Starts)) = Cardinality(Places(strand, Starts))
        /\ Attempting(strand', ops', generation) = Attempting(strand, ops, generation)
        /\ Fly(strand', ops', "read", generation) = Fly(strand, ops, "read", generation)
        /\ Fly(strand', ops', "close", generation) = Fly(strand, ops, "close", generation)
    BY <1>2, <1>8, <1>10 DEF Moves, Moved
  <2>2. stop_requested = TRUE => stop_requested' = TRUE
    BY <1>1, Zenon DEF SameClose
  <2> QED BY <1>8, <1>9, <2>1, <2>2, FlowStays
<1>12. Writing'
  <2>1. \A i \in 1 .. Len(write_queue') : write_queue'[i] = generation
    BY <1>4 DEF IInv, Writing
  <2>2. state \in {"open", "closing"} /\ In("write") <= 1
    BY <1>1 DEF IInv, Writing
  <2>3. Fly(strand', ops', "write", generation) = IF x = "write" THEN 1 ELSE 0
    <3>1. Fly(strand', ops', "write", generation) + 1
             = Fly(strand, ops, "write", generation) + (IF x = "write" THEN 1 ELSE 0)
      BY <1>7, <1>8 DEF Moves, Moved
    <3>2. /\ Fly(strand, ops, "write", generation) \in Nat
          /\ Fly(strand, ops, "write", generation) >= 1
          /\ Fly(strand, ops, "write", generation) <= 1
      BY <1>1, <1>2, <1>8, <2>2, CompletedFacts DEF Moves, Moved, In
    <3>3. Fly(strand', ops', "write", generation) \in Nat
      BY <1>8 DEF Moves, Moved
    <3> QED BY <3>1, <3>2, <3>3
  <2>4. x = "write" <=> write_queue' # <<>>
    BY <1>7
  <2>5. Fly(strand', ops', "write", generation) = IF write_queue' # <<>> THEN 1 ELSE 0
    BY <2>3, <2>4
  <2>6. state' = "open" /\ link' = "up" => NoneFailed(strand', generation)
    BY <1>1, <1>8 DEF IInv, Writing
  <2>7. generation' = generation /\ state' \in {"open", "closing"}
    BY <1>8, <2>2
  <2> HIDE DEF NoneFailed
  <2> QED BY <2>1, <2>5, <2>6, <2>7 DEF Writing, In
<1>13. Pending' /\ Limits'
  <2>1. Cardinality(Places(strand', Sends)) = Cardinality(Places(strand, Sends))
    BY <1>8 DEF Moves
  <2> QED BY <1>1, <1>4, <1>5, <1>8, <2>1 DEF Pending, Limits, Count
<1> QED BY <1>8, <1>11, <1>12, <1>13, FromNumbers

\* The lambda send() posted queues the message, or drops it with its connection.
LEMMA SendTaskKeeps == IInv /\ SendTask => IInv'
<1> SUFFICES ASSUME IInv, SendTask PROVE IInv'
  OBVIOUS
<1>1. /\ Runs("send") /\ SameLife /\ SameClose /\ calls' = calls /\ link' = link
      /\ \/ /\ state = "open" /\ Head(strand).gen = generation
            /\ write_queue' = Append(write_queue, generation)
            /\ ops' = IF Len(write_queue') = 1
                      THEN BagAdd(ops, Op("write", generation)) ELSE ops
            /\ pending' = pending
         \/ pending' = pending - 1 /\ write_queue' = write_queue /\ ops' = ops
  BY DEF SendTask, accepts, startsWrite, Gen, closeVars, lifeVars, SameLife, SameClose
<1>2. /\ "write" \in OpNames /\ "send" \notin OpNames
      /\ "write" \notin Steps /\ "none" \notin Steps
  BY DEF OpNames, Steps
<1>3. /\ strand # <<>> /\ Head(strand).op = "send" /\ generation \in Nat
      /\ Head(strand).gen \in Nat
  BY <1>1, RunsFacts DEF Tasks
<1>4. /\ write_queue \in Seq(Nat) /\ Len(write_queue) \in Nat /\ StrandOK /\ OpsOK
      /\ pending \in Nat
  BY DEF IInv, Types
<1>5. /\ pending = Cardinality(Inside) + Cardinality(Places(strand, Sends)) + Len(write_queue)
      /\ Cardinality(Inside) \in Nat /\ Cardinality(Places(strand, Sends)) \in Nat
      /\ Cardinality(Places(strand, Sends)) >= 1
  <2>1. Inside \subseteq Senders
    BY DEF Inside
  <2>2. /\ Cardinality(Places(strand, Sends))
              = Cardinality(Places(Tail(strand), Sends)) + Flag(Head(strand).op = "send")
        /\ Cardinality(Places(Tail(strand), Sends)) \in Nat
    BY <1>3, <1>4, TaskTaken DEF Flag
  <2>3. Flag(Head(strand).op = "send") = 1
    BY <1>3 DEF Flag
  <2>4. Cardinality(Places(strand, Sends)) >= 1
    BY <2>2, <2>3
  <2> QED BY <2>1, <2>4, InsideFinite, Counted DEF IInv, Pending, Count
<1>6. link' \in {"none", "up", "down"} /\ CloseMoves
  BY <1>1, SameCloseMoves DEF IInv, Types
<1>7. close_done' = close_done /\ read_done' = read_done
      /\ (stop_requested = TRUE => stop_requested' = TRUE)
  BY <1>1, Zenon DEF SameClose
<1>8. CASE pending' = pending - 1 /\ write_queue' = write_queue /\ ops' = ops
  <2>1. pending' \in Nat /\ write_queue' \in Seq(Nat)
    BY <1>4, <1>5, <1>8
  <2>2. /\ StrandOK' /\ OpsOK' /\ Types' /\ Flags' /\ Retrying' /\ Bounded'
        /\ Callbacks' /\ Closing'
        /\ generation' = generation /\ state' = state /\ Moves("send", "none", "none")
        /\ Cardinality(Inside') = Cardinality(Inside)
        /\ pending <= send_queue_limit /\ send_queue_limit \in Nat
        /\ NoneFailed(strand, generation) => NoneFailed(strand', generation)
    BY <1>1, <1>2, <1>6, <1>8, <2>1, QuietMoves
  <2>3. /\ Cardinality(Places(strand', Starts)) = Cardinality(Places(strand, Starts))
        /\ Attempting(strand', ops', generation) = Attempting(strand, ops, generation)
        /\ Fly(strand', ops', "read", generation) = Fly(strand, ops, "read", generation)
        /\ Fly(strand', ops', "close", generation) = Fly(strand, ops, "close", generation)
        /\ Fly(strand', ops', "write", generation) = Fly(strand, ops, "write", generation)
    BY <1>2, <2>2 DEF Moves, Moved
  <2>4. Flow'
    BY <1>7, <2>2, <2>3, FlowStays
  <2>5. Writing'
    BY <1>1, <1>8, <2>2, <2>3 DEF IInv, Writing, In
  <2>6. Pending' /\ Limits'
    <3>1. /\ Cardinality(Places(strand, Sends)) = Cardinality(Places(strand', Sends)) + 1
          /\ Cardinality(Places(strand', Sends)) \in Nat
      BY <2>2 DEF Moves
    <3> QED BY <1>4, <1>5, <1>8, <2>2, <3>1 DEF Pending, Limits, Count
  <2> QED BY <2>2, <2>4, <2>5, <2>6, FromNumbers
<1>9. CASE /\ state = "open" /\ Head(strand).gen = generation
           /\ write_queue' = Append(write_queue, generation)
           /\ ops' = IF Len(write_queue') = 1
                     THEN BagAdd(ops, Op("write", generation)) ELSE ops
           /\ pending' = pending
  <2>1. /\ write_queue' \in Seq(Nat) /\ Len(write_queue') = Len(write_queue) + 1
        /\ \A i \in 1 .. Len(write_queue) : write_queue'[i] = write_queue[i]
        /\ write_queue'[Len(write_queue) + 1] = generation
    BY <1>3, <1>4, <1>9
  <2>2. generation > 0
    <3>1. Fly(strand, ops, "read", generation) = 1
      BY <1>9 DEF IInv, Flow, In, Flag
    <3>2. ~(generation = 0)
      <4>1. SUFFICES ASSUME generation = 0 PROVE FALSE
        OBVIOUS
      <4>2. ~BagIn(Op("read", generation), ops)
        BY <1>4, <4>1 DEF OpsOK, BagIn, BagToSet, Op
      <4>3. \A i \in 1 .. Len(strand) : strand[i].op = "read" => strand[i].gen # generation
        BY <1>4, <4>1 DEF StrandOK, TaskOK, OpNames
      <4>4. strand \in Seq(Tasks) /\ IsABag(ops)
        BY <1>4 DEF StrandOK, OpsOK
      <4> QED BY <3>1, <4>2, <4>3, <4>4, NoneFly
    <3> QED BY <1>3, <3>2
  <2>3. PICK x : \/ x = "none" /\ ops' = ops /\ write_queue # <<>>
                 \/ /\ x = "write" /\ ops' = BagAdd(ops, Op("write", generation))
                    /\ write_queue = <<>>
    <3>1. Len(write_queue') = 1 <=> write_queue = <<>>
      BY <1>4, <2>1
    <3> QED BY <1>9, <3>1
  <2>4. /\ StrandOK' /\ OpsOK' /\ Types' /\ Flags' /\ Retrying' /\ Bounded'
        /\ Callbacks' /\ Closing'
        /\ generation' = generation /\ state' = state /\ Moves("send", "none", x)
        /\ Cardinality(Inside') = Cardinality(Inside)
        /\ pending <= send_queue_limit /\ send_queue_limit \in Nat
        /\ NoneFailed(strand, generation) => NoneFailed(strand', generation)
    BY <1>1, <1>2, <1>4, <1>6, <1>9, <2>1, <2>2, <2>3, QuietMoves
  <2>5. /\ Cardinality(Places(strand', Starts)) = Cardinality(Places(strand, Starts))
        /\ Attempting(strand', ops', generation) = Attempting(strand, ops, generation)
        /\ Fly(strand', ops', "read", generation) = Fly(strand, ops, "read", generation)
        /\ Fly(strand', ops', "close", generation) = Fly(strand, ops, "close", generation)
        /\ Fly(strand', ops', "write", generation)
              = Fly(strand, ops, "write", generation) + (IF x = "write" THEN 1 ELSE 0)
        /\ Fly(strand, ops, "write", generation) \in Nat
    BY <1>2, <2>3, <2>4 DEF Moves, Moved
  <2>6. Flow'
    BY <1>7, <2>4, <2>5, FlowStays
  <2>7. Writing'
    <3>1. \A i \in 1 .. Len(write_queue') : write_queue'[i] = generation
      <4>1. \A i \in 1 .. Len(write_queue') : i \in 1 .. Len(write_queue) \/ i = Len(write_queue) + 1
        BY <1>4, <2>1
      <4> QED BY <2>1, <4>1 DEF IInv, Writing
    <3>2. /\ Fly(strand, ops, "write", generation) <= 1
          /\ write_queue = <<>> => Fly(strand, ops, "write", generation) = 0
          /\ link = "up" => /\ write_queue # <<>> => Fly(strand, ops, "write", generation) = 1
                            /\ NoneFailed(strand, generation)
      BY <1>9 DEF IInv, Writing, In
    <3>3. /\ Fly(strand', ops', "write", generation) <= 1
          /\ link' = "up" => /\ Fly(strand', ops', "write", generation) = 1
                             /\ NoneFailed(strand', generation)
      BY <1>1, <2>3, <2>4, <2>5, <3>2
    <3>4. write_queue' # <<>> /\ state' = "open" /\ generation' = generation
      BY <1>4, <1>9, <2>1, <2>4
    <3> HIDE DEF NoneFailed
    <3> QED BY <3>1, <3>3, <3>4 DEF Writing, In
  <2>8. Pending' /\ Limits'
    <3>1. /\ Cardinality(Places(strand, Sends)) = Cardinality(Places(strand', Sends)) + 1
          /\ Cardinality(Places(strand', Sends)) \in Nat
      BY <2>4 DEF Moves
    <3> QED BY <1>4, <1>5, <1>9, <2>1, <2>4, <3>1 DEF Pending, Limits, Count
  <2> QED BY <2>4, <2>6, <2>7, <2>8, FromNumbers
<1> QED BY <1>1, <1>8, <1>9

\* close() again, close() while connecting, or a retry that was cancelled.
LEMMA AsideKeeps ==
    ASSUME IInv, NEW op, Runs(op), op \in {"doClose", "retry"}, SameLife, CloseMoves,
           close_done' = close_done, read_done' = read_done,
           calls' = calls, pending' = pending, write_queue' = write_queue, ops' = ops,
           link' \in {"none", "up", "down"},
           link' # link => state = "connecting",
           ~(state = "waiting" /\ op = "retry" /\ Head(strand).arg = "ok")
    PROVE  IInv'
<1>1. /\ op \notin OpNames /\ op \notin {"none", "send", "start"} /\ "none" \notin Steps
  BY DEF OpNames, Steps
<1>2. pending' \in Nat /\ write_queue' \in Seq(Nat)
  BY DEF IInv, Types
<1>3. /\ StrandOK' /\ OpsOK' /\ Types' /\ Flags' /\ Retrying' /\ Bounded'
      /\ Callbacks' /\ Closing'
      /\ generation' = generation /\ state' = state /\ Moves(op, "none", "none")
      /\ Cardinality(Inside') = Cardinality(Inside) /\ Cardinality(Inside) \in Nat
      /\ NoneFailed(strand, generation) => NoneFailed(strand', generation)
  BY <1>1, <1>2, QuietMoves
<1>4. /\ Cardinality(Places(strand', Starts)) = Cardinality(Places(strand, Starts))
      /\ Cardinality(Places(strand', Sends)) = Cardinality(Places(strand, Sends))
      /\ Attempting(strand', ops', generation) = Attempting(strand, ops, generation)
      /\ Fly(strand', ops', "read", generation) = Fly(strand, ops, "read", generation)
      /\ Fly(strand', ops', "close", generation) = Fly(strand, ops, "close", generation)
      /\ Fly(strand', ops', "write", generation) = Fly(strand, ops, "write", generation)
  BY <1>1, <1>3 DEF Moves, Moved
<1>5. Flow'
  <2>1. stop_requested = TRUE => stop_requested' = TRUE
    BY Zenon DEF CloseMoves
  <2> QED BY <1>3, <1>4, <2>1, FlowStays
<1>6. Writing'
  BY <1>3, <1>4 DEF IInv, Writing, In
<1>7. Pending' /\ Limits'
  BY <1>3, <1>4, QueueKept
<1> QED BY <1>3, <1>5, <1>6, <1>7, FromNumbers

LEMMA DoCloseQuietKeeps == IInv /\ (DoCloseAgain \/ DoCloseConnecting) => IInv'
<1> SUFFICES ASSUME IInv, DoCloseAgain \/ DoCloseConnecting PROVE IInv'
  OBVIOUS
<1>1. /\ Runs("doClose") /\ SameLife /\ calls' = calls /\ pending' = pending
      /\ write_queue' = write_queue /\ ops' = ops
      /\ close_done' = close_done /\ read_done' = read_done
      /\ requested_code' = requested_code
  BY Zenon DEF DoCloseAgain, DoCloseConnecting, queueVars, closeVars, lifeVars, streamVars,
               SameLife, requestStop
<1>2. \/ SameClose /\ link' = link
      \/ /\ asked' = Head(strand).arg /\ stop_requested' = TRUE /\ state = "connecting"
         /\ link' = IF link = "none" THEN "none" ELSE "down"
  BY Zenon DEF DoCloseAgain, DoCloseConnecting, requestStop, Arg, closeVars, streamVars, SameClose
<1>3. Head(strand).arg \in {"normal", "going_away"}
  BY <1>1, RunsFacts DEF TaskOK
<1>4. CloseMoves
  <2>1. CASE SameClose
    BY <2>1, SameCloseMoves
  <2>2. CASE asked' = Head(strand).arg /\ stop_requested' = TRUE
    <3>1. close_done' \in BOOLEAN /\ read_done' \in BOOLEAN
      BY <1>1, Zenon DEF IInv, Flags
    <3>2. asked' \in Codes /\ requested_code' \in Codes
      BY <1>1, <1>3, <2>2 DEF IInv, Types, Codes
    <3>3. stop_requested' \in BOOLEAN
      BY <2>2
    <3> QED BY <2>2, <3>1, <3>2, <3>3, Zenon DEF CloseMoves
  <2> QED BY <1>2, <2>1, <2>2
<1>5. link' \in {"none", "up", "down"} /\ (link' # link => state = "connecting")
  BY <1>2 DEF IInv, Types
<1> QED BY <1>1, <1>4, <1>5, AsideKeeps

\* One half of our own close ended: the other one reports.
LEMMA HalfKeeps ==
    ASSUME IInv, EndedOwnClose \/ OnClose, ~(EndedOwnClose /\ close_done), ~(OnClose /\ read_done)
    PROVE  IInv'
<1>1. PICK op \in {"read", "close"} :
          /\ Completed(op) /\ SameLife /\ calls' = calls /\ pending' = pending
          /\ write_queue' = write_queue /\ ops' = ops /\ link' = link /\ state = "closing"
          /\ stop_requested' = stop_requested /\ asked' = asked
          /\ requested_code' = requested_code
          /\ \/ op = "read" /\ read_done' = TRUE /\ close_done' = close_done /\ ~close_done
             \/ op = "close" /\ close_done' = TRUE /\ read_done' = read_done /\ ~read_done
  <2>1. CASE EndedOwnClose
    <3>1. ~close_done
      BY <2>1
    <3> QED BY <2>1, <3>1, Zenon DEF EndedOwnClose, queueVars, lifeVars, streamVars, SameLife
  <2>2. CASE OnClose
    <3>1. ~read_done
      BY <2>2
    <3>2. "close" \in OpNames
      BY DEF OpNames
    <3>3. Completed("close")
      BY <2>2 DEF OnClose
    <3>4. state = "closing"
      BY <3>2, <3>3, CompletedFacts
    <3> QED BY <2>2, <3>1, <3>4, Zenon DEF OnClose, queueVars, lifeVars, streamVars, SameLife
  <2> QED BY <2>1, <2>2
<1>2. /\ op \in OpNames /\ op \notin {"none", "send", "start", "retry", "write"}
      /\ op \notin Steps /\ "none" \notin Steps
  BY DEF OpNames, Steps
<1>3. /\ Runs(op) /\ Head(strand).gen = generation
      /\ op = "read" => read_done = FALSE
      /\ op = "close" => close_done = FALSE
  BY <1>1, <1>2, CompletedFacts
<1>4. close_done = FALSE \/ close_done = TRUE
  BY Zenon DEF IInv, Flags
<1>5. read_done = FALSE \/ read_done = TRUE
  BY Zenon DEF IInv, Flags
<1>6. CloseMoves
  <2>1. asked' \in Codes /\ requested_code' \in Codes
    BY <1>1 DEF IInv, Types
  <2>2. stop_requested' \in BOOLEAN
    BY <1>1, Zenon DEF IInv, Flags
  <2>3. close_done' \in BOOLEAN /\ read_done' \in BOOLEAN
    <3>1. close_done' = TRUE \/ close_done' = close_done
      BY <1>1, Zenon
    <3>2. read_done' = TRUE \/ read_done' = read_done
      BY <1>1, Zenon
    <3> QED BY <1>4, <1>5, <3>1, <3>2, Zenon
  <2>4. asked' = asked /\ (stop_requested = TRUE => stop_requested' = TRUE)
    BY <1>1, Zenon
  <2> QED BY <2>1, <2>2, <2>3, <2>4, Zenon DEF CloseMoves
<1>7. /\ link' \in {"none", "up", "down"} /\ pending' \in Nat /\ write_queue' \in Seq(Nat)
  BY <1>1 DEF IInv, Types
<1>8. /\ StrandOK' /\ OpsOK' /\ Types' /\ Flags' /\ Retrying' /\ Bounded'
      /\ Callbacks' /\ Closing'
      /\ generation' = generation /\ state' = state /\ Moves(op, op, "none")
      /\ Cardinality(Inside') = Cardinality(Inside) /\ Cardinality(Inside) \in Nat
      /\ NoneFailed(strand, generation) => NoneFailed(strand', generation)
  BY <1>1, <1>2, <1>3, <1>6, <1>7, QuietMoves
<1>9. /\ Cardinality(Places(strand', Starts)) = Cardinality(Places(strand, Starts))
      /\ Cardinality(Places(strand', Sends)) = Cardinality(Places(strand, Sends))
      /\ Attempting(strand', ops', generation) = Attempting(strand, ops, generation)
      /\ Fly(strand', ops', "write", generation) = Fly(strand, ops, "write", generation)
  BY <1>2, <1>8 DEF Moves, Moved
<1>10. /\ Fly(strand', ops', "read", generation) + (IF op = "read" THEN 1 ELSE 0)
             = Fly(strand, ops, "read", generation)
       /\ Fly(strand', ops', "close", generation) + (IF op = "close" THEN 1 ELSE 0)
             = Fly(strand, ops, "close", generation)
       /\ Fly(strand', ops', "read", generation) \in Nat
       /\ Fly(strand', ops', "close", generation) \in Nat
  BY <1>2, <1>8 DEF Moves, Moved
<1>11. stop_requested = TRUE /\ stop_requested' = TRUE /\ state' = "closing"
  <2>1. stop_requested = TRUE
    BY <1>1 DEF IInv, Flow
  <2>2. stop_requested' = TRUE
    BY <1>1, <2>1, Zenon
  <2> QED BY <1>1, <1>8, <2>1, <2>2
<1>12. /\ Fly(strand, ops, "read", generation) = IF read_done = FALSE THEN 1 ELSE 0
       /\ Fly(strand, ops, "close", generation) = IF close_done = FALSE THEN 1 ELSE 0
       /\ Cardinality(Places(strand, Starts)) = 0
       /\ Attempting(strand, ops, generation) = 0
  BY <1>1 DEF IInv, Flow, In, Count, Flag
<1>13. Flow'
  <2>1. CASE op = "read"
    <3>1. /\ read_done' = TRUE /\ close_done = FALSE /\ close_done' = FALSE
          /\ read_done = FALSE
      <4>1. op # "close" BY <2>1
      <4>2. read_done' = TRUE /\ close_done' = close_done /\ ~close_done
        BY <1>1, <4>1, Zenon
      <4>3. close_done = FALSE
        BY <1>4, <4>2, Zenon
      <4>4. close_done' = FALSE
        BY <4>2, <4>3, Zenon
      <4> QED BY <1>3, <2>1, <4>2, <4>3, <4>4
    <3>2. /\ Fly(strand', ops', "read", generation) = 0
          /\ Fly(strand', ops', "close", generation) = 1
      BY <1>10, <1>12, <2>1, <3>1
    <3> QED BY <1>8, <1>9, <1>11, <1>12, <3>1, <3>2 DEF Flow, In, Count, Flag
  <2>2. CASE op = "close"
    <3>1. /\ close_done' = TRUE /\ read_done = FALSE /\ read_done' = FALSE
          /\ close_done = FALSE
      <4>1. op # "read" BY <2>2
      <4>2. close_done' = TRUE /\ read_done' = read_done /\ ~read_done
        BY <1>1, <4>1, Zenon
      <4>3. read_done = FALSE
        BY <1>5, <4>2, Zenon
      <4>4. read_done' = FALSE
        BY <4>2, <4>3, Zenon
      <4> QED BY <1>3, <2>2, <4>2, <4>3, <4>4
    <3>2. /\ Fly(strand', ops', "read", generation) = 1
          /\ Fly(strand', ops', "close", generation) = 0
      BY <1>10, <1>12, <2>2, <3>1
    <3> QED BY <1>8, <1>9, <1>11, <1>12, <3>1, <3>2 DEF Flow, In, Count, Flag
  <2> QED BY <2>1, <2>2
<1>14. Writing'
  BY <1>1, <1>8, <1>9 DEF IInv, Writing, In
<1>15. Pending' /\ Limits'
  BY <1>1, <1>8, <1>9, QueueKept
<1> QED BY <1>8, <1>13, <1>14, <1>15, FromNumbers

(***************************************************************************)
(* An attempt or a connection is over                                      *)
(***************************************************************************)
LEMMA Outcome ==
    ASSUME IInv, NEW events,
           \/ /\ state = "connecting"
              /\ events \in {<<>>, <<Call("error")>>, <<Call("rejected")>>}
           \/ /\ state \in {"open", "closing"}
              /\ events \in {<<Call("close")>>, <<Call("error"), Call("close")>>},
           \/ stop(events)
           \/ scheduleRetry(events) /\ events \notin {<<>>, <<Call("rejected")>>}
    PROVE  /\ calls' \in Seq(Events) /\ Ordered(calls') /\ ~IsUp(calls')
           /\ connected' = FALSE
           /\ \/ /\ state' = "stopped" /\ timer' = timer
                 /\ \/ failures' = failures
                    \/ failures' = failures + 1 /\ failures = max_attempts
              \/ /\ state' = "waiting" /\ timer' = TRUE
                 /\ state # "closing" /\ ~stop_requested
                 /\ failures' = failures + 1
                 /\ max_attempts > 0 => failures' <= max_attempts
                 /\ Going(calls', failures')
<1>1. /\ failures \in Nat /\ max_attempts \in Nat /\ Going(calls, failures)
      /\ calls \in Seq(Events) /\ (IsUp(calls) <=> state \in {"open", "closing"})
      /\ max_attempts > 0 => failures <= max_attempts
      /\ state = "closing" => stop_requested
  <2>1. state = "closing" => stop_requested = TRUE
    BY DEF IInv, Flow
  <2> QED BY <2>1, ClientAssumption DEF IInv, Types, Callbacks, Bounded
<1>2. \/ ~IsUp(calls) /\ events \in {<<>>, <<Call("error")>>, <<Call("rejected")>>}
      \/ IsUp(calls) /\ events \in {<<Call("close")>>, <<Call("error"), Call("close")>>}
  BY <1>1
<1>3. /\ Going(calls \o events, failures) /\ ~IsUp(calls \o events)
      /\ events \notin {<<>>, <<Call("rejected")>>}
             /\ (max_attempts > 0 => failures + 1 <= max_attempts)
            => LET d == calls \o (events \o <<Reconnecting(failures + 1)>>)
               IN  Going(d, failures + 1) /\ ~IsUp(d)
      /\ failures = max_attempts /\ max_attempts > 0
            => LET d == calls \o (events \o <<Call("gave_up")>>)
               IN  d \in Seq(Events) /\ Ordered(d) /\ ~IsUp(d)
  BY <1>1, <1>2, OverCalls
<1>4. /\ events \in Seq(Events) /\ events # <<Call("open")>>
      /\ \A x \in Events : x # Call("open") => events \o <<x>> # <<Call("open")>>
      /\ Call("gave_up") \in Events /\ Call("gave_up") # Call("open")
      /\ Reconnecting(failures + 1) \in Events /\ Reconnecting(failures + 1) # Call("open")
  <2>1. /\ Call("error") \in Events /\ Call("rejected") \in Events /\ Call("close") \in Events
        /\ Call("gave_up") \in Events
        /\ Call("error") # Call("open") /\ Call("rejected") # Call("open")
        /\ Call("close") # Call("open") /\ Call("gave_up") # Call("open")
    BY DEF Call, Events
  <2>2. /\ Reconnecting(failures + 1) \in Events
        /\ Reconnecting(failures + 1) # Call("open")
    <3>1. failures + 1 \in Nat \ {0}
      BY <1>1
    <3> QED BY <3>1, DelaysDouble DEF Reconnecting, Call, Events
  <2>3. \A x, y \in Events : <<x>> \in Seq(Events) /\ <<x, y>> \in Seq(Events)
    OBVIOUS
  <2>4. <<>> \in Seq(Events)
    OBVIOUS
  <2>5. events \in Seq(Events)
    BY <2>1, <2>3, <2>4, Zenon
  <2>6. events # <<Call("open")>>
    BY <2>1
  <2>7. ASSUME NEW x \in Events, x # Call("open") PROVE events \o <<x>> # <<Call("open")>>
    <3> DEFINE b == events \o <<x>>
               y == Call("open")
    <3>1. Len(events) \in Nat /\ Len(b) = Len(events) + 1 /\ b[Len(events) + 1] = x
      BY <2>5
    <3>2. x # y
      BY <2>7
    <3> HIDE DEF b, y
    <3>3. Len(<<y>>) = 1 /\ <<y>>[1] = y
      OBVIOUS
    <3>4. b # <<y>>
      BY <3>1, <3>2, <3>3
    <3> QED BY <3>4 DEF b, y
  <2> QED BY <2>1, <2>2, <2>5, <2>6, <2>7
<1>5. state # "stopped"
  OBVIOUS
<1>6. CASE stop(events)
  <2>1. /\ deliver(events) /\ state' = "stopped" /\ connected' = FALSE
        /\ failures' = failures /\ timer' = timer
    BY <1>6, Zenon DEF stop
  <2>2. calls' = calls \o events
    BY <1>4, <1>5, <2>1 DEF deliver
  <2>3. calls' \in Seq(Events) /\ Ordered(calls') /\ ~IsUp(calls')
    BY <1>3, <2>2 DEF Going
  <2> QED BY <2>1, <2>3, Zenon
<1>7. CASE /\ scheduleRetry(events) /\ events \notin {<<>>, <<Call("rejected")>>}
           /\ ~stop(events)
  <2>1. /\ failures' = failures + 1 /\ connected' = FALSE /\ ~stop_requested
        /\ \/ /\ max_attempts > 0 /\ failures' > max_attempts
              /\ deliver(events \o <<Call("gave_up")>>)
              /\ state' = "stopped" /\ timer' = timer
           \/ /\ ~(max_attempts > 0 /\ failures' > max_attempts)
              /\ deliver(events \o <<Reconnecting(failures')>>)
              /\ state' = "waiting" /\ timer' = TRUE
    BY <1>7, Zenon DEF scheduleRetry
  <2>2. CASE /\ max_attempts > 0 /\ failures' > max_attempts
             /\ deliver(events \o <<Call("gave_up")>>)
             /\ state' = "stopped" /\ timer' = timer
    <3>1. failures = max_attempts
      BY <1>1, <2>1, <2>2
    <3>2. calls' = calls \o (events \o <<Call("gave_up")>>)
      BY <1>4, <1>5, <2>2 DEF deliver
    <3>3. calls' \in Seq(Events) /\ Ordered(calls') /\ ~IsUp(calls')
      BY <1>3, <2>2, <3>1, <3>2
    <3> QED BY <2>1, <2>2, <3>1, <3>3, Zenon
  <2>3. CASE /\ ~(max_attempts > 0 /\ failures' > max_attempts)
             /\ deliver(events \o <<Reconnecting(failures')>>)
             /\ state' = "waiting" /\ timer' = TRUE
    <3>1. max_attempts > 0 => failures + 1 <= max_attempts
      BY <1>1, <2>1, <2>3
    <3>2. calls' = calls \o (events \o <<Reconnecting(failures + 1)>>)
      <4>1. deliver(events \o <<Reconnecting(failures + 1)>>)
        BY <2>1, <2>3
      <4> QED BY <1>4, <1>5, <4>1 DEF deliver
    <3>3. Going(calls', failures + 1) /\ ~IsUp(calls')
      BY <1>3, <1>7, <3>1, <3>2
    <3>4. calls' \in Seq(Events) /\ Ordered(calls')
      BY <3>3 DEF Going
    <3>5. state # "closing"
      BY <1>1, <2>1
    <3>6. (max_attempts > 0 => failures' <= max_attempts) /\ Going(calls', failures')
      BY <2>1, <3>1, <3>3
    <3> QED BY <2>1, <2>3, <3>3, <3>4, <3>5, <3>6, Zenon
  <2> QED BY <2>1, <2>2, <2>3
<1> QED BY <1>6, <1>7
\* The completion op ends the attempt or the connection.
LEMMA OverKeeps ==
    ASSUME IInv, NEW op \in Steps \cup {"read", "close"}, Completed(op),
           op = "close" => read_done = TRUE,
           NEW events,
           \/ /\ state = "connecting"
              /\ events \in {<<>>, <<Call("error")>>, <<Call("rejected")>>}
           \/ /\ state \in {"open", "closing"}
              /\ events \in {<<Call("close")>>, <<Call("error"), Call("close")>>},
           \/ stop(events)
           \/ scheduleRetry(events) /\ events \notin {<<>>, <<Call("rejected")>>},
           generation' = generation, ops' = ops, link' = link, opens' = opens,
           stop_requested' = stop_requested, asked' = asked,
           requested_code' = requested_code,
           close_done' \in BOOLEAN, read_done' \in BOOLEAN,
           state = "closing" \/ (close_done' = close_done /\ read_done' = read_done),
           write_queue' = <<>>, pending' = pending - Len(write_queue)
    PROVE  IInv'
<1>1. /\ op \in OpNames /\ op \notin {"none", "send", "start", "retry", "write"}
      /\ "none" \notin Steps /\ "read" \notin Steps /\ "close" \notin Steps
  BY DEF OpNames, Steps
<1>2. /\ Runs(op) /\ Head(strand).gen = generation
      /\ op \in Steps => state = "connecting"
      /\ op = "read" => \/ state = "open"
                        \/ state = "closing" /\ read_done = FALSE
      /\ op = "close" => state = "closing"
      /\ state \in {"connecting", "open", "closing"}
  BY <1>1, CompletedFacts
<1>3. /\ strand # <<>> /\ strand' = Tail(strand) /\ request' = request
      /\ closed' = closed /\ destroyer' = destroyer
      /\ handle' = handle /\ sender' = sender /\ Inside' = Inside
      /\ Head(strand).op = op /\ generation \in Nat
  BY <1>2, RunsFacts
<1>4. /\ calls' \in Seq(Events) /\ Ordered(calls') /\ ~IsUp(calls')
      /\ connected' = FALSE
      /\ \/ /\ state' = "stopped" /\ timer' = timer
            /\ \/ failures' = failures
               \/ failures' = failures + 1 /\ failures = max_attempts
         \/ /\ state' = "waiting" /\ timer' = TRUE
            /\ state # "closing" /\ ~stop_requested
            /\ failures' = failures + 1
            /\ max_attempts > 0 => failures' <= max_attempts
            /\ Going(calls', failures')
  BY Outcome
<1>5. StrandOK /\ OpsOK
  BY DEF IInv
<1>6. /\ StrandOK' /\ OpsOK' /\ Moves(op, op, "none")
  BY <1>1, <1>2, <1>3, <1>5, HandlerMoves
<1>7. /\ Cardinality(Places(strand', Expired)) = 0 /\ timer = FALSE
      /\ Accepted(strand', generation) => Accepted(strand, generation)
  <2>1. /\ Cardinality(Places(strand, Expired))
              = Cardinality(Places(strand', Expired))
                + Flag(Head(strand).op = "retry" /\ Head(strand).arg = "ok")
        /\ Cardinality(Places(strand', Expired)) \in Nat
        /\ Accepted(strand', generation) => Accepted(strand, generation)
    BY <1>3, <1>5, TaskTaken DEF Flag
  <2>2. Flag(Head(strand).op = "retry" /\ Head(strand).arg = "ok") = 0
    BY <1>1, <1>3 DEF Flag
  <2>3. Cardinality(Places(strand, Expired)) = 0 /\ timer = FALSE
    BY <1>2 DEF IInv, Retrying, Count
  <2> HIDE DEF Flag
  <2> QED BY <2>1, <2>2, <2>3
<1>8. /\ failures \in Nat /\ failures' \in Nat /\ max_attempts \in Nat /\ opens \in Nat
      /\ state' \in {"stopped", "waiting"}
  BY <1>4, ClientAssumption DEF IInv, Types
<1>9. pending' \in Nat /\ Pending' /\ Limits'
  <2>1. /\ pending = Cardinality(Inside) + Cardinality(Places(strand, Sends))
                        + Len(write_queue)
        /\ pending \in Nat /\ Len(write_queue) \in Nat /\ pending <= send_queue_limit
        /\ send_queue_limit \in Nat
    BY ClientAssumption DEF IInv, Types, Pending, Limits, Count
  <2>2. Cardinality(Inside) \in Nat
    <3>1. Inside \subseteq Senders
      BY DEF Inside
    <3> QED BY <3>1, InsideFinite
  <2>3. /\ Cardinality(Places(strand', Sends)) = Cardinality(Places(strand, Sends))
        /\ Cardinality(Places(strand', Sends)) \in Nat
    BY <1>1, <1>6 DEF Moves
  <2>4. Len(write_queue') = 0
    OBVIOUS
  <2>5. /\ pending' = Cardinality(Inside) + Cardinality(Places(strand', Sends))
        /\ pending' \in Nat /\ pending' <= send_queue_limit
    BY <2>1, <2>2, <2>3
  <2> QED BY <1>3, <2>2, <2>3, <2>4, <2>5 DEF Pending, Limits, Count
<1>10. Types'
  <2>1. write_queue' \in Seq(Nat) /\ state' \in States
    BY <1>8 DEF States
  <2> QED BY <1>3, <1>4, <1>8, <1>9, <2>1 DEF IInv, Types
<1>11. Flags'
  <2>1. timer' \in BOOLEAN
    BY <1>4, <1>7, Zenon
  <2>2. connected' \in BOOLEAN
    BY <1>4, Zenon
  <2> QED BY <1>3, <2>1, <2>2, Zenon DEF IInv, Flags
<1>12. /\ Attempting(strand', ops', generation) = 0
       /\ Fly(strand', ops', "read", generation) = 0
       /\ Fly(strand', ops', "write", generation) = Fly(strand, ops, "write", generation)
       /\ state # "closing" => Fly(strand', ops', "close", generation) = 0
       /\ Cardinality(Places(strand', Starts)) = 0
  <2>1. /\ Attempting(strand, ops, generation) = IF state = "connecting" THEN 1 ELSE 0
        /\ Fly(strand, ops, "read", generation)
              = IF state = "open" \/ (state = "closing" /\ read_done = FALSE) THEN 1 ELSE 0
        /\ state # "closing" => Fly(strand, ops, "close", generation) = 0
        /\ Cardinality(Places(strand, Starts)) = 0
    BY <1>2 DEF IInv, Flow, In, Count, Flag
  <2>2. op = "close" => ~(read_done = FALSE)
    OBVIOUS
  <2> QED BY <1>1, <1>2, <1>6, <2>1, <2>2 DEF Moves, Moved
<1>13. Flow'
  <2>1. state' = "waiting" => close_done' = FALSE /\ read_done' = FALSE
    <3> SUFFICES ASSUME state' = "waiting" PROVE close_done' = FALSE /\ read_done' = FALSE
      OBVIOUS
    <3>1. state # "closing"
      BY <1>4
    <3>2. close_done = FALSE /\ read_done = FALSE
      BY <1>2, <3>1 DEF IInv, Flow
    <3> QED BY <3>1, <3>2, Zenon
  <2>2. state' = "waiting" => state # "closing"
    BY <1>4
  <2> QED BY <1>8, <1>12, <2>1, <2>2 DEF Flow, In, Count, Flag
<1>14. Retrying'
  <2>1. \/ state' = "stopped" /\ timer' = FALSE
        \/ state' = "waiting" /\ timer' = TRUE
    BY <1>4, <1>7, Zenon
  <2> QED BY <1>7, <2>1 DEF Retrying, Count, Flag
<1>15. Writing'
  <2>1. Fly(strand', ops', "write", generation) <= 1
    BY <1>12 DEF IInv, Writing, In
  <2>2. Len(write_queue') = 0
    OBVIOUS
  <2> QED BY <1>8, <2>1, <2>2 DEF Writing, In
<1>16. Bounded'
  <2> DEFINE X == opens * (max_attempts + 1)
  <2>1. X \in Nat
    BY <1>8, OneMoreOpen
  <2>2. max_attempts > 0 => /\ failures <= max_attempts /\ generation <= X + failures + 1
                            /\ Accepted(strand, generation) => generation <= X
    <3>1. /\ max_attempts > 0 => /\ failures <= max_attempts
                                 /\ generation <= X + failures + Flag(state = "connecting")
                                 /\ Accepted(strand, generation) => generation <= X
      BY <1>2 DEF IInv, Bounded
    <3>2. Flag(state = "connecting") \in {0, 1}
      BY DEF Flag
    <3> HIDE DEF X, Flag
    <3> QED BY <1>3, <1>8, <2>1, <3>1, <3>2
  <2> HIDE DEF X
  <2>3. max_attempts > 0 =>
           /\ state' = "stopped" => /\ failures' <= max_attempts + 1
                                    /\ generation <= X + max_attempts + 1
           /\ state' # "stopped" => /\ failures' <= max_attempts
                                    /\ generation <= X + failures'
                                    /\ Accepted(strand', generation) => generation <= X
    <3>1. \/ /\ state' = "stopped"
             /\ \/ failures' = failures
                \/ failures' = failures + 1 /\ failures = max_attempts
          \/ /\ state' = "waiting" /\ failures' = failures + 1
             /\ max_attempts > 0 => failures' <= max_attempts
      BY <1>4, Zenon
    <3>2. generation \in Nat /\ (Accepted(strand', generation) => Accepted(strand, generation))
      BY <1>3, <1>7
    <3>3. ASSUME max_attempts > 0, state' = "stopped"
          PROVE  failures' <= max_attempts + 1 /\ generation <= X + max_attempts + 1
      <4>1. failures <= max_attempts /\ generation <= X + failures + 1
        BY <2>2, <3>3
      <4>2. failures' = failures \/ failures' = failures + 1
        BY <3>1
      <4> QED BY <1>8, <2>1, <3>2, <4>1, <4>2
    <3>4. ASSUME max_attempts > 0, state' # "stopped"
          PROVE  /\ failures' <= max_attempts /\ generation <= X + failures'
                 /\ Accepted(strand', generation) => generation <= X
      <4>1. generation <= X + failures + 1 /\ failures' = failures + 1
            /\ failures' <= max_attempts
        BY <2>2, <3>1, <3>4
      <4>2. X + failures + 1 = X + failures'
        BY <1>8, <2>1, <4>1
      <4>3. Accepted(strand', generation) => generation <= X
        BY <2>2, <3>2, <3>4
      <4> QED BY <4>1, <4>2, <4>3
    <3> QED BY <3>3, <3>4
  <2>4. Flag(state' = "connecting") = 0
    BY <1>8 DEF Flag
  <2>5. X + failures' + 0 = X + failures'
    BY <1>8, <2>1
  <2> HIDE DEF Flag
  <2> QED BY <2>3, <2>4, <2>5 DEF Bounded, X
<1>17. Callbacks'
  <2>1. ~(connected' = TRUE)
    BY <1>4, Zenon
  <2>2. state' # "stopped" => Going(calls', failures')
    BY <1>4
  <2> QED BY <1>4, <1>8, <2>1, <2>2 DEF Callbacks
<1>18. Closing'
  BY DEF IInv, Closing
<1> QED BY <1>6, <1>9, <1>10, <1>11, <1>13, <1>14, <1>15, <1>16, <1>17, <1>18 DEF IInv

\* An attempt fails, or the server declines it.
LEMMA FailedKeeps ==
    IInv /\ ((\E step \in Steps : OnStepFailed(step)) \/ OnConnectNoSni \/ OnDeclined) => IInv'
<1> SUFFICES ASSUME IInv,
                    (\E step \in Steps : OnStepFailed(step)) \/ OnConnectNoSni \/ OnDeclined
             PROVE  IInv'
  OBVIOUS
<1>1. PICK op \in Steps :
          /\ Completed(op) /\ (attemptFailed \/ OnDeclined)
          /\ generation' = generation /\ ops' = ops /\ link' = link /\ opens' = opens
          /\ stop_requested' = stop_requested /\ asked' = asked
          /\ requested_code' = requested_code
          /\ close_done' = close_done /\ read_done' = read_done
          /\ write_queue' = write_queue /\ pending' = pending
  BY Zenon DEF OnStepFailed, OnConnectNoSni, OnDeclined, queueVars, closeVars, streamVars, Steps
<1>2. /\ op \in OpNames /\ op \in Steps \cup {"read", "close"} /\ op # "close"
  BY DEF OpNames, Steps
<1>3. state = "connecting"
  BY <1>1, <1>2, CompletedFacts
<1>4. PICK events \in {<<>>, <<Call("error")>>, <<Call("rejected")>>} :
          \/ stop(events)
          \/ scheduleRetry(events) /\ events \notin {<<>>, <<Call("rejected")>>}
  <2>1. CASE OnDeclined
    BY <2>1, Zenon DEF OnDeclined
  <2>2. CASE attemptFailed
    <3>1. <<Call("error")>> \notin {<<>>, <<Call("rejected")>>}
      BY DEF Call
    <3> QED BY <2>2, <3>1, Zenon DEF attemptFailed
  <2> QED BY <1>1, <2>1, <2>2
<1>5. write_queue = <<>> /\ Len(write_queue) = 0 /\ pending \in Nat
  BY <1>3 DEF IInv, Writing, Types
<1>6. write_queue' = <<>> /\ pending' = pending - Len(write_queue)
  BY <1>1, <1>5
<1>7. close_done' \in BOOLEAN /\ read_done' \in BOOLEAN
  BY <1>1, Zenon DEF IInv, Flags
<1>8. \/ /\ state = "connecting"
         /\ events \in {<<>>, <<Call("error")>>, <<Call("rejected")>>}
      \/ /\ state \in {"open", "closing"}
         /\ events \in {<<Call("close")>>, <<Call("error"), Call("close")>>}
  BY <1>3
<1>9. (op = "close" => read_done = TRUE)
      /\ (state = "closing" \/ (close_done' = close_done /\ read_done' = read_done))
  BY <1>1, <1>2, Zenon
<1> QED BY <1>1, <1>2, <1>4, <1>6, <1>7, <1>8, <1>9, OverKeeps

\* A connection ends: by the peer, with an error, or with the second half of our own close.
LEMMA EndedKeeps ==
    ASSUME IInv, \/ Ended \/ (EndedOwnClose /\ close_done) \/ (OnClose /\ read_done)
    PROVE  IInv'
<1>1. PICK op \in {"read", "close"}, before \in {<<>>, <<Call("error")>>} :
          /\ Completed(op) /\ closedNow(before)
          /\ generation' = generation /\ ops' = ops /\ link' = link /\ opens' = opens
          /\ stop_requested' = stop_requested /\ asked' = asked
          /\ requested_code' = requested_code
          /\ close_done' = close_done \/ close_done' = TRUE
          /\ read_done' = read_done \/ read_done' = TRUE
          /\ \/ state = "closing"
             \/ op = "close"
             \/ close_done' = close_done /\ read_done' = read_done
          /\ op = "close" => read_done
  <2>1. CASE Ended
    BY <2>1, Zenon DEF Ended, closeVars, streamVars
  <2>2. CASE EndedOwnClose /\ close_done
    BY <2>2, Zenon DEF EndedOwnClose, streamVars
  <2>3. CASE OnClose /\ read_done
    BY <2>3, Zenon DEF OnClose, streamVars
  <2> QED BY <2>1, <2>2, <2>3
<1>2. op \in OpNames /\ op \in Steps \cup {"read", "close"}
  BY DEF OpNames
<1>3. state \in {"open", "closing"} /\ (op = "close" => state = "closing")
  BY <1>1, <1>2, CompletedFacts
<1> DEFINE events == before \o <<Call("close")>>
<1>4. events \in {<<Call("close")>>, <<Call("error"), Call("close")>>}
  <2>1. \A x : <<>> \o <<x>> = <<x>>
    OBVIOUS
  <2>2. \A x, y \in Events : <<y>> \o <<x>> = <<y, x>>
    <3> TAKE x, y \in Events
    <3>1. <<y>> \in Seq(Events) /\ <<x>> \in Seq(Events) /\ <<y, x>> \in Seq(Events)
      OBVIOUS
    <3> DEFINE b == <<y>> \o <<x>>
    <3>2. Len(b) = 2 /\ b[1] = y /\ b[2] = x /\ b \in Seq(Events)
      BY <3>1
    <3> DEFINE c == <<y, x>>
    <3>3. Len(c) = 2 /\ c[1] = y /\ c[2] = x /\ c \in Seq(Events)
      BY <3>1
    <3> HIDE DEF b, c
    <3>4. \A i \in 1 .. Len(b) : b[i] = c[i]
      BY <3>2, <3>3
    <3>5. b = c
      BY <3>2, <3>3, <3>4
    <3> QED BY <3>5 DEF b, c
  <2>3. Call("error") \in Events /\ Call("close") \in Events
    BY DEF Call, Events
  <2> QED BY <2>1, <2>2, <2>3
<1>5. events \notin {<<>>, <<Call("rejected")>>}
  BY <1>4 DEF Call
<1>6. /\ write_queue' = <<>> /\ pending' = pending - Len(write_queue)
      /\ stop(events) \/ scheduleRetry(events)
  BY <1>1, Zenon DEF closedNow, dropQueue
<1> HIDE DEF events
<1>7. close_done' \in BOOLEAN /\ read_done' \in BOOLEAN
  <2>1. close_done \in BOOLEAN /\ read_done \in BOOLEAN
    BY Zenon DEF IInv, Flags
  <2>2. close_done' \in BOOLEAN
    BY <1>1, <2>1, Zenon
  <2>3. read_done' \in BOOLEAN
    BY <1>1, <2>1, Zenon
  <2> QED BY <2>2, <2>3
<1>8. \/ /\ state = "connecting"
         /\ events \in {<<>>, <<Call("error")>>, <<Call("rejected")>>}
      \/ /\ state \in {"open", "closing"}
         /\ events \in {<<Call("close")>>, <<Call("error"), Call("close")>>}
  BY <1>3, <1>4
<1>9. op = "close" => read_done = TRUE
  <2>1. read_done \in BOOLEAN
    BY Zenon DEF IInv, Flags
  <2> QED BY <1>1, <2>1, Zenon
<1>10. state = "closing" \/ (close_done' = close_done /\ read_done' = read_done)
  BY <1>1, <1>3, Zenon
<1>11. \/ stop(events)
       \/ scheduleRetry(events) /\ events \notin {<<>>, <<Call("rejected")>>}
  BY <1>5, <1>6
<1> QED BY <1>1, <1>2, <1>6, <1>7, <1>8, <1>9, <1>10, <1>11, OverKeeps

(***************************************************************************)
(* An attempt starts, or is not made any more                              *)
(***************************************************************************)
\* What holds when start() or the retry timer's handler runs.
LEMMA BeforeAttempt ==
    ASSUME IInv, NEW op \in {"start", "retry"}, Runs(op),
           op = "retry" => state = "waiting" /\ Head(strand).arg = "ok"
    PROVE  /\ state \in {"idle", "waiting"} /\ timer = FALSE
           /\ Cardinality(Places(strand', Expired)) = 0
           /\ Cardinality(Places(strand', Starts)) = 0
           /\ close_done = FALSE /\ read_done = FALSE /\ write_queue = <<>>
           /\ connected = FALSE /\ ~IsUp(calls) /\ Going(calls, failures)
<1>1. /\ strand # <<>> /\ strand' = Tail(strand) /\ Head(strand).op = op
  BY RunsFacts
<1>2. StrandOK /\ OpsOK
  BY DEF IInv
<1> DEFINE expired == Head(strand).op = "retry" /\ Head(strand).arg = "ok"
<1>3. /\ Cardinality(Places(strand, Expired)) = Cardinality(Places(strand', Expired))
                                                    + Flag(expired)
      /\ Cardinality(Places(strand, Starts)) = Cardinality(Places(strand', Starts))
                                                    + Flag(Head(strand).op = "start")
      /\ Cardinality(Places(strand', Expired)) \in Nat
      /\ Cardinality(Places(strand', Starts)) \in Nat
  BY <1>1, <1>2, TaskTaken DEF Flag
<1>4. /\ Cardinality(Places(strand, Starts)) = IF state = "idle" THEN 1 ELSE 0
      /\ state = "waiting" => Flag(timer = TRUE) + Cardinality(Places(strand, Expired)) = 1
      /\ state # "waiting" => timer = FALSE
      /\ state \notin {"waiting", "stopped"} => Cardinality(Places(strand, Expired)) = 0
  BY DEF IInv, Flow, Retrying, Count, Flag
<1>5. /\ Flag(expired) = (IF op = "retry" THEN 1 ELSE 0)
      /\ Flag(Head(strand).op = "start") = (IF op = "start" THEN 1 ELSE 0)
  BY <1>1 DEF Flag
<1> HIDE DEF expired
<1>6. Flag(timer = TRUE) = IF timer = TRUE THEN 1 ELSE 0
  BY DEF Flag
<1> HIDE DEF Flag
<1>7. /\ state = IF op = "start" THEN "idle" ELSE "waiting"
      /\ Cardinality(Places(strand', Starts)) = 0
  BY <1>3, <1>4, <1>5
<1>8. ~(timer = TRUE) /\ Cardinality(Places(strand', Expired)) = 0
  <2>1. CASE op = "start"
    BY <1>3, <1>4, <1>5, <1>7, <2>1
  <2>2. CASE op = "retry"
    <3>1. Flag(timer = TRUE) + Cardinality(Places(strand, Expired)) = 1
      BY <1>4, <1>7, <2>2
    <3>2. Cardinality(Places(strand, Expired)) = Cardinality(Places(strand', Expired)) + 1
      BY <1>3, <1>5, <2>2
    <3>3. Flag(timer = TRUE) \in {0, 1} /\ (timer = TRUE => Flag(timer = TRUE) = 1)
      BY <1>6
    <3> QED BY <1>3, <3>1, <3>2, <3>3
  <2> QED BY <2>1, <2>2
<1>9. timer = FALSE
  <2>1. timer \in BOOLEAN
    BY Zenon DEF IInv, Flags
  <2> QED BY <1>8, <2>1, Zenon
<1>10. close_done = FALSE /\ read_done = FALSE /\ write_queue = <<>>
  BY <1>7 DEF IInv, Flow, Writing
<1>11. ~(connected = TRUE) /\ ~IsUp(calls) /\ Going(calls, failures)
  BY <1>7 DEF IInv, Callbacks
<1>12. connected = FALSE
  <2>1. connected \in BOOLEAN
    BY Zenon DEF IInv, Flags
  <2> QED BY <1>11, <2>1, Zenon
<1> QED BY <1>7, <1>8, <1>9, <1>10, <1>11, <1>12

\* An invalid URL, or close() before: the end.
LEMMA NotAttempted ==
    ASSUME IInv, NEW op \in {"start", "retry"}, Runs(op),
           op = "retry" => state = "waiting" /\ Head(strand).arg = "ok",
           NEW events \in {<<>>, <<Call("error")>>}, stop(events),
           generation' = generation, ops' = ops, link' = link, opens' = opens,
           pending' = pending, write_queue' = write_queue, SameClose
    PROVE  IInv'
<1>1. /\ strand # <<>> /\ strand' = Tail(strand) /\ request' = request
      /\ closed' = closed /\ destroyer' = destroyer
      /\ handle' = handle /\ sender' = sender /\ Inside' = Inside
      /\ Head(strand).op = op /\ generation \in Nat
  BY RunsFacts
<1>2. /\ state \in {"idle", "waiting"} /\ timer = FALSE
      /\ Cardinality(Places(strand', Starts)) = 0
      /\ close_done = FALSE /\ read_done = FALSE /\ write_queue = <<>>
      /\ ~IsUp(calls) /\ Going(calls, failures)
  BY BeforeAttempt
<1>3. /\ deliver(events) /\ state' = "stopped" /\ connected' = FALSE
      /\ failures' = failures /\ timer' = FALSE
  BY <1>2, Zenon DEF stop
<1>4. calls' \in Seq(Events) /\ Ordered(calls') /\ ~IsUp(calls')
  <2>1. failures \in Nat /\ calls \in Seq(Events)
    BY DEF IInv, Types
  <2>2. events # <<Call("open")>>
    BY DEF Call
  <2>3. calls' = calls \o events
    BY <1>2, <1>3, <2>1, <2>2 DEF deliver
  <2>4. \/ ~IsUp(calls) /\ events \in {<<>>, <<Call("error")>>, <<Call("rejected")>>}
        \/ IsUp(calls) /\ events \in {<<Call("close")>>, <<Call("error"), Call("close")>>}
    BY <1>2
  <2>5. Going(calls \o events, failures) /\ ~IsUp(calls \o events)
    BY <1>2, <2>1, <2>4, OverCalls
  <2> QED BY <2>3, <2>5 DEF Going
<1>5. StrandOK /\ OpsOK
  BY DEF IInv
<1>6. op \notin OpNames /\ op # "send" /\ "none" \notin Steps
  BY DEF OpNames, Steps
<1>7. StrandOK' /\ OpsOK' /\ Moves(op, "none", "none")
  BY <1>1, <1>5, <1>6, HandlerMoves
<1>8. Types'
  BY <1>1, <1>3, <1>4 DEF IInv, Types, States, SameClose
<1>9. Flags'
  BY <1>1, <1>3, Zenon DEF IInv, Flags, SameClose
<1>10. Flow'
  <2>1. /\ Attempting(strand, ops, generation) = 0
        /\ Fly(strand, ops, "read", generation) = 0
    BY <1>2 DEF IInv, Flow, In, Flag
  <2>2. /\ Attempting(strand', ops', generation) = 0
        /\ Fly(strand', ops', "read", generation) = 0
    BY <1>6, <1>7, <2>1 DEF Moves, Moved
  <2> QED BY <1>2, <1>3, <2>2 DEF Flow, In, Count, Flag
<1>11. Retrying'
  BY <1>3 DEF Retrying
<1>12. Writing'
  <2>1. Fly(strand', ops', "write", generation) = Fly(strand, ops, "write", generation)
    BY <1>6, <1>7 DEF Moves, Moved
  <2>2. Fly(strand', ops', "write", generation) <= 1
    BY <2>1 DEF IInv, Writing, In
  <2>3. Len(write_queue') = 0 /\ write_queue' = <<>>
    BY <1>2
  <2> QED BY <1>3, <2>2, <2>3 DEF Writing, In
<1>13. Pending' /\ Limits'
  <2>1. Cardinality(Places(strand', Sends)) = Cardinality(Places(strand, Sends))
    BY <1>6, <1>7 DEF Moves
  <2> QED BY <1>1, <2>1 DEF IInv, Pending, Limits, Count
<1>14. Bounded'
  <2> DEFINE X == opens * (max_attempts + 1)
  <2>1. failures \in Nat /\ max_attempts \in Nat /\ opens \in Nat
    BY ClientAssumption DEF IInv, Types
  <2>2. X \in Nat
    BY <2>1, OneMoreOpen
  <2>3. ASSUME max_attempts > 0
        PROVE  failures <= max_attempts /\ generation <= X + failures
    <3>1. /\ failures <= max_attempts
          /\ generation <= X + failures + Flag(state = "connecting")
      BY <1>2, <2>3 DEF IInv, Bounded
    <3>2. Flag(state = "connecting") = 0
      BY <1>2 DEF Flag
    <3> HIDE DEF X, Flag
    <3> QED BY <1>1, <2>1, <2>2, <3>1, <3>2
  <2> HIDE DEF X
  <2>4. max_attempts > 0 => /\ failures <= max_attempts + 1
                            /\ generation <= X + max_attempts + 1
    BY <1>1, <2>1, <2>2, <2>3
  <2> QED BY <1>3, <2>4 DEF Bounded, X
<1>15. Callbacks'
  <2>1. ~(connected' = TRUE)
    BY <1>3, Zenon
  <2> QED BY <1>3, <1>4, <2>1 DEF Callbacks
<1>16. Closing'
  <2>1. asked' = asked /\ stop_requested' = stop_requested
    BY DEF SameClose
  <2> QED BY <2>1 DEF IInv, Closing
<1> QED BY <1>7, <1>8, <1>9, <1>10, <1>11, <1>12, <1>13, <1>14, <1>15, <1>16 DEF IInv

\* Nothing of a later generation is in flight, so an attempt starts with its resolve alone.
LEMMA NewGeneration ==
    ASSUME IInv, strand # <<>>, strand' = Tail(strand), generation' = generation + 1,
           ops' = BagAdd(ops, Op("resolve", generation + 1))
    PROVE  /\ StrandOK' /\ OpsOK' /\ ~Accepted(strand', generation')
           /\ Fly(strand', ops', "resolve", generation') = 1
           /\ \A o : o # "resolve" => Fly(strand', ops', o, generation') = 0
<1> DEFINE q == Tail(strand)
           g == generation + 1
           x == Op("resolve", g)
<1>1. generation \in Nat /\ StrandOK /\ OpsOK /\ g \in Nat
  BY DEF IInv, Types
<1>2. q \in Seq(Tasks) /\ \A i \in 1 .. Len(q) : TaskOK(q[i], generation)
  BY <1>1, TaskTaken
<1>3. IsABag(ops) /\ \A o \in DOMAIN ops : o \in [op : OpNames, gen : 1 .. generation]
  BY <1>1 DEF OpsOK
<1> HIDE DEF q
<1>4. \A i \in 1 .. Len(q) : q[i] \in Tasks /\ q[i].gen \in Nat /\ q[i].gen <= generation
  <2>1. \A i \in 1 .. Len(q) : q[i] \in Tasks
    BY <1>2
  <2>2. \A t \in Tasks : t.gen \in Nat
    BY DEF Tasks
  <2>3. \A i \in 1 .. Len(q) : q[i].gen <= generation
    BY <1>2 DEF TaskOK
  <2> QED BY <2>1, <2>2, <2>3
<1>5. \A i \in 1 .. Len(q) : q[i].gen # g /\ TaskOK(q[i], g)
  <2> SUFFICES ASSUME NEW i \in 1 .. Len(q) PROVE q[i].gen # g /\ TaskOK(q[i], g)
    OBVIOUS
  <2>1. q[i].gen \in Nat /\ q[i].gen <= generation /\ TaskOK(q[i], generation)
    BY <1>2, <1>4
  <2>2. q[i].gen # g /\ q[i].gen <= g
    BY <1>1, <2>1
  <2> QED BY <2>1, <2>2 DEF TaskOK
<1>6. StrandOK'
  BY <1>2, <1>5 DEF StrandOK, q
<1>7. ~Accepted(q, g)
  BY <1>5 DEF Accepted, Task
<1>8. ASSUME NEW o PROVE Fly(q, ops, o, g) = 0
  <2>1. ~BagIn(Op(o, g), ops)
    BY <1>1, <1>3 DEF Op, BagIn, BagToSet
  <2> QED BY <1>2, <1>3, <1>5, <2>1, NoneFly
<1>9. ASSUME NEW o PROVE Fly(q, ops', o, g) = Flag(x = Op(o, g))
  <2>1. Fly(q, ops', o, g) = Fly(q, ops, o, g) + Flag(x = Op(o, g))
    BY <1>2, <1>3, FlyStarts DEF Flag
  <2>2. Flag(x = Op(o, g)) \in Nat
    BY DEF Flag
  <2> HIDE DEF Flag
  <2> QED BY <1>8, <2>1, <2>2
<1>10. \A o : x = Op(o, g) <=> o = "resolve"
  BY DEF Op
<1>11. OpsOK'
  <2>1. x \in [op : OpNames, gen : 1 .. g]
    BY <1>1 DEF Op, OpNames, Steps
  <2>2. IsABag(ops') /\ DOMAIN ops' = DOMAIN ops \cup {x}
    BY <1>3, Added
  <2>3. \A o \in DOMAIN ops : o \in [op : OpNames, gen : 1 .. g]
    BY <1>1, <1>3
  <2> HIDE DEF x
  <2> QED BY <2>1, <2>2, <2>3 DEF OpsOK
<1>12. /\ Fly(q, ops', "resolve", g) = 1
       /\ \A o : o # "resolve" => Fly(q, ops', o, g) = 0
  BY <1>9, <1>10 DEF Flag
<1> QED BY <1>6, <1>7, <1>11, <1>12 DEF q

\* An attempt starts.
LEMMA Attempted ==
    ASSUME IInv, NEW op \in {"start", "retry"}, Runs(op),
           op = "retry" => state = "waiting" /\ Head(strand).arg = "ok",
           state' = "connecting", generation' = generation + 1,
           ops' = BagAdd(ops, Op("resolve", generation + 1)),
           failures' = failures, connected' = connected, timer' = timer, calls' = calls,
           link' = link, opens' = opens, pending' = pending, write_queue' = write_queue,
           SameClose
    PROVE  IInv'
<1>1. /\ strand # <<>> /\ strand' = Tail(strand) /\ request' = request
      /\ closed' = closed /\ destroyer' = destroyer
      /\ handle' = handle /\ sender' = sender /\ Inside' = Inside
      /\ Head(strand).op = op /\ generation \in Nat
  BY RunsFacts
<1>2. /\ state \in {"idle", "waiting"} /\ timer = FALSE
      /\ Cardinality(Places(strand', Expired)) = 0
      /\ Cardinality(Places(strand', Starts)) = 0
      /\ close_done = FALSE /\ read_done = FALSE /\ write_queue = <<>>
      /\ connected = FALSE /\ ~IsUp(calls) /\ Going(calls, failures)
  BY BeforeAttempt
<1>3. /\ StrandOK' /\ OpsOK' /\ ~Accepted(strand', generation')
      /\ Fly(strand', ops', "resolve", generation') = 1
      /\ \A o : o # "resolve" => Fly(strand', ops', o, generation') = 0
  BY <1>1, NewGeneration
<1>4. /\ timer' = FALSE /\ connected' = FALSE /\ close_done' = FALSE /\ read_done' = FALSE
  BY <1>2, Zenon DEF SameClose
<1>5. Types'
  <2>1. generation' \in Nat /\ 0 .. generation \subseteq 0 .. generation'
    BY <1>1
  <2>2. sender' \in [Senders ->
           [at : {"idle", "checked", "reserved", "loaded"}, gen : 0 .. generation']]
    <3>1. [at : {"idle", "checked", "reserved", "loaded"}, gen : 0 .. generation]
            \subseteq [at : {"idle", "checked", "reserved", "loaded"}, gen : 0 .. generation']
      BY <2>1
    <3>2. sender \in [Senders ->
             [at : {"idle", "checked", "reserved", "loaded"}, gen : 0 .. generation]]
      BY DEF IInv, Types
    <3> QED BY <1>1, <3>1, <3>2
  <2>3. state' \in States
    BY DEF States
  <2>4. requested_code' = requested_code /\ asked' = asked
    BY DEF SameClose
  <2> QED BY <1>1, <2>1, <2>2, <2>3, <2>4 DEF IInv, Types
<1>6. Flags'
  BY <1>1, <1>4, Zenon DEF IInv, Flags, SameClose
<1>7. Flow'
  <2>1. Attempting(strand', ops', generation') = 1
    BY <1>3 DEF Attempting
  <2>2. /\ Fly(strand', ops', "read", generation') = 0
        /\ Fly(strand', ops', "close", generation') = 0
    BY <1>3
  <2> QED BY <1>2, <1>4, <2>1, <2>2 DEF Flow, In, Count, Flag
<1>8. Retrying'
  BY <1>2, <1>4 DEF Retrying, Count
<1>9. Writing'
  <2>1. Fly(strand', ops', "write", generation') = 0
    BY <1>3
  <2>2. Len(write_queue') = 0 /\ write_queue' = <<>>
    BY <1>2
  <2> QED BY <2>1, <2>2 DEF Writing, In
<1>10. Pending' /\ Limits'
  <2>1. Cardinality(Places(strand', Sends)) = Cardinality(Places(strand, Sends))
    <3>1. StrandOK /\ OpsOK
      BY DEF IInv
    <3>2. /\ Cardinality(Places(strand, Sends))
                = Cardinality(Places(strand', Sends)) + Flag(Head(strand).op = "send")
          /\ Cardinality(Places(strand', Sends)) \in Nat
      BY <1>1, <3>1, TaskTaken DEF Flag
    <3>3. Flag(Head(strand).op = "send") = 0
      BY <1>1 DEF Flag
    <3> HIDE DEF Flag
    <3> QED BY <3>2, <3>3
  <2> QED BY <1>1, <2>1 DEF IInv, Pending, Limits, Count
<1>11. Bounded'
  <2> DEFINE X == opens * (max_attempts + 1)
  <2>1. failures \in Nat /\ max_attempts \in Nat /\ opens \in Nat
    BY ClientAssumption DEF IInv, Types
  <2>2. X \in Nat
    BY <2>1, OneMoreOpen
  <2>3. ASSUME max_attempts > 0
        PROVE  failures <= max_attempts /\ generation <= X + failures
    <3>1. /\ failures <= max_attempts
          /\ generation <= X + failures + Flag(state = "connecting")
      BY <1>2, <2>3 DEF IInv, Bounded
    <3>2. Flag(state = "connecting") = 0
      BY <1>2 DEF Flag
    <3> HIDE DEF X, Flag
    <3> QED BY <1>1, <2>1, <2>2, <3>1, <3>2
  <2>4. Flag(state' = "connecting") = 1
    BY DEF Flag
  <2> HIDE DEF X, Flag
  <2>5. max_attempts > 0 => generation' <= X + failures + 1
    BY <1>1, <2>1, <2>2, <2>3
  <2> QED BY <1>3, <2>3, <2>4, <2>5 DEF Bounded, X
<1>12. Callbacks'
  <2>1. ~(connected' = TRUE) /\ Ordered(calls)
    BY <1>2, <1>4, Zenon DEF Going
  <2> QED BY <1>2, <2>1 DEF Callbacks
<1>13. Closing'
  <2>1. asked' = asked /\ stop_requested' = stop_requested
    BY DEF SameClose
  <2> QED BY <2>1 DEF IInv, Closing
<1> QED BY <1>3, <1>5, <1>6, <1>7, <1>8, <1>9, <1>10, <1>11, <1>12, <1>13 DEF IInv

\* start() and the retry timer's handler.
LEMMA AttemptKeeps == IInv /\ (Start \/ OnRetry) => IInv'
<1> SUFFICES ASSUME IInv, Start \/ OnRetry PROVE IInv'
  OBVIOUS
<1>1. /\ SameClose /\ link' = link /\ opens' = opens
      /\ pending' = pending /\ write_queue' = write_queue
  BY Zenon DEF Start, OnRetry, SameClose, queueVars, closeVars
<1>2. PICK op \in {"start", "retry"} :
          /\ Runs(op)
          /\ \/ attempt /\ (op = "retry" => state = "waiting" /\ Head(strand).arg # "aborted")
             \/ op = "start" /\ stop(<<Call("error")>>) /\ generation' = generation /\ ops' = ops
             \/ /\ op = "retry" /\ (Head(strand).arg = "aborted" \/ state # "waiting")
                /\ SameLife /\ calls' = calls /\ ops' = ops
  <2>1. CASE Start
    BY <2>1, Zenon DEF Start
  <2>2. CASE OnRetry
    <3>1. opens' = opens
      BY <1>1
    <3> QED BY <2>2, <3>1, Zenon DEF OnRetry, Arg, SameLife, lifeVars
  <2> QED BY <2>1, <2>2
<1>3. op = "retry" => Head(strand).arg \in {"ok", "aborted"}
  BY <1>2, RunsFacts DEF TaskOK
<1>4. CASE attempt /\ (op = "retry" => state = "waiting" /\ Head(strand).arg # "aborted")
  <2>1. op = "retry" => state = "waiting" /\ Head(strand).arg = "ok"
    BY <1>3, <1>4
  <2>2. CASE stop(<<>>) /\ generation' = generation /\ ops' = ops
    <3>1. <<>> \in {<<>>, <<Call("error")>>}
      OBVIOUS
    <3> QED BY <1>1, <1>2, <2>1, <2>2, <3>1, NotAttempted
  <2>3. CASE /\ state' = "connecting" /\ generation' = generation + 1
             /\ ops' = BagAdd(ops, Op("resolve", generation'))
             /\ failures' = failures /\ connected' = connected /\ timer' = timer
             /\ calls' = calls
    <3>1. ops' = BagAdd(ops, Op("resolve", generation + 1))
      BY <2>3
    <3> QED BY <1>1, <1>2, <2>1, <2>3, <3>1, Attempted
  <2> QED BY <1>4, <2>2, <2>3, Zenon DEF attempt
<1>5. CASE op = "start" /\ stop(<<Call("error")>>) /\ generation' = generation /\ ops' = ops
  <2>1. <<Call("error")>> \in {<<>>, <<Call("error")>>} /\ op # "retry"
    BY <1>5
  <2> QED BY <1>1, <1>2, <1>5, <2>1, NotAttempted
<1>6. CASE /\ op = "retry" /\ (Head(strand).arg = "aborted" \/ state # "waiting")
           /\ SameLife /\ calls' = calls /\ ops' = ops
  <2>1. CloseMoves
    BY <1>1, SameCloseMoves
  <2>2. close_done' = close_done /\ read_done' = read_done
    BY <1>1, Zenon DEF SameClose
  <2>3. link' \in {"none", "up", "down"} /\ (link' # link => state = "connecting")
    BY <1>1 DEF IInv, Types
  <2>4. op \in {"doClose", "retry"}
        /\ ~(state = "waiting" /\ op = "retry" /\ Head(strand).arg = "ok")
    BY <1>6
  <2> QED BY <1>1, <1>2, <1>6, <2>1, <2>2, <2>3, <2>4, AsideKeeps
<1> QED BY <1>2, <1>4, <1>5, <1>6

(***************************************************************************)
(* A connection opens                                                      *)
(***************************************************************************)
\* When the handler of the upgrade runs, nothing else of the attempt is in flight.
LEMMA LastStep ==
    ASSUME IInv, Completed("upgrade")
    PROVE  /\ state = "connecting"
           /\ \A o \in OpNames : Fly(Tail(strand), ops, o, generation) = 0
<1>1. "upgrade" \in OpNames /\ "upgrade" \in Steps
  BY DEF OpNames, Steps
<1>2. state = "connecting" /\ Head(strand).gen = generation /\ Runs("upgrade")
  BY <1>1, CompletedFacts
<1>3. strand # <<>> /\ Head(strand).op = "upgrade"
  BY <1>2, RunsFacts
<1>4. StrandOK /\ OpsOK
  BY DEF IInv
<1> DEFINE pre(o) == Fly(strand, ops, o, generation)
           rest(o) == Fly(Tail(strand), ops, o, generation)
<1>5. \A o : /\ pre(o) = rest(o) + Flag(Head(strand).op = o /\ Head(strand).gen = generation)
             /\ rest(o) \in Nat
  BY <1>3, <1>4, TaskTaken DEF Flag
<1>6. /\ pre("resolve") + pre("connect") + pre("tls") + pre("upgrade") = 1
      /\ pre("read") = 0 /\ pre("close") = 0 /\ pre("write") = 0
  BY <1>2 DEF IInv, Flow, Attempting, In, Flag, Writing
<1> HIDE DEF pre, rest
<1>7. /\ pre("upgrade") = rest("upgrade") + 1
      /\ \A o \in OpNames : o # "upgrade" => pre(o) = rest(o)
  BY <1>2, <1>3, <1>5 DEF Flag
<1>8. /\ rest("resolve") \in Nat /\ rest("connect") \in Nat /\ rest("tls") \in Nat
      /\ rest("upgrade") \in Nat
  BY <1>5
<1>9. /\ pre("resolve") = rest("resolve") /\ pre("connect") = rest("connect")
      /\ pre("tls") = rest("tls")
      /\ rest("read") = 0 /\ rest("close") = 0 /\ rest("write") = 0
  BY <1>6, <1>7 DEF OpNames, Steps
<1>10. rest("resolve") + rest("connect") + rest("tls") + (rest("upgrade") + 1) = 1
  BY <1>6, <1>7, <1>9
<1>11. \A a, b, c, d \in Nat :
           a + b + c + (d + 1) = 1 => a = 0 /\ b = 0 /\ c = 0 /\ d = 0
  OBVIOUS
<1>12. /\ rest("resolve") = 0 /\ rest("connect") = 0 /\ rest("tls") = 0
       /\ rest("upgrade") = 0
  BY <1>8, <1>10, <1>11
<1>13. \A o \in OpNames : rest(o) = 0
  BY <1>9, <1>12 DEF OpNames, Steps
<1> QED BY <1>2, <1>13 DEF rest

\* The connection is open, or is closed again at once.
LEMMA OpenedKeeps ==
    ASSUME IInv, Completed("upgrade"), Arg = "ok", opened,
           state' \in {"open", "closing"}, state' = "closing" => stop_requested = TRUE,
           generation' = generation, link' = link, opens' = opens,
           pending' = pending, write_queue' = write_queue,
           stop_requested' = stop_requested, asked' = asked, requested_code' \in Codes,
           close_done' = close_done, read_done' = read_done,
           OpsOK',
           \A o \in OpNames : Fly(strand', ops', o, generation)
               = IF o = "read" \/ (o = "close" /\ state' = "closing") THEN 1 ELSE 0
    PROVE  IInv'
<1>1. "upgrade" \in OpNames /\ "upgrade" \in Steps
  BY DEF OpNames, Steps
<1>2. state = "connecting" /\ Head(strand).gen = generation /\ Runs("upgrade")
  BY <1>1, CompletedFacts
<1>3. /\ strand # <<>> /\ strand' = Tail(strand) /\ request' = request
      /\ closed' = closed /\ destroyer' = destroyer
      /\ handle' = handle /\ sender' = sender /\ Inside' = Inside
      /\ Head(strand).op = "upgrade" /\ generation \in Nat /\ Head(strand) \in Tasks
  BY <1>2, RunsFacts
<1>4. failures' = 0 /\ connected' = TRUE /\ deliver(<<Call("open")>>) /\ timer' = timer
  BY Zenon DEF opened
<1>5. calls' = <<Call("open")>>
  BY <1>2, <1>4 DEF deliver
<1>6. Going(calls', 0) /\ IsUp(calls') /\ Ordered(calls') /\ calls' \in Seq(Events)
  <2>1. Going(calls', 0) /\ IsUp(calls')
    BY <1>5, OpenCall
  <2> QED BY <2>1 DEF Going
<1>7. /\ timer = FALSE /\ write_queue = <<>>
      /\ close_done = FALSE /\ read_done = FALSE
      /\ Cardinality(Places(strand, Starts)) = 0
      /\ Cardinality(Places(strand, Expired)) = 0
  BY <1>2 DEF IInv, Retrying, Writing, Flow, Count, Flag
<1>8. timer' = FALSE /\ close_done' = FALSE /\ read_done' = FALSE
  BY <1>4, <1>7, Zenon
<1>9. StrandOK /\ OpsOK
  BY DEF IInv
<1> DEFINE t == Head(strand)
           q == Tail(strand)
<1>10. /\ q \in Seq(Tasks) /\ \A i \in 1 .. Len(q) : TaskOK(q[i], generation)
       /\ Cardinality(Places(strand, Starts))
             = Cardinality(Places(q, Starts)) + Flag(t.op = "start")
       /\ Cardinality(Places(strand, Sends))
             = Cardinality(Places(q, Sends)) + Flag(t.op = "send")
       /\ Cardinality(Places(strand, Expired))
             = Cardinality(Places(q, Expired)) + Flag(t.op = "retry" /\ t.arg = "ok")
       /\ \A P : Cardinality(Places(q, P)) \in Nat
       /\ t = Task("upgrade", generation, "ok") => Accepted(strand, generation)
  BY <1>3, <1>9, TaskTaken DEF Flag
<1>11. /\ Cardinality(Places(strand', Starts)) = 0
       /\ Cardinality(Places(strand', Expired)) = 0
       /\ Cardinality(Places(strand', Sends)) = Cardinality(Places(strand, Sends))
  <2>1. /\ Flag(t.op = "start") = 0 /\ Flag(t.op = "send") = 0
        /\ Flag(t.op = "retry" /\ t.arg = "ok") = 0
    BY <1>3 DEF Flag
  <2>2. strand' = q
    BY <1>3
  <2> HIDE DEF t, q, Flag
  <2>3. /\ Cardinality(Places(q, Starts)) = 0
        /\ Cardinality(Places(q, Expired)) = 0
        /\ Cardinality(Places(q, Sends)) = Cardinality(Places(strand, Sends))
    BY <1>7, <1>10, <2>1
  <2> QED BY <2>2, <2>3
<1>12. Accepted(strand, generation)
  <2>1. t.op = "upgrade" /\ t.gen = generation /\ t.arg = "ok" /\ t \in Tasks
    BY <1>2, <1>3 DEF Arg
  <2>2. \A s \in Tasks : s = [op |-> s.op, gen |-> s.gen, arg |-> s.arg]
    BY DEF Tasks
  <2> HIDE DEF t
  <2>3. t = Task("upgrade", generation, "ok")
    BY <2>1, <2>2 DEF Task
  <2> QED BY <1>10, <2>3
<1>13. StrandOK'
  BY <1>3, <1>10 DEF StrandOK
<1>14. Types'
  <2>1. state' \in States /\ failures' \in Nat
    BY <1>4 DEF States
  <2> QED BY <1>3, <1>6, <2>1 DEF IInv, Types
<1>15. Flags'
  BY <1>3, <1>4, <1>8, Zenon DEF IInv, Flags
<1>16. /\ Fly(strand', ops', "resolve", generation) = 0
       /\ Fly(strand', ops', "connect", generation) = 0
       /\ Fly(strand', ops', "tls", generation) = 0
       /\ Fly(strand', ops', "upgrade", generation) = 0
       /\ Fly(strand', ops', "read", generation) = 1
       /\ Fly(strand', ops', "write", generation) = 0
       /\ Fly(strand', ops', "close", generation) = IF state' = "closing" THEN 1 ELSE 0
  BY DEF OpNames, Steps
<1>17. Flow'
  <2>1. Attempting(strand', ops', generation) = 0
    BY <1>16 DEF Attempting
  <2>2. state' = "closing" => stop_requested' = TRUE
    BY Zenon
  <2> QED BY <1>8, <1>11, <1>16, <2>1, <2>2 DEF Flow, In, Count, Flag
<1>18. Retrying'
  BY <1>8, <1>11 DEF Retrying, Count
<1>19. Writing'
  <2>1. NoneFailed(strand', generation)
    <3>1. \A i \in 1 .. Len(strand') :
              ~(strand'[i].op = "write" /\ strand'[i].gen = generation)
      <4>1. strand' \in Seq(Tasks) /\ IsABag(ops')
        BY <1>13 DEF StrandOK, OpsOK
      <4>2. (\E i \in 1 .. Len(strand') :
                strand'[i].op = "write" /\ strand'[i].gen = generation)
               => Fly(strand', ops', "write", generation) >= 1
        BY <4>1, FlyIsInFlight
      <4> QED BY <1>16, <4>2
    <3> QED BY <3>1 DEF NoneFailed
  <2>2. write_queue' = <<>> /\ Len(write_queue') = 0
    BY <1>7
  <2> QED BY <1>16, <2>1, <2>2 DEF Writing, In
<1>20. Pending' /\ Limits'
  BY <1>3, <1>11 DEF IInv, Pending, Limits, Count
<1>21. Bounded'
  <2> DEFINE X == opens * (max_attempts + 1)
  <2>1. max_attempts \in Nat /\ opens \in Nat
    BY ClientAssumption DEF IInv, Types
  <2>2. X \in Nat
    BY <2>1, OneMoreOpen
  <2>3. max_attempts > 0 => generation <= X
    BY <1>2, <1>12 DEF IInv, Bounded
  <2>4. Flag(state' = "connecting") = 0
    BY DEF Flag
  <2> HIDE DEF X, Flag
  <2>5. X + 0 + 0 = X /\ 0 <= max_attempts
    BY <2>1, <2>2
  <2>6. state' # "stopped"
    OBVIOUS
  <2> QED BY <1>4, <2>3, <2>4, <2>5, <2>6 DEF Bounded, X
<1>22. Callbacks'
  <2>1. Going(calls', failures')
    BY <1>4, <1>6
  <2>2. connected' = TRUE
    BY <1>4
  <2> QED BY <1>6, <2>1, <2>2 DEF Callbacks
<1>23. Closing'
  BY DEF IInv, Closing
<1> QED BY <1>13, <1>14, <1>15, <1>17, <1>18, <1>19, <1>20, <1>21, <1>22, <1>23 DEF IInv

\* onUpgrade(), both branches.
LEMMA UpgradedKeeps == IInv /\ (OnUpgraded \/ OnUpgradedClosing) => IInv'
<1> SUFFICES ASSUME IInv, OnUpgraded \/ OnUpgradedClosing PROVE IInv'
  OBVIOUS
<1>1. /\ Completed("upgrade") /\ Arg = "ok" /\ opened
      /\ generation' = generation /\ link' = link /\ opens' = opens
      /\ pending' = pending /\ write_queue' = write_queue
      /\ stop_requested' = stop_requested /\ asked' = asked
      /\ close_done' = close_done /\ read_done' = read_done
  BY Zenon DEF OnUpgraded, OnUpgradedClosing, queueVars, closeVars
<1> DEFINE C == BagAdd(ops, Op("read", generation))
           q == Tail(strand)
<1>2. \/ /\ state' = "open" /\ ops' = C /\ requested_code' = requested_code
      \/ /\ state' = "closing" /\ ops' = BagAdd(C, Op("close", generation))
         /\ requested_code' = "normal" /\ stop_requested
  BY Zenon DEF OnUpgraded, OnUpgradedClosing, closeVars, closeOpen
<1>3. "upgrade" \in OpNames /\ "read" \in OpNames /\ "close" \in OpNames
  BY DEF OpNames, Steps
<1>4. Runs("upgrade")
  BY <1>1, <1>3, CompletedFacts
<1>5. strand # <<>> /\ strand' = Tail(strand) /\ generation \in Nat /\ generation > 0
  BY <1>3, <1>4, RunsFacts
<1>6. q \in Seq(Tasks)
  BY <1>5, TaskTaken DEF IInv
<1>7. IsABag(ops) /\ \A o \in DOMAIN ops : o \in [op : OpNames, gen : 1 .. generation]
  BY DEF IInv, OpsOK
<1>8. \A o \in OpNames : Fly(q, ops, o, generation) = 0
  BY <1>1, LastStep
<1> HIDE DEF q
<1>9. /\ IsABag(C)
      /\ \A o \in DOMAIN C : o \in [op : OpNames, gen : 1 .. generation]
      /\ \A o : Fly(q, C, o, generation) = Fly(q, ops, o, generation) + Flag(o = "read")
  BY <1>3, <1>5, <1>6, <1>7, Started DEF Flag
<1> HIDE DEF C
<1> DEFINE D == BagAdd(C, Op("close", generation))
<1>10. /\ IsABag(D)
       /\ \A o \in DOMAIN D : o \in [op : OpNames, gen : 1 .. generation]
       /\ \A o : Fly(q, D, o, generation) = Fly(q, C, o, generation) + Flag(o = "close")
  BY <1>3, <1>5, <1>6, <1>9, Started DEF Flag
<1> HIDE DEF D
<1>11. strand' = q
  BY <1>5 DEF q
<1>12. /\ state' \in {"open", "closing"} /\ requested_code' \in Codes
       /\ ops' = IF state' = "closing" THEN D ELSE C
  BY <1>2 DEF IInv, Types, Codes, D
<1>13. OpsOK'
  BY <1>1, <1>9, <1>10, <1>12 DEF OpsOK
<1>14. \A o \in OpNames : Fly(strand', ops', o, generation)
           = IF o = "read" \/ (o = "close" /\ state' = "closing") THEN 1 ELSE 0
  <2> SUFFICES ASSUME NEW o \in OpNames
               PROVE  Fly(q, ops', o, generation)
                         = IF o = "read" \/ (o = "close" /\ state' = "closing") THEN 1 ELSE 0
    BY <1>11
  <2>1. Fly(q, C, o, generation) = IF o = "read" THEN 1 ELSE 0
    <3>1. Fly(q, C, o, generation) = 0 + Flag(o = "read")
      BY <1>8, <1>9
    <3> QED BY <3>1 DEF Flag
  <2>2. Fly(q, D, o, generation) = IF o = "read" \/ o = "close" THEN 1 ELSE 0
    <3>1. Fly(q, D, o, generation) = Fly(q, C, o, generation) + Flag(o = "close")
      BY <1>10
    <3> QED BY <2>1, <3>1 DEF Flag
  <2> QED BY <1>12, <2>1, <2>2
<1>15. state' = "closing" => stop_requested = TRUE
  <2>1. stop_requested \in BOOLEAN
    BY Zenon DEF IInv, Flags
  <2>2. state' = "closing" => stop_requested
    BY <1>2
  <2> QED BY <2>1, <2>2, Zenon
<1> QED BY <1>1, <1>12, <1>13, <1>14, <1>15, OpenedKeeps

(***************************************************************************)
(* close() on an open connection, or one that waits for a retry            *)
(***************************************************************************)
LEMMA DoCloseOpenKeeps == IInv /\ DoCloseOpen => IInv'
<1> SUFFICES ASSUME IInv, DoCloseOpen PROVE IInv'
  OBVIOUS
<1>1. /\ Runs("doClose") /\ state = "open" /\ state' = "closing"
      /\ asked' = Head(strand).arg /\ requested_code' = Head(strand).arg
      /\ stop_requested' = TRUE /\ ops' = BagAdd(ops, Op("close", generation))
      /\ generation' = generation /\ pending' = pending /\ write_queue' = write_queue
      /\ close_done' = close_done /\ read_done' = read_done /\ failures' = failures
      /\ connected' = connected /\ timer' = timer /\ calls' = calls
      /\ link' = link /\ opens' = opens
  BY Zenon DEF DoCloseOpen, requestStop, closeOpen, Arg, queueVars
<1>2. /\ strand # <<>> /\ strand' = Tail(strand) /\ request' = request
      /\ closed' = closed /\ destroyer' = destroyer
      /\ handle' = handle /\ sender' = sender /\ Inside' = Inside
      /\ Head(strand).op = "doClose" /\ generation \in Nat
      /\ Head(strand).arg \in {"normal", "going_away"}
  BY <1>1, RunsFacts DEF TaskOK
<1>3. StrandOK /\ OpsOK
  BY DEF IInv
<1>4. /\ Fly(strand, ops, "read", generation) = 1
      /\ Fly(strand, ops, "close", generation) = 0
      /\ Attempting(strand, ops, generation) = 0
      /\ Cardinality(Places(strand, Starts)) = 0
      /\ Cardinality(Places(strand, Expired)) = 0
      /\ timer = FALSE /\ close_done = FALSE /\ read_done = FALSE
  BY <1>1 DEF IInv, Flow, Retrying, In, Count, Flag
<1>5. generation > 0
  <2> SUFFICES ASSUME generation = 0 PROVE FALSE
    BY <1>2
  <2>1. strand \in Seq(Tasks) /\ IsABag(ops) /\ "read" \in OpNames
    BY <1>3 DEF StrandOK, OpsOK, OpNames
  <2>2. ~BagIn(Op("read", 0), ops)
    BY <1>3 DEF OpsOK, Op, BagIn, BagToSet
  <2>3. \A i \in 1 .. Len(strand) : strand[i].op = "read" => strand[i].gen # 0
    BY <1>3, <2>1 DEF StrandOK, TaskOK
  <2>4. Fly(strand, ops, "read", 0) = 0
    BY <2>1, <2>2, <2>3, NoneFly
  <2> QED BY <1>4, <2>4
<1>6. "close" \in OpNames /\ "doClose" \notin OpNames /\ "none" \notin Steps /\ "close" \notin Steps
  BY DEF OpNames, Steps
<1>7. /\ StrandOK' /\ OpsOK' /\ Moves("doClose", "none", "close")
      /\ NoneFailed(strand, generation) => NoneFailed(strand', generation)
  BY <1>1, <1>2, <1>3, <1>5, <1>6, HandlerMoves
<1>8. /\ Fly(strand', ops', "read", generation) = 1
      /\ Fly(strand', ops', "close", generation) = 1
      /\ Fly(strand', ops', "write", generation) = Fly(strand, ops, "write", generation)
      /\ Attempting(strand', ops', generation) = 0
      /\ Cardinality(Places(strand', Starts)) = 0
      /\ Cardinality(Places(strand', Sends)) = Cardinality(Places(strand, Sends))
  BY <1>4, <1>6, <1>7 DEF Moves, Moved
<1>9. /\ Cardinality(Places(strand', Expired)) = 0
      /\ Accepted(strand', generation) => Accepted(strand, generation)
  <2>1. /\ Cardinality(Places(strand, Expired))
              = Cardinality(Places(strand', Expired))
                + Flag(Head(strand).op = "retry" /\ Head(strand).arg = "ok")
        /\ Cardinality(Places(strand', Expired)) \in Nat
        /\ Accepted(strand', generation) => Accepted(strand, generation)
    BY <1>2, <1>3, TaskTaken DEF Flag
  <2>2. Flag(Head(strand).op = "retry" /\ Head(strand).arg = "ok") = 0
    BY <1>2 DEF Flag
  <2> HIDE DEF Flag
  <2> QED BY <1>4, <2>1, <2>2
<1>10. timer' = FALSE /\ close_done' = FALSE /\ read_done' = FALSE
  BY <1>1, <1>4, Zenon
<1>11. Types'
  BY <1>1, <1>2 DEF IInv, Types, States, Codes
<1>12. Flags'
  BY <1>1, <1>2, <1>10, Zenon DEF IInv, Flags
<1>13. Flow'
  BY <1>1, <1>8, <1>10 DEF Flow, In, Count, Flag
<1>14. Retrying'
  BY <1>1, <1>9, <1>10 DEF Retrying, Count
<1>15. Writing'
  BY <1>1, <1>8 DEF IInv, Writing, In
<1>16. Pending' /\ Limits'
  BY <1>1, <1>2, <1>8 DEF IInv, Pending, Limits, Count
<1>17. Bounded'
  <2>1. Flag(state = "connecting") = 0 /\ Flag(state' = "connecting") = 0
    BY <1>1 DEF Flag
  <2> HIDE DEF Flag
  <2> QED BY <1>1, <1>9, <2>1 DEF IInv, Bounded
<1>18. Callbacks'
  <2>1. connected = TRUE /\ Ordered(calls) /\ IsUp(calls) /\ Going(calls, failures)
    BY <1>1 DEF IInv, Callbacks
  <2>2. connected' = TRUE
    BY <1>1, <2>1, Zenon
  <2> QED BY <1>1, <2>1, <2>2 DEF Callbacks
<1>19. Closing'
  BY <1>1 DEF Closing
<1> QED BY <1>7, <1>11, <1>12, <1>13, <1>14, <1>15, <1>16, <1>17, <1>18, <1>19 DEF IInv

\* The retry is cancelled, or finds the connection stopped.
LEMMA DoCloseWaitingKeeps == IInv /\ DoCloseWaiting => IInv'
<1> SUFFICES ASSUME IInv, DoCloseWaiting PROVE IInv'
  OBVIOUS
<1> DEFINE t == Head(strand)
           q == Tail(strand)
           r == Task("retry", generation, "aborted")
<1>1. /\ strand # <<>> /\ t.op = "doClose" /\ state = "waiting" /\ state' = "stopped"
      /\ strand' = q \/ strand' = Append(q, r)
      /\ asked' = t.arg /\ stop_requested' = TRUE /\ timer' = FALSE /\ connected' = FALSE
      /\ requested_code' = requested_code
      /\ generation' = generation /\ pending' = pending /\ write_queue' = write_queue
      /\ close_done' = close_done /\ read_done' = read_done /\ failures' = failures
      /\ calls' = calls /\ ops' = ops /\ link' = link /\ opens' = opens
      /\ request' = request /\ closed' = closed /\ destroyer' = destroyer
      /\ handle' = handle /\ sender' = sender
  BY Zenon DEF DoCloseWaiting, Running, requestStop, Arg, queueVars, streamVars, appVars
<1>2. StrandOK /\ OpsOK /\ generation \in Nat /\ IsABag(ops)
  BY DEF IInv, Types, OpsOK
<1>3. /\ t \in Tasks /\ TaskOK(t, generation)
      /\ q \in Seq(Tasks) /\ \A i \in 1 .. Len(q) : TaskOK(q[i], generation)
      /\ \A o : /\ Fly(strand, ops, o, generation)
                       = Fly(q, ops, o, generation) + Flag(t.op = o /\ t.gen = generation)
                /\ Fly(q, ops, o, generation) \in Nat
      /\ Cardinality(Places(strand, Starts))
            = Cardinality(Places(q, Starts)) + Flag(t.op = "start")
      /\ Cardinality(Places(strand, Sends))
            = Cardinality(Places(q, Sends)) + Flag(t.op = "send")
      /\ \A P : Cardinality(Places(q, P)) \in Nat
  BY <1>1, <1>2, TaskTaken DEF Flag
<1>4. /\ r \in Tasks /\ r.op = "retry" /\ r.gen = generation /\ r.arg = "aborted"
      /\ TaskOK(r, generation) /\ r \notin Starts /\ r \notin Sends
  <2>1. r \in Tasks /\ r.op = "retry" /\ r.gen = generation /\ r.arg = "aborted"
    BY <1>2 DEF Task, Tasks, Args
  <2> HIDE DEF r
  <2> QED BY <1>2, <2>1 DEF TaskOK, OpNames, Steps, Starts, Sends
<1>5. t.arg \in {"normal", "going_away"}
  BY <1>1, <1>3 DEF TaskOK
<1> HIDE DEF t, q, r
<1>6. /\ \A o \in OpNames : Fly(q, ops, o, generation) = Fly(strand, ops, o, generation)
      /\ Cardinality(Places(q, Starts)) = Cardinality(Places(strand, Starts))
      /\ Cardinality(Places(q, Sends)) = Cardinality(Places(strand, Sends))
  <2>1. /\ Flag(t.op = "start") = 0 /\ Flag(t.op = "send") = 0
        /\ \A o \in OpNames : Flag(t.op = o /\ t.gen = generation) = 0
    BY <1>1 DEF Flag, OpNames, Steps
  <2>2. ASSUME NEW o \in OpNames
        PROVE  Fly(q, ops, o, generation) = Fly(strand, ops, o, generation)
    <3>1. /\ Fly(strand, ops, o, generation)
                = Fly(q, ops, o, generation) + Flag(t.op = o /\ t.gen = generation)
          /\ Fly(q, ops, o, generation) \in Nat
      BY <1>3 DEF Flag
    <3>2. Flag(t.op = o /\ t.gen = generation) = 0
      BY <2>1 DEF Flag
    <3> HIDE DEF Flag
    <3> QED BY <3>1, <3>2
  <2> HIDE DEF Flag
  <2>3. /\ Cardinality(Places(q, Starts)) = Cardinality(Places(strand, Starts))
        /\ Cardinality(Places(q, Sends)) = Cardinality(Places(strand, Sends))
    BY <1>3, <2>1
  <2> QED BY <2>2, <2>3
<1>7. /\ StrandOK'
      /\ \A o \in OpNames : Fly(strand', ops, o, generation) = Fly(strand, ops, o, generation)
      /\ Cardinality(Places(strand', Starts)) = Cardinality(Places(strand, Starts))
      /\ Cardinality(Places(strand', Sends)) = Cardinality(Places(strand, Sends))
  <2>1. CASE strand' = q
    BY <1>1, <1>3, <1>6, <2>1 DEF StrandOK
  <2>2. CASE strand' = Append(q, r)
    <3>1. /\ strand' \in Seq(Tasks) /\ Len(q) \in Nat /\ Len(strand') = Len(q) + 1
          /\ \A i \in 1 .. Len(q) : strand'[i] = q[i]
          /\ strand'[Len(q) + 1] = r
      BY <1>3, <1>4, <2>2
    <3>2. \A i : i \in 1 .. Len(strand') <=> i \in 1 .. Len(q) \/ i = Len(q) + 1
      BY <3>1
    <3>3. \A i \in 1 .. Len(strand') : TaskOK(strand'[i], generation)
      BY <1>3, <1>4, <3>1, <3>2
    <3>4. StrandOK'
      BY <1>1, <3>1, <3>3 DEF StrandOK
    <3>5. ASSUME NEW o \in OpNames
          PROVE  Fly(strand', ops, o, generation) = Fly(strand, ops, o, generation)
      <4>1. o # r.op
        BY <1>4 DEF OpNames, Steps
      <4>2. Fly(strand', ops, o, generation) = Fly(q, ops, o, generation)
        BY <1>2, <1>3, <1>4, <2>2, <4>1, FlyPosts
      <4> QED BY <1>6, <4>2
    <3>6. \A P : Cardinality(Places(strand', P))
                    = Cardinality(Places(q, P)) + IF r \in P THEN 1 ELSE 0
      BY <1>3, <1>4, <2>2, PlacesAppend
    <3>7. /\ Cardinality(Places(strand', Starts)) = Cardinality(Places(q, Starts)) + 0
          /\ Cardinality(Places(strand', Sends)) = Cardinality(Places(q, Sends)) + 0
      BY <1>4, <3>6
    <3>8. Cardinality(Places(q, Starts)) \in Nat /\ Cardinality(Places(q, Sends)) \in Nat
      BY <1>3
    <3> QED BY <1>6, <3>4, <3>5, <3>7, <3>8
  <2> QED BY <1>1, <2>1, <2>2
<1>8. /\ {"resolve", "connect", "tls", "upgrade", "read", "write", "close"} \subseteq OpNames
  BY DEF OpNames, Steps
<1>9. /\ Attempting(strand', ops', generation) = 0
      /\ Fly(strand', ops', "read", generation) = 0
      /\ Fly(strand', ops', "write", generation) <= 1
      /\ Cardinality(Places(strand', Starts)) = 0
  <2>1. /\ Attempting(strand, ops, generation) = 0
        /\ Fly(strand, ops, "read", generation) = 0
        /\ Fly(strand, ops, "write", generation) <= 1
        /\ Cardinality(Places(strand, Starts)) = 0
    BY <1>1 DEF IInv, Flow, Writing, In, Count, Flag
  <2>2. Attempting(strand', ops, generation) = Attempting(strand, ops, generation)
    BY <1>7, <1>8 DEF Attempting
  <2> QED BY <1>1, <1>7, <1>8, <2>1, <2>2
<1>10. write_queue = <<>> /\ ~IsUp(calls) /\ Ordered(calls)
  BY <1>1 DEF IInv, Writing, Callbacks
<1>11. OpsOK'
  BY <1>1, <1>2 DEF OpsOK
<1>12. Types'
  BY <1>1, <1>5 DEF IInv, Types, States, Codes
<1>13. Flags'
  BY <1>1, Zenon DEF IInv, Flags
<1>14. Flow'
  BY <1>1, <1>9 DEF Flow, In, Count, Flag
<1>15. Retrying'
  BY <1>1 DEF Retrying
<1>16. Writing'
  <2>1. write_queue' = <<>> /\ Len(write_queue') = 0
    BY <1>1, <1>10
  <2> QED BY <1>1, <1>9, <2>1 DEF Writing, In
<1>17. Pending' /\ Limits'
  <2>1. Inside' = Inside
    BY <1>1 DEF Inside
  <2> QED BY <1>1, <1>7, <2>1 DEF IInv, Pending, Limits, Count
<1>18. Bounded'
  <2> DEFINE X == opens * (max_attempts + 1)
  <2>1. failures \in Nat /\ max_attempts \in Nat /\ opens \in Nat
    BY ClientAssumption DEF IInv, Types
  <2>2. X \in Nat
    BY <2>1, OneMoreOpen
  <2>3. ASSUME max_attempts > 0
        PROVE  failures <= max_attempts /\ generation <= X + failures
    <3>1. /\ failures <= max_attempts
          /\ generation <= X + failures + Flag(state = "connecting")
      BY <1>1, <2>3 DEF IInv, Bounded
    <3>2. Flag(state = "connecting") = 0
      BY <1>1 DEF Flag
    <3> HIDE DEF X, Flag
    <3> QED BY <1>2, <2>1, <2>2, <3>1, <3>2
  <2> HIDE DEF X
  <2>4. max_attempts > 0 => /\ failures <= max_attempts + 1
                            /\ generation <= X + max_attempts + 1
    BY <1>2, <2>1, <2>2, <2>3
  <2> QED BY <1>1, <2>4 DEF Bounded, X
<1>19. Callbacks'
  <2>1. ~(connected' = TRUE)
    BY <1>1, Zenon
  <2> QED BY <1>1, <1>10, <2>1 DEF Callbacks
<1>20. Closing'
  BY <1>1 DEF Closing
<1> QED BY <1>7, <1>11, <1>12, <1>13, <1>14, <1>15, <1>16, <1>17, <1>18, <1>19, <1>20 DEF IInv

(***************************************************************************)
(* The invariant is inductive                                              *)
(***************************************************************************)
LEMMA IInvInit == Init => IInv
<1> SUFFICES ASSUME Init PROVE IInv
  OBVIOUS
<1> DEFINE t == Task("start", 0, "none")
<1>1. /\ strand = <<t>> /\ ops = EmptyBag /\ state = "idle" /\ generation = 0
      /\ request \in Requests /\ link = "none" /\ failures = 0 /\ pending = 0
      /\ write_queue = <<>> /\ requested_code = "normal" /\ asked = "none"
      /\ destroyer = "none" /\ calls = <<>> /\ opens = 0
      /\ sender = [s \in Senders |-> [at |-> "idle", gen |-> 0]]
  BY DEF Init
<1>2. /\ timer = FALSE /\ connected = FALSE /\ stop_requested = FALSE
      /\ close_done = FALSE /\ read_done = FALSE /\ closed = FALSE /\ handle = TRUE
  BY Zenon DEF Init
<1>3. t \in Tasks /\ t.op = "start" /\ t.gen = 0
  BY DEF Task, Tasks, Args
<1> HIDE DEF t
<1>4. /\ strand \in Seq(Tasks) /\ Len(strand) = 1 /\ strand[1] = t
      /\ \A i \in 1 .. Len(strand) : strand[i] = t
  BY <1>1, <1>3
<1>5. StrandOK
  <2>1. TaskOK(t, 0)
    BY <1>3 DEF TaskOK, OpNames, Steps
  <2> QED BY <1>1, <1>4, <2>1 DEF StrandOK
<1>6. IsABag(ops) /\ DOMAIN ops = {} /\ OpsOK
  <2>1. IsABag(ops) /\ DOMAIN ops = {}
    BY <1>1 DEF EmptyBag, SetToBag, IsABag
  <2> QED BY <2>1 DEF OpsOK
<1>7. ASSUME NEW o \in OpNames PROVE Fly(strand, ops, o, generation) = 0
  <2>1. ~BagIn(Op(o, generation), ops)
    BY <1>6 DEF BagIn, BagToSet
  <2>2. \A i \in 1 .. Len(strand) : strand[i].op # o
    BY <1>3, <1>4 DEF OpNames, Steps
  <2> QED BY <1>4, <1>6, <2>1, <2>2, NoneFly
<1>8. /\ Fly(strand, ops, "resolve", generation) = 0
      /\ Fly(strand, ops, "connect", generation) = 0
      /\ Fly(strand, ops, "tls", generation) = 0
      /\ Fly(strand, ops, "upgrade", generation) = 0
      /\ Fly(strand, ops, "read", generation) = 0
      /\ Fly(strand, ops, "write", generation) = 0
      /\ Fly(strand, ops, "close", generation) = 0
  BY <1>7 DEF OpNames, Steps
<1>9. /\ Cardinality(Places(strand, Starts)) = 1
      /\ Cardinality(Places(strand, Sends)) = 0
      /\ Cardinality(Places(strand, Expired)) = 0
  <2>1. Places(strand, Starts) = {1} /\ Places(strand, Sends) = {}
        /\ Places(strand, Expired) = {}
    BY <1>3, <1>4 DEF Places, Starts, Sends, Expired
  <2> QED BY <2>1, FS_EmptySet, FS_Singleton
<1>10. Types
  <2>1. MaxOpens \in Nat
    BY ClientAssumption
  <2>2. sender \in [Senders ->
            [at : {"idle", "checked", "reserved", "loaded"}, gen : 0 .. generation]]
    BY <1>1
  <2>3. opens \in 0 .. MaxOpens
    BY <1>1, <2>1
  <2>4. calls \in Seq(Events) /\ write_queue \in Seq(Nat)
    BY <1>1
  <2> QED BY <1>1, <2>2, <2>3, <2>4 DEF Types, States, Codes
<1>11. Flags
  BY <1>2, Zenon DEF Flags
<1>12. Flow
  <2>1. Attempting(strand, ops, generation) = 0
    BY <1>8 DEF Attempting
  <2> QED BY <1>1, <1>2, <1>8, <1>9, <2>1 DEF Flow, In, Count, Flag
<1>13. Retrying
  BY <1>1, <1>2, <1>9 DEF Retrying, Count
<1>14. Writing
  <2>1. Len(write_queue) = 0
    BY <1>1
  <2> QED BY <1>1, <1>8, <2>1 DEF Writing, In
<1>15. Pending /\ Limits
  <2>1. Inside = {}
    BY <1>1 DEF Inside
  <2>2. Cardinality(Inside) = 0 /\ Len(write_queue) = 0
    BY <1>1, <2>1, FS_EmptySet
  <2> QED BY <1>1, <1>9, <2>2, ClientAssumption DEF Pending, Limits, Count
<1>16. Bounded
  <2>1. ~Accepted(strand, generation)
    BY <1>3, <1>4 DEF Accepted, Task
  <2>2. max_attempts \in Nat /\ opens * (max_attempts + 1) \in Nat
    BY <1>1, ClientAssumption, OneMoreOpen
  <2> QED BY <1>1, <2>1, <2>2 DEF Bounded, Flag
<1>17. Callbacks
  <2>1. Going(calls, failures) /\ ~IsUp(calls)
    BY <1>1, NoCall
  <2>2. Ordered(calls)
    BY <2>1 DEF Going
  <2>3. ~(connected = TRUE)
    BY <1>2, Zenon
  <2> QED BY <1>1, <2>1, <2>2, <2>3 DEF Callbacks
<1>18. Closing
  BY <1>1 DEF Closing
<1> QED BY <1>5, <1>6, <1>10, <1>11, <1>12, <1>13, <1>14, <1>15, <1>16, <1>17, <1>18 DEF IInv

\* The resolver, the timer and the Beast stream.
LEMMA StreamsKeep == IInv /\ Stream => IInv'
<1> SUFFICES ASSUME IInv, Stream PROVE IInv'
  OBVIOUS
<1>1. CASE TimerExpires
  BY <1>1, TimerKeeps
<1>2. ASSUME NEW op \in OpNames, NEW g, NEW res \in Args, Completes(op, g, res),
             MessageRead \/ StreamFrame,
             link' \in {"none", "up", "down"}, link' = "up" => link = "up",
             op = "write" /\ g = generation /\ res # "ok" => link' # "up" \/ state # "open",
             \/ op = "upgrade" /\ g = generation /\ opens < MaxOpens /\ opens' = opens + 1
             \/ opens' = opens /\ ~(op = "upgrade" /\ g = generation /\ res = "ok")
      PROVE  IInv'
  <2>1. /\ Still /\ pending' = pending /\ closed' = closed /\ destroyer' = destroyer
        /\ handle' = handle /\ sender' = sender
    BY <1>2, Zenon DEF MessageRead, StreamFrame, Still, queueVars, closeVars, lifeVars, appVars
  <2> QED BY <1>2, <2>1, StreamKeeps
<1>3. link \in {"none", "up", "down"}
  BY DEF IInv, Types
<1>4. /\ Steps \subseteq OpNames /\ {"read", "write", "close", "upgrade"} \subseteq OpNames
      /\ {"ok", "error", "declined", "message", "closed", "aborted", "none"} \subseteq Args
      /\ "write" \notin Steps
  BY DEF OpNames, Steps, Args
<1>5. ASSUME NEW step \in Steps, StepOk(step) PROVE IInv'
  <2>1. /\ Completes(step, generation, "ok") /\ link' = link /\ StreamFrame
        /\ IF step = "upgrade" THEN opens < MaxOpens /\ opens' = opens + 1
                               ELSE opens' = opens
    BY <1>5, Zenon DEF StepOk
  <2>2. step \in OpNames /\ "ok" \in Args /\ step # "write"
    BY <1>4
  <2>3. /\ link' \in {"none", "up", "down"} /\ (link' = "up" => link = "up")
        /\ \/ step = "upgrade" /\ generation = generation /\ opens < MaxOpens
                /\ opens' = opens + 1
           \/ opens' = opens /\ ~(step = "upgrade" /\ generation = generation /\ "ok" = "ok")
    BY <1>3, <2>1
  <2> QED BY <1>2, <2>1, <2>2, <2>3
<1>6. ASSUME NEW step \in Steps, StepFails(step) PROVE IInv'
  <2>1. /\ Completes(step, generation, "error") /\ StreamFrame /\ opens' = opens
        /\ link' = IF link = "none" THEN "none" ELSE "down"
    BY <1>6, Zenon DEF StepFails
  <2>2. step \in OpNames /\ "error" \in Args /\ step # "write"
    BY <1>4
  <2>3. link' \in {"none", "up", "down"} /\ (link' = "up" => link = "up")
    BY <2>1
  <2> QED BY <1>2, <2>1, <2>2, <2>3
<1>7. CASE UpgradeDeclined
  <2>1. /\ Completes("upgrade", generation, "declined") /\ StreamFrame
        /\ opens' = opens /\ link' = "down"
    BY <1>7, Zenon DEF UpgradeDeclined
  <2>2. "upgrade" \in OpNames /\ "declined" \in Args
    BY <1>4
  <2> QED BY <1>2, <2>1, <2>2
<1>8. ASSUME NEW res \in {"message", "closed", "aborted", "error"},
             Completes("read", generation, res), MessageRead \/ StreamFrame,
             opens' = opens, link' = link \/ link' = "down"
      PROVE  IInv'
  <2>1. "read" \in OpNames /\ res \in Args
    BY <1>4
  <2>2. link' \in {"none", "up", "down"} /\ (link' = "up" => link = "up")
    BY <1>3, <1>8
  <2> QED BY <1>2, <1>8, <2>1, <2>2
<1>9. CASE MessageRead
  <2>1. Completes("read", generation, "message") /\ opens' = opens /\ link' = link
    BY <1>9, Zenon DEF MessageRead
  <2> QED BY <1>8, <1>9, <2>1
<1>10. ASSUME NEW res \in {"closed", "error"}, StreamEnds(res) PROVE IInv'
  <2>1. Completes("read", generation, res) /\ opens' = opens /\ link' = "down" /\ StreamFrame
    BY <1>10, Zenon DEF StreamEnds
  <2> QED BY <1>8, <2>1
<1>11. ASSUME NEW res \in {"aborted", "error"}, ReadFails(res) PROVE IInv'
  <2>1. Completes("read", generation, res) /\ opens' = opens /\ link' = link /\ StreamFrame
    BY <1>11, Zenon DEF ReadFails
  <2> QED BY <1>8, <2>1
<1>12. CASE WriteOk
  <2>1. Completes("write", generation, "ok") /\ opens' = opens /\ link' = link /\ StreamFrame
    BY <1>12, Zenon DEF WriteOk
  <2>2. "write" \in OpNames /\ "ok" \in Args
    BY <1>4
  <2>3. link' \in {"none", "up", "down"} /\ (link' = "up" => link = "up")
    BY <1>3, <2>1
  <2> QED BY <1>2, <2>1, <2>2, <2>3
<1>13. ASSUME NEW gen \in 1 .. generation, WriteFails(gen) PROVE IInv'
  <2>1. /\ Completes("write", gen, "error") /\ opens' = opens /\ link' = link /\ StreamFrame
        /\ gen # generation \/ link = "down" \/ state = "closing"
    BY <1>13, Zenon DEF WriteFails
  <2>2. "write" \in OpNames /\ "error" \in Args
    BY <1>4
  <2>3. /\ link' \in {"none", "up", "down"} /\ (link' = "up" => link = "up")
        /\ gen = generation => link' # "up" \/ state # "open"
    BY <1>3, <2>1
  <2> QED BY <1>2, <2>1, <2>2, <2>3
<1>14. CASE CloseEnds
  <2>1. Completes("close", generation, "none") /\ opens' = opens /\ link' = "down" /\ StreamFrame
    BY <1>14, Zenon DEF CloseEnds
  <2>2. "close" \in OpNames /\ "none" \in Args
    BY <1>4
  <2> QED BY <1>2, <2>1, <2>2
<1> QED BY <1>1, <1>5, <1>6, <1>7, <1>9, <1>10, <1>11, <1>12, <1>13, <1>14 DEF Stream

LEMMA HandlersKeep == IInv /\ Handlers => IInv'
<1> SUFFICES ASSUME IInv, Handlers PROVE IInv'
  OBVIOUS
<1>1. CASE \E op \in Steps \cup {"read", "write", "close"} : OnStale(op)
  BY <1>1, StaleKeeps DEF OpNames
<1>2. CASE (\E step \in Steps : OnStepFailed(step)) \/ OnConnectNoSni \/ OnDeclined
  BY <1>2, FailedKeeps
<1>3. CASE EndedOwnClose
  <2>1. CASE close_done
    BY <1>3, <2>1, EndedKeeps
  <2>2. CASE ~close_done
    <3>1. ~OnClose
      <4> SUFFICES ASSUME OnClose PROVE FALSE
        OBVIOUS
      <4>1. Head(strand).op = "read" /\ Head(strand).op = "close"
        BY <1>3 DEF EndedOwnClose, OnClose, Completed, Runs, Running
      <4> QED BY <4>1
    <3> QED BY <1>3, <2>2, <3>1, HalfKeeps
  <2> QED BY <2>1, <2>2
<1>4. CASE OnClose
  <2>1. CASE read_done
    BY <1>4, <2>1, EndedKeeps
  <2>2. CASE ~read_done
    <3>1. ~EndedOwnClose
      <4> SUFFICES ASSUME EndedOwnClose PROVE FALSE
        OBVIOUS
      <4>1. Head(strand).op = "read" /\ Head(strand).op = "close"
        BY <1>4 DEF EndedOwnClose, OnClose, Completed, Runs, Running
      <4> QED BY <4>1
    <3> QED BY <1>4, <2>2, <3>1, HalfKeeps
  <2> QED BY <2>1, <2>2
<1>5. CASE Ended
  BY <1>5, EndedKeeps
<1>6. CASE Start \/ OnRetry
  BY <1>6, AttemptKeeps
<1>7. CASE OnResolve \/ OnConnect \/ OnTls
  BY <1>7, StepKeeps
<1>8. CASE OnUpgraded \/ OnUpgradedClosing
  BY <1>8, UpgradedKeeps
<1>9. CASE OnMessage
  BY <1>9, MessageKeeps
<1>10. CASE SendTask
  BY <1>10, SendTaskKeeps
<1>11. CASE OnWriteFailed
  BY <1>11, WriteFailedKeeps
<1>12. CASE OnWrite
  BY <1>12, WriteKeeps
<1>13. CASE DoCloseAgain \/ DoCloseConnecting
  BY <1>13, DoCloseQuietKeeps
<1>14. CASE DoCloseOpen
  BY <1>14, DoCloseOpenKeeps
<1>15. CASE DoCloseWaiting
  BY <1>15, DoCloseWaitingKeeps
<1> QED BY <1>1, <1>2, <1>3, <1>4, <1>5, <1>6, <1>7, <1>8, <1>9, <1>10, <1>11, <1>12,
           <1>13, <1>14, <1>15, Zenon DEF Handlers

LEMMA IInvNext == IInv /\ [Next]_vars => IInv'
<1> SUFFICES ASSUME IInv, [Next]_vars PROVE IInv'
  OBVIOUS
<1>1. CASE Stream
  BY <1>1, StreamsKeep
<1>2. CASE Handlers
  BY <1>2, HandlersKeep
<1>3. CASE \/ AppClose \/ DropHandle
           \/ \E t \in Senders : SendCheck(t) \/ Sending(t)
           \/ Destroy \/ DestroyCloses \/ DestroyJoins
  BY <1>3, ThreadsKeep
<1>4. CASE UNCHANGED vars
  <2>1. /\ Still /\ strand' = strand /\ ops' = ops /\ link' = link /\ opens' = opens
        /\ pending' = pending /\ closed' = closed /\ destroyer' = destroyer
        /\ handle' = handle /\ sender' = sender
    BY <1>4, Zenon DEF vars, queueVars, closeVars, lifeVars, streamVars, appVars, Still
  <2>2. StrandOK' /\ OpsOK' /\ Types'
    BY <2>1 DEF IInv, StrandOK, OpsOK, Types, Still
  <2>3. Flags'
    BY <2>1, Zenon DEF IInv, Flags, Still
  <2>4. Flow' /\ Retrying' /\ Writing' /\ Bounded' /\ Closing'
    <3>1. Flow' /\ Retrying'
      BY <2>1 DEF IInv, Flow, Retrying, In, Count, Still
    <3>2. Writing'
      BY <2>1 DEF IInv, Writing, In, Still
    <3>3. Bounded'
      BY <2>1 DEF IInv, Bounded, Still
    <3>4. Closing'
      BY <2>1 DEF IInv, Closing, Still
    <3> QED BY <3>1, <3>2, <3>3, <3>4
  <2>5. Pending' /\ Limits'
    BY <2>1 DEF IInv, Pending, Limits, Inside, Count, Still
  <2>6. Callbacks'
    BY <2>1, Zenon DEF IInv, Callbacks, Still
  <2> QED BY <2>2, <2>3, <2>4, <2>5, <2>6 DEF IInv
<1> QED BY <1>1, <1>2, <1>3, <1>4, Zenon DEF Next, Destroyed

(***************************************************************************)
(* What the invariant shows                                                *)
(***************************************************************************)
\* The attempts of a connection are bounded, if max_attempts is.
LEMMA GenerationsBounded ==
    ASSUME IInv
    PROVE  \A n \in 0 .. generation : n \in Generations
<1>1. /\ generation \in Nat /\ failures \in Nat /\ opens \in Nat /\ opens <= MaxOpens
      /\ max_attempts \in Nat /\ MaxOpens \in Nat
  BY ClientAssumption DEF IInv, Types
<1>2. CASE max_attempts = 0
  BY <1>1, <1>2 DEF Generations
<1>3. CASE max_attempts > 0
  <2> DEFINE k == max_attempts + 1
             X == opens * k
             d == MaxOpens - opens
             Y == d * k
  <2>1. k \in Nat /\ d \in Nat /\ X \in Nat /\ Y \in Nat
    BY <1>1, OneMoreOpen
  <2>2. (MaxOpens + 1) * k = X + Y + k
    <3>1. MaxOpens + 1 = opens + d + 1
      BY <1>1
    <3>2. \A a, b, c \in Nat : (a + b + 1) * c = a * c + b * c + c
      OBVIOUS
    <3> HIDE DEF k, d
    <3> QED BY <1>1, <2>1, <3>1, <3>2 DEF k
  <2>3. generation <= X + max_attempts + 1
    <3>1. /\ state = "stopped" => generation <= X + max_attempts + 1
          /\ state # "stopped" => /\ failures <= max_attempts
                                  /\ generation <= X + failures + Flag(state = "connecting")
      BY <1>3 DEF IInv, Bounded
    <3>2. Flag(state = "connecting") \in {0, 1}
      BY DEF Flag
    <3> HIDE DEF X, Flag
    <3> QED BY <1>1, <2>1, <3>1, <3>2
  <2> HIDE DEF X, Y
  <2>4. generation <= (MaxOpens + 1) * k
    <3> DEFINE Z == (MaxOpens + 1) * k
    <3>1. Z = X + Y + (max_attempts + 1)
      BY <2>2
    <3> HIDE DEF Z
    <3>2. generation <= Z
      BY <1>1, <2>1, <2>3, <3>1
    <3> QED BY <3>2 DEF Z
  <2>5. Generations = 0 .. (MaxOpens + 1) * k
    BY <1>3 DEF Generations
  <2>6. (MaxOpens + 1) * k \in Nat
    BY <1>1, <2>1, <2>2
  <2> HIDE DEF k
  <2> DEFINE Z == (MaxOpens + 1) * k
  <2> HIDE DEF Z
  <2>7. Z \in Nat /\ generation <= Z /\ Generations = 0 .. Z
    BY <2>4, <2>5, <2>6 DEF Z
  <2> QED BY <1>1, <2>7
<1> QED BY <1>1, <1>2, <1>3

\* Every variable has its type, attempts are bounded by max_attempts, and the queue
\* holds no more than its limit: pending is never less than what is queued.
THEOREM TypeCorrect == Spec => []TypeOK
<1>1. IInv => TypeOK
  <2> SUFFICES ASSUME IInv PROVE TypeOK
    OBVIOUS
  <2>1. /\ generation \in Nat /\ failures \in Nat /\ pending \in Nat
        /\ request \in Requests /\ link \in {"none", "up", "down"} /\ state \in States
        /\ requested_code \in Codes /\ asked \in Codes /\ write_queue \in Seq(Nat)
        /\ destroyer \in {"none", "holding", "joining", "done"}
        /\ sender \in [Senders ->
               [at : {"idle", "checked", "reserved", "loaded"}, gen : 0 .. generation]]
    BY DEF IInv, Types
  <2>2. 0 .. generation \subseteq Generations
    BY GenerationsBounded
  <2>3. generation \in Generations
    BY <2>1, <2>2
  <2>4. \A i \in 1 .. Len(strand) : strand[i].gen \in Generations
    <3>1. strand \in Seq(Tasks) /\ \A i \in 1 .. Len(strand) : TaskOK(strand[i], generation)
      BY DEF IInv, StrandOK
    <3>2. \A i \in 1 .. Len(strand) : strand[i] \in Tasks
      BY <3>1
    <3>3. \A t \in Tasks : t.gen \in Nat
      BY DEF Tasks
    <3>4. \A i \in 1 .. Len(strand) : strand[i].gen <= generation
      BY <3>1 DEF TaskOK
    <3>5. \A i \in 1 .. Len(strand) : strand[i].gen \in 0 .. generation
      BY <2>1, <3>2, <3>3, <3>4
    <3> QED BY <2>2, <3>5
  <2>5. /\ IsABag(ops)
        /\ \A o \in DOMAIN ops :
               o \in [op : Steps \cup {"read", "write", "close"}, gen : Generations]
    <3>1. IsABag(ops) /\ \A o \in DOMAIN ops : o \in [op : OpNames, gen : 1 .. generation]
      BY DEF IInv, OpsOK
    <3>2. 1 .. generation \subseteq Generations
      BY <2>1, <2>2
    <3> QED BY <3>1, <3>2 DEF OpNames
  <2>6. max_attempts > 0 => failures <= max_attempts + 1
    BY <2>1, ClientAssumption DEF IInv, Bounded
  <2>7. pending \in 0 .. send_queue_limit /\ Len(write_queue) <= send_queue_limit
    <3>1. /\ pending = Cardinality(Inside) + Cardinality(Places(strand, Sends))
                          + Len(write_queue)
          /\ pending <= send_queue_limit /\ send_queue_limit \in Nat
      BY ClientAssumption DEF IInv, Pending, Limits, Count
    <3>2. Cardinality(Inside) \in Nat
      <4>1. Inside \subseteq Senders
        BY DEF Inside
      <4> QED BY <4>1, InsideFinite
    <3>3. Cardinality(Places(strand, Sends)) \in Nat
      BY Counted DEF IInv
    <3>4. Len(write_queue) \in Nat
      BY <2>1
    <3> QED BY <2>1, <3>1, <3>2, <3>3, <3>4
  <2>8. {timer, connected, stop_requested, close_done, read_done, closed, handle}
            \subseteq BOOLEAN
    BY Zenon DEF IInv, Flags
  <2>9. sender \in [Senders ->
            [at : {"idle", "checked", "reserved", "loaded"}, gen : Generations]]
    BY <2>1, <2>2
  <2>10. {requested_code, asked} \subseteq Codes
    BY <2>1
  <2> QED BY <2>1, <2>3, <2>4, <2>5, <2>6, <2>7, <2>8, <2>9, <2>10 DEF TypeOK
<1> QED BY <1>1, IInvInit, IInvNext, PTL DEF Spec

\* What InFlight() and the other counts of the properties are.
LEMMA SameCounts ==
    ASSUME IInv
    PROVE  /\ \A op : InFlight(op, generation) = In(op)
           /\ InStrand("start", 0) = Count(Starts)
           /\ Cardinality({i \in 1 .. Len(strand) :
                  strand[i].op = "retry" /\ strand[i].arg = "ok"}) = Count(Expired)
           /\ Cardinality({i \in 1 .. Len(strand) : strand[i].op = "send"}) = Count(Sends)
<1>1. strand \in Seq(Tasks) /\ IsABag(ops)
  BY DEF IInv, StrandOK, OpsOK
<1>2. \A i \in 1 .. Len(strand) : strand[i] \in Tasks
  BY <1>1
<1>3. \A op : InFlight(op, generation) = In(op)
  BY <1>1, FlyIsInFlight DEF InFlight, InStrand, In
<1>4. {i \in 1 .. Len(strand) : strand[i].op = "start" /\ strand[i].gen = 0}
         = Places(strand, Starts)
  <2>1. \A i \in 1 .. Len(strand) : strand[i].op = "start" => strand[i].gen = 0
    BY DEF IInv, StrandOK, TaskOK
  <2> QED BY <1>2, <2>1 DEF Places, Starts
<1>5. {i \in 1 .. Len(strand) : strand[i].op = "retry" /\ strand[i].arg = "ok"}
         = Places(strand, Expired)
  BY <1>2 DEF Places, Expired
<1>6. {i \in 1 .. Len(strand) : strand[i].op = "send"} = Places(strand, Sends)
  BY <1>2 DEF Places, Sends
<1> QED BY <1>3, <1>4, <1>5, <1>6 DEF InStrand, Count

\* A connection that is not stopped waits for exactly one thing that takes it further:
\* it is never forgotten, and no two chains of handlers drive it.
THEOREM ConnectionsGoOn == Spec => []OneContinuation
<1>1. IInv => OneContinuation
  <2> SUFFICES ASSUME IInv PROVE OneContinuation
    OBVIOUS
  <2>1. /\ \A op : InFlight(op, generation) = In(op)
        /\ InStrand("start", 0) = Count(Starts)
        /\ Cardinality({i \in 1 .. Len(strand) :
               strand[i].op = "retry" /\ strand[i].arg = "ok"}) = Count(Expired)
    BY SameCounts
  <2>2. state = "idle" => InStrand("start", 0) = 1
    BY <2>1 DEF IInv, Flow, Flag
  <2>3. InFlight("resolve", generation) + InFlight("connect", generation)
            + InFlight("tls", generation) + InFlight("upgrade", generation)
               = Flag(state = "connecting")
    BY <2>1 DEF IInv, Flow, Attempting, In
  <2>4. read_done \in BOOLEAN /\ close_done \in BOOLEAN /\ timer \in BOOLEAN
    BY Zenon DEF IInv, Flags
  <2>5. InFlight("read", generation) = Flag(state = "open" \/ (state = "closing" /\ ~read_done))
    <3>1. In("read") = Flag(state = "open" \/ (state = "closing" /\ read_done = FALSE))
      BY DEF IInv, Flow
    <3>2. read_done = FALSE <=> ~read_done
      BY <2>4, Zenon
    <3> QED BY <2>1, <3>1, <3>2 DEF Flag
  <2>6. state = "closing" /\ read_done => InFlight("close", generation) = 1
    <3> SUFFICES ASSUME state = "closing", read_done PROVE In("close") = 1
      BY <2>1
    <3>1. read_done = TRUE
      BY <2>4, Zenon
    <3>2. ~(close_done = TRUE /\ read_done = TRUE) /\ In("close") = Flag(close_done = FALSE)
      BY DEF IInv, Flow
    <3>3. close_done = FALSE
      BY <2>4, <3>1, <3>2, Zenon
    <3> QED BY <3>2, <3>3 DEF Flag
  <2>7. state = "waiting" =>
            Flag(timer) + Cardinality({i \in 1 .. Len(strand) :
                strand[i].op = "retry" /\ strand[i].arg = "ok"}) = 1
    <3>1. Flag(timer) = Flag(timer = TRUE)
      <4>1. timer <=> timer = TRUE
        BY <2>4, Zenon
      <4> QED BY <4>1 DEF Flag
    <3>2. state = "waiting" => Flag(timer = TRUE) + Count(Expired) = 1
      BY DEF IInv, Retrying
    <3> HIDE DEF Flag
    <3> QED BY <2>1, <3>1, <3>2
  <2> QED BY <2>2, <2>3, <2>5, <2>6, <2>7, Zenon DEF OneContinuation
<1> QED BY <1>1, IInvInit, IInvNext, PTL DEF Spec

\* pendingMessages() is what threads reserved, posted lambdas carry and the queue holds.
THEOREM PendingIsExact == Spec => []PendingExact
<1>1. IInv => PendingExact
  BY SameCounts DEF IInv, Pending, PendingExact, Inside
<1> QED BY <1>1, IInvInit, IInvNext, PTL DEF Spec

\* Writes on a stream never overlap, a queue on a live stream is being written, and no
\* message goes out on a later connection than the one it was accepted for.
THEOREM WritesNeverOverlap == Spec => []OneWriteLoop
<1>1. IInv => OneWriteLoop
  <2> SUFFICES ASSUME IInv PROVE OneWriteLoop
    OBVIOUS
  <2>1. InFlight("write", generation) = In("write")
    BY SameCounts
  <2> QED BY <2>1 DEF IInv, Writing, OneWriteLoop
<1> QED BY <1>1, IInvInit, IInvNext, PTL DEF Spec

\* The retries of a sequence of callbacks in order: numbered, and their delays double.
LEMMA RetriesDouble ==
    ASSUME NEW c \in Seq(Events), Retries(c)
    PROVE  \A i \in At(c, "reconnecting") :
               LET n == Cardinality({j \in At(c, "reconnecting") : j <= i})
               IN  /\ i > 1 /\ c[i - 1].event \in {"error", "close"}
                   /\ c[i].attempt = n
                   /\ max_attempts > 0 => n <= max_attempts
                   /\ n = 1 => c[i].delay = capped(initial_delay)
                   /\ \A j \in At(c, "reconnecting") : c[j].attempt = n - 1 =>
                          c[i].delay = capped(2 * c[j].delay)
<1> DEFINE R == At(c, "reconnecting")
           m(i) == Cardinality({j \in R : j <= i})
<1>1. \A i \in R : /\ i > 1 /\ c[i - 1].event \in {"error", "close"}
                   /\ c[i].attempt = m(i)
                   /\ max_attempts > 0 => m(i) <= max_attempts
                   /\ c[i].delay = retryDelay(m(i))
  BY DEF Retries
<1>2. R \subseteq 1 .. Len(c) /\ IsFiniteSet(R) /\ Len(c) \in Nat
  <2>1. R \subseteq 1 .. Len(c) /\ Len(c) \in Nat
    BY DEF At
  <2> HIDE DEF R
  <2>2. IsFiniteSet(1 .. Len(c))
    BY <2>1, FS_Interval
  <2>3. IsFiniteSet(R)
    BY <2>1, <2>2, FS_Subset
  <2> QED BY <2>1, <2>3
<1>3. \A i \in R : m(i) \in Nat \ {0}
  <2> SUFFICES ASSUME NEW i \in R PROVE m(i) \in Nat \ {0}
    OBVIOUS
  <2> DEFINE S == {j \in R : j <= i}
  <2> HIDE DEF R
  <2>1. S \subseteq R /\ i \in S
    BY <1>2
  <2> HIDE DEF S
  <2>2. IsFiniteSet(S) /\ S # {}
    BY <1>2, <2>1, FS_Subset
  <2>3. Cardinality(S) \in Nat /\ Cardinality(S) # 0
    BY <2>2, FS_CardinalityType, FS_EmptySet
  <2> QED BY <2>3 DEF S
<1> HIDE DEF m, R
<1>4. ASSUME NEW i \in R
      PROVE  /\ m(i) = 1 => c[i].delay = capped(initial_delay)
             /\ \A j \in R : c[j].attempt = m(i) - 1 => c[i].delay = capped(2 * c[j].delay)
  <2>1. m(i) = 1 => c[i].delay = capped(initial_delay)
    BY <1>1, DelaysDouble
  <2>2. ASSUME NEW j \in R, c[j].attempt = m(i) - 1
        PROVE  c[i].delay = capped(2 * c[j].delay)
    <3>1. m(j) = m(i) - 1 /\ m(i) \in Nat /\ m(j) \in Nat \ {0}
      BY <1>1, <1>3, <2>2
    <3>2. m(i) = m(j) + 1
      BY <3>1
    <3>3. c[i].delay = retryDelay(m(j) + 1) /\ c[j].delay = retryDelay(m(j))
      BY <1>1, <3>2
    <3> QED BY <3>1, <3>3, DelaysDouble
  <2> QED BY <2>1, <2>2
<1> QED BY <1>1, <1>4 DEF m, R

\* onOpen, messages and exactly one onClose in this order; retries follow a failure or a
\* close, are numbered, wait twice as long each time, and end with max_attempts.
THEOREM CallbacksInOrder == Spec => []CallbackOrder
<1>1. IInv => CallbackOrder
  <2> SUFFICES ASSUME IInv PROVE CallbackOrder
    OBVIOUS
  <2>1. /\ Ordered(calls) /\ Retries(calls) /\ calls \in Seq(Events)
        /\ IsUp(calls) <=> state \in {"open", "closing"}
        /\ connected = TRUE <=> state \in {"open", "closing"}
    BY DEF IInv, Callbacks, Types, Ordered
  <2>2. \A e : Called(e) = At(calls, e)
    BY DEF Called, At
  <2> DEFINE up == Called("open") # {} /\ Called("close") = {}
  <2>3. up <=> IsUp(calls)
    BY <2>2 DEF IsUp
  <2>4. /\ Called("open") \subseteq {1}
        /\ Cardinality(Called("close")) = IF Called("open") = {} \/ up THEN 0 ELSE 1
        /\ \A i \in Called("message") :
               Called("open") = {1} /\ \A j \in Called("close") : i < j
    <3>1. /\ At(calls, "open") \subseteq {1}
          /\ Cardinality(At(calls, "close"))
                = IF At(calls, "open") = {} \/ IsUp(calls) THEN 0 ELSE 1
          /\ \A i \in At(calls, "message") :
                At(calls, "open") = {1} /\ \A j \in At(calls, "close") : i < j
      BY <2>1 DEF Ordered
    <3> HIDE DEF up
    <3> QED BY <2>2, <2>3, <3>1
  <2>5. up = (state \in {"open", "closing"})
    BY <2>1, <2>3
  <2>6. connected = up
    <3>1. connected \in BOOLEAN
      BY Zenon DEF IInv, Flags
    <3>2. (connected = TRUE) <=> up
      BY <2>1, <2>3
    <3> HIDE DEF up
    <3>3. up \in BOOLEAN
      BY DEF up
    <3> QED BY <3>1, <3>2, <3>3, Zenon
  <2>7. \A i \in Called("gave_up") :
            /\ i = Len(calls) /\ max_attempts > 0
            /\ Cardinality(Called("reconnecting")) = max_attempts
    BY <2>1, <2>2 DEF Ordered
  <2>8. \A i \in Called("reconnecting") :
            LET n == Cardinality({j \in Called("reconnecting") : j <= i})
            IN  /\ i > 1 /\ calls[i - 1].event \in {"error", "close"}
                /\ calls[i].attempt = n
                /\ max_attempts > 0 => n <= max_attempts
                /\ n = 1 => calls[i].delay = capped(initial_delay)
                /\ \A j \in Called("reconnecting") : calls[j].attempt = n - 1 =>
                       calls[i].delay = capped(2 * calls[j].delay)
    <3>1. Called("reconnecting") = At(calls, "reconnecting")
      BY <2>2
    <3>2. \A i \in At(calls, "reconnecting") :
              LET n == Cardinality({j \in At(calls, "reconnecting") : j <= i})
              IN  /\ i > 1 /\ calls[i - 1].event \in {"error", "close"}
                  /\ calls[i].attempt = n
                  /\ max_attempts > 0 => n <= max_attempts
                  /\ n = 1 => calls[i].delay = capped(initial_delay)
                  /\ \A j \in At(calls, "reconnecting") : calls[j].attempt = n - 1 =>
                         calls[i].delay = capped(2 * calls[j].delay)
      BY <2>1, RetriesDouble
    <3> DEFINE R == Called("reconnecting")
    <3>3. R = At(calls, "reconnecting")
      BY <3>1
    <3> HIDE DEF R
    <3>4. \A i \in R :
              LET n == Cardinality({j \in R : j <= i})
              IN  /\ i > 1 /\ calls[i - 1].event \in {"error", "close"}
                  /\ calls[i].attempt = n
                  /\ max_attempts > 0 => n <= max_attempts
                  /\ n = 1 => calls[i].delay = capped(initial_delay)
                  /\ \A j \in R : calls[j].attempt = n - 1 =>
                         calls[i].delay = capped(2 * calls[j].delay)
      BY <3>2, <3>3
    <3> QED BY <3>4 DEF R
  <2> QED BY <2>4, <2>5, <2>6, <2>7, <2>8, Zenon DEF CallbackOrder
<1> QED BY <1>1, IInvInit, IInvNext, PTL DEF Spec

\* Only attempt() changes the generation, and not once a close() took effect.
LEMMA OnlyAttempts ==
    ASSUME IInv, Next
    PROVE  generation' = generation \/ ~stop_requested
<1>1. CASE Stream
  BY <1>1, Zenon DEF Stream, StepOk, StepFails, UpgradeDeclined, MessageRead, StreamEnds,
        ReadFails, WriteOk, WriteFails, CloseEnds, TimerExpires, StreamFrame
<1>2. CASE Handlers
  <2>1. attempt => generation' = generation \/ ~stop_requested
    BY Zenon DEF attempt
  <2>2. Start \/ OnRetry => generation' = generation \/ attempt
    BY Zenon DEF Start, OnRetry
  <2>3. CASE ~(Start \/ OnRetry)
    BY <1>2, <2>3, Zenon DEF Handlers, OnStale, OnStepFailed, OnResolve, OnConnect,
        OnConnectNoSni, OnTls, OnDeclined, OnUpgraded, OnUpgradedClosing, OnMessage,
        EndedOwnClose, Ended, OnClose, SendTask, OnWriteFailed, OnWrite, DoCloseAgain,
        DoCloseOpen, DoCloseConnecting, DoCloseWaiting
  <2> QED BY <2>1, <2>2, <2>3
<1>3. CASE \/ AppClose \/ DropHandle
           \/ \E t \in Senders : SendCheck(t) \/ Sending(t)
           \/ Destroy \/ DestroyCloses \/ DestroyJoins
  BY <1>3, Zenon DEF AppClose, DropHandle, SendCheck, Sending, SendReserve, SendLoad, SendPost,
        Destroy, DestroyCloses, DestroyJoins, ThreadFrame
<1>4. CASE Destroyed
  BY <1>4, Zenon DEF Destroyed, vars
<1> QED BY <1>1, <1>2, <1>3, <1>4, Zenon DEF Next

\* No attempt starts once close() took effect, whatever was queued or running then:
\* the safety part of CloseIsFinal.
THEOREM CloseEndsAttempts == Spec => ClosedForGood
<1>1. IInv /\ [Next]_vars => [asked # "none" => generation' = generation]_vars
  <2> SUFFICES ASSUME IInv, Next, asked # "none" PROVE generation' = generation
    BY Zenon
  <2>1. stop_requested = TRUE
    BY DEF IInv, Closing
  <2>2. generation' = generation \/ ~stop_requested
    BY OnlyAttempts
  <2> QED BY <2>1, <2>2, Zenon
<1> QED BY <1>1, IInvInit, IInvNext, PTL DEF Spec, ClosedForGood

=============================================================================
