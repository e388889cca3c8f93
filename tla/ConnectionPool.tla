--------------------------- MODULE ConnectionPool ---------------------------
(***************************************************************************)
(* The connection pool of include/cppgate/ConnectionPool.h.                *)
(*                                                                         *)
(* One action is one section of code under the pool's mutex, or one call   *)
(* made outside it (factory, validate function, a connection's             *)
(* destructor).  Threads are the threads inside acquire() or warmUp(); a   *)
(* Pooled handle can be moved to any thread, so release(), discard() and   *)
(* close() are not tied to a member of Threads.                            *)
(*                                                                         *)
(* Conns are the identities of physical connections; an identity is used   *)
(* again after its connection was closed.  The clock is abstracted: how    *)
(* long a connection was idle is chosen when checkOut() reads the clock.   *)
(***************************************************************************)
EXTENDS Integers, Sequences, FiniteSets, SequencesExt

CONSTANTS
    Threads,        \* threads that call acquire() and warmUp()
    Conns,          \* identities of connections
    NoConn,         \* an empty std::optional<T>
    min_size,
    max_size,
    HasMaxIdle,     \* options_.max_idle is not "never"
    HasValidate     \* a validate function was given

ASSUME PoolAssumption ==
    /\ IsFiniteSet(Threads)
    /\ IsFiniteSet(Conns)
    /\ NoConn \notin Conns
    /\ min_size \in Nat
    /\ max_size \in Nat \ {0}
    /\ min_size <= max_size
    /\ max_size <= Cardinality(Conns)
    /\ HasMaxIdle \in BOOLEAN
    /\ HasValidate \in BOOLEAN

VARIABLES
    idle_,          \* sequence of connections, last = most recently used
    waiters_,       \* sequence of threads, first = served next
    open_,          \* slots in use: idle + in use + being opened
    closed_,
    pc,             \* where each thread is in acquire() or warmUp()
    conn,           \* the connection in a thread's local variables
    above_min,      \* acquire()'s local above_min, read under the lock
    waiter,         \* the thread's Waiter: none, pending, or how it was served
    handles,        \* connections held by Pooled handles
    discarding,     \* connections being closed by discard(), slot still counted
    drops,          \* discard() calls that closed theirs, about to call dropped()
    doomed          \* connections being closed that open_ no longer counts

vars == <<idle_, waiters_, open_, closed_, pc, conn, above_min, waiter,
          handles, discarding, drops, doomed>>

shared == <<idle_, waiters_, open_, closed_>>
handleState == <<handles, discarding, drops, doomed>>

Labels == {"out", "acquire", "checkOut", "expired", "broken", "retryDrop",
           "open", "failDrop", "wait", "warm", "warmOpen", "warmGive"}

WaiterStates == {"none", "pending", "connection", "may_open", "closed"}

\* waiters_.erase(std::find(..., x)); x occurs in s
Erase(s, x) == RemoveAt(s, CHOOSE i \in 1 .. Len(s) : s[i] = x)

\* Connections that are physically open (their destructor has not run)
Live == ToSet(idle_) \cup handles \cup discarding \cup doomed
        \cup ({conn[t] : t \in Threads} \ {NoConn})

Init ==
    /\ idle_ = <<>>
    /\ waiters_ = <<>>
    /\ open_ = 0
    /\ closed_ = FALSE
    /\ pc = [t \in Threads |-> "out"]
    /\ conn = [t \in Threads |-> NoConn]
    /\ above_min = [t \in Threads |-> FALSE]
    /\ waiter = [t \in Threads |-> "none"]
    /\ handles = {}
    /\ discarding = {}
    /\ drops = 0
    /\ doomed = {}

Goto(t, l) == pc' = [pc EXCEPT ![t] = l]

(***************************************************************************)
(* Faulty variants.  Each changes one definition below the way a slip in   *)
(* the code would; they are not part of the specification and only show    *)
(* that the properties can fail.                                           *)
(***************************************************************************)
\* giveBack() without the closed_ check
GiveBackNoClosedCheck(c, others) ==
    /\ UNCHANGED <<open_, doomed>>
    /\ \/ /\ waiters_ # <<>>
          /\ waiters_' = Tail(waiters_)
          /\ waiter' = [waiter EXCEPT ![Head(waiters_)] = "connection"]
          /\ conn' = [others EXCEPT ![Head(waiters_)] = c]
          /\ UNCHANGED idle_
       \/ /\ waiters_ = <<>>
          /\ idle_' = Append(idle_, c)
          /\ conn' = others
          /\ UNCHANGED <<waiters_, waiter>>

\* giveBack() on a closed pool without --open_
GiveBackKeepsSlot(c, others) ==
    \/ /\ closed_
       /\ doomed' = doomed \cup {c}
       /\ conn' = others
       /\ UNCHANGED <<open_, idle_, waiters_, waiter>>
    \/ ~closed_ /\ GiveBackNoClosedCheck(c, others)

\* giveBack() without the return after serving a waiter
GiveBackNoReturn(c, others) ==
    \/ /\ closed_
       /\ open_' = open_ - 1
       /\ doomed' = doomed \cup {c}
       /\ conn' = others
       /\ UNCHANGED <<idle_, waiters_, waiter>>
    \/ /\ ~closed_
       /\ idle_' = Append(idle_, c)
       /\ UNCHANGED <<open_, doomed>>
       /\ \/ /\ waiters_ # <<>>
             /\ waiters_' = Tail(waiters_)
             /\ waiter' = [waiter EXCEPT ![Head(waiters_)] = "connection"]
             /\ conn' = [others EXCEPT ![Head(waiters_)] = c]
          \/ /\ waiters_ = <<>>
             /\ conn' = others
             /\ UNCHANGED <<waiters_, waiter>>

\* giveBack() serving waiters_.back() instead of waiters_.front()
GiveBackLifo(c, others) ==
    \/ /\ closed_
       /\ open_' = open_ - 1
       /\ doomed' = doomed \cup {c}
       /\ conn' = others
       /\ UNCHANGED <<idle_, waiters_, waiter>>
    \/ /\ ~closed_
       /\ waiters_ = <<>>
       /\ GiveBackNoClosedCheck(c, others)
    \/ /\ ~closed_
       /\ waiters_ # <<>>
       /\ waiters_' = Front(waiters_)
       /\ waiter' = [waiter EXCEPT ![Last(waiters_)] = "connection"]
       /\ conn' = [others EXCEPT ![Last(waiters_)] = c]
       /\ UNCHANGED <<idle_, open_, doomed>>

\* dropped() that gives up the slot even when a thread waits for it
DroppedNoHandOver ==
    /\ open_' = open_ - 1
    /\ UNCHANGED <<idle_, closed_, conn, waiters_, waiter>>

\* dropped() without the return after serving a waiter
DroppedNoReturn ==
    /\ open_' = open_ - 1
    /\ UNCHANGED <<idle_, closed_, conn>>
    /\ \/ /\ ~closed_
          /\ waiters_ # <<>>
          /\ waiters_' = Tail(waiters_)
          /\ waiter' = [waiter EXCEPT ![Head(waiters_)] = "may_open"]
       \/ /\ closed_ \/ waiters_ = <<>>
          /\ UNCHANGED <<waiters_, waiter>>

\* openReserved() without the catch block
FactoryThrowsLeaks(t) ==
    /\ pc[t] \in {"open", "warmOpen"}
    /\ Goto(t, "out")
    /\ UNCHANGED <<shared, conn, above_min, waiter, handleState>>

\* discard() calling dropped() before connection_.reset()
DiscardSlotFirst(c) ==
    /\ c \in handles
    /\ handles' = handles \ {c}
    /\ doomed' = doomed \cup {c}
    /\ drops' = drops + 1
    /\ UNCHANGED <<shared, pc, conn, above_min, waiter, discarding>>

(***************************************************************************)
(* giveBack(c) under the lock.  The closed pool drops the connection after *)
(* unlocking (doomed); the first waiter gets it in its Waiter; otherwise   *)
(* it becomes the most recently used idle one.  others = the connections   *)
(* in threads' locals once the caller has moved c out of its own.          *)
(***************************************************************************)
GiveBack(c, others) ==
    \/ /\ closed_
       /\ open_' = open_ - 1
       /\ doomed' = doomed \cup {c}
       /\ conn' = others
       /\ UNCHANGED <<idle_, waiters_, waiter>>
    \/ /\ ~closed_
       /\ waiters_ # <<>>
       /\ waiters_' = Tail(waiters_)
       /\ waiter' = [waiter EXCEPT ![Head(waiters_)] = "connection"]
       /\ conn' = [others EXCEPT ![Head(waiters_)] = c]
       /\ UNCHANGED <<idle_, open_, doomed>>
    \/ /\ ~closed_
       /\ waiters_ = <<>>
       /\ idle_' = Append(idle_, c)
       /\ conn' = others
       /\ UNCHANGED <<waiters_, waiter, open_, doomed>>

(***************************************************************************)
(* dropped(): the freed slot goes to the first waiter, still counted, or   *)
(* is given up.                                                            *)
(***************************************************************************)
Dropped ==
    /\ UNCHANGED <<idle_, closed_, conn>>
    /\ \/ /\ ~closed_
          /\ waiters_ # <<>>
          /\ waiters_' = Tail(waiters_)
          /\ waiter' = [waiter EXCEPT ![Head(waiters_)] = "may_open"]
          /\ UNCHANGED open_
       \/ /\ closed_ \/ waiters_ = <<>>
          /\ open_' = open_ - 1
          /\ UNCHANGED <<waiters_, waiter>>

(***************************************************************************)
(* acquire()                                                               *)
(***************************************************************************)
CallAcquire(t) ==
    /\ pc[t] = "out"
    /\ Goto(t, "acquire")
    /\ UNCHANGED <<shared, conn, above_min, waiter, handleState>>

\* throw ConnectionPoolClosed
AcquireClosed(t) ==
    /\ pc[t] = "acquire"
    /\ closed_
    /\ Goto(t, "out")
    /\ UNCHANGED <<shared, conn, above_min, waiter, handleState>>

\* 1. An idle connection, the most recently used; above_min is read here
AcquireIdle(t) ==
    /\ pc[t] = "acquire"
    /\ ~closed_
    /\ idle_ # <<>>
    /\ conn' = [conn EXCEPT ![t] = Last(idle_)]
    /\ idle_' = Front(idle_)
    /\ above_min' = [above_min EXCEPT ![t] = open_ > min_size]
    /\ Goto(t, "checkOut")
    /\ UNCHANGED <<waiters_, open_, closed_, waiter, handleState>>

\* 2. Room for a new one: reserve the slot, open it outside the lock
AcquireRoom(t) ==
    /\ pc[t] = "acquire"
    /\ ~closed_
    /\ idle_ = <<>>
    /\ open_ < max_size
    /\ open_' = open_ + 1
    /\ Goto(t, "open")
    /\ UNCHANGED <<idle_, waiters_, closed_, conn, above_min, waiter, handleState>>

\* 3. Wait in order
AcquireWait(t) ==
    /\ pc[t] = "acquire"
    /\ ~closed_
    /\ idle_ = <<>>
    /\ open_ >= max_size
    /\ waiters_' = Append(waiters_, t)
    /\ waiter' = [waiter EXCEPT ![t] = "pending"]
    /\ Goto(t, "wait")
    /\ UNCHANGED <<idle_, open_, closed_, conn, above_min, handleState>>

\* wait_until() returned false: the deadline passed and nobody served it
WaitTimeout(t) ==
    /\ pc[t] = "wait"
    /\ waiter[t] = "pending"
    /\ waiters_' = Erase(waiters_, t)
    /\ waiter' = [waiter EXCEPT ![t] = "none"]
    /\ Goto(t, "out")
    /\ UNCHANGED <<idle_, open_, closed_, conn, above_min, handleState>>

\* close() woke it: throw ConnectionPoolClosed
WakeClosed(t) ==
    /\ pc[t] = "wait"
    /\ waiter[t] = "closed"
    /\ waiter' = [waiter EXCEPT ![t] = "none"]
    /\ Goto(t, "out")
    /\ UNCHANGED <<shared, conn, above_min, handleState>>

\* giveBack() handed it a connection: return it, without validating it
WakeConnection(t) ==
    /\ pc[t] = "wait"
    /\ waiter[t] = "connection"
    /\ waiter' = [waiter EXCEPT ![t] = "none"]
    /\ handles' = handles \cup {conn[t]}
    /\ conn' = [conn EXCEPT ![t] = NoConn]
    /\ Goto(t, "out")
    /\ UNCHANGED <<shared, above_min, discarding, drops, doomed>>

\* dropped() passed its slot on: open a connection in it
WakeMayOpen(t) ==
    /\ pc[t] = "wait"
    /\ waiter[t] = "may_open"
    /\ waiter' = [waiter EXCEPT ![t] = "none"]
    /\ Goto(t, "open")
    /\ UNCHANGED <<shared, conn, above_min, handleState>>

(***************************************************************************)
(* checkOut(), outside the lock                                            *)
(***************************************************************************)
\* neither expired nor broken: the handle is returned
Usable(t) ==
    /\ pc[t] = "checkOut"
    /\ handles' = handles \cup {conn[t]}
    /\ conn' = [conn EXCEPT ![t] = NoConn]
    /\ above_min' = [above_min EXCEPT ![t] = FALSE]
    /\ Goto(t, "out")
    /\ UNCHANGED <<shared, waiter, discarding, drops, doomed>>

\* idle_for > max_idle && above_min
Expired(t) ==
    /\ pc[t] = "checkOut"
    /\ HasMaxIdle
    /\ above_min[t]
    /\ above_min' = [above_min EXCEPT ![t] = FALSE]
    /\ Goto(t, "expired")
    /\ UNCHANGED <<shared, conn, waiter, handleState>>

\* idle_for > validate_after_idle and the validate function fails or throws
Broken(t) ==
    /\ pc[t] = "checkOut"
    /\ HasValidate
    /\ above_min' = [above_min EXCEPT ![t] = FALSE]
    /\ Goto(t, "broken")
    /\ UNCHANGED <<shared, conn, waiter, handleState>>

\* `closing` leaves its scope: the connection is closed before dropped()
CloseChecked(t) ==
    /\ pc[t] \in {"expired", "broken"}
    /\ conn' = [conn EXCEPT ![t] = NoConn]
    /\ Goto(t, "retryDrop")
    /\ UNCHANGED <<shared, above_min, waiter, handleState>>

\* dropped() and `continue`
RetryDrop(t) ==
    /\ pc[t] = "retryDrop"
    /\ Dropped
    /\ Goto(t, "acquire")
    /\ UNCHANGED <<above_min, handleState>>

(***************************************************************************)
(* openReserved(), called by acquire() and warmUp()                        *)
(***************************************************************************)
\* The factory returned: acquire() returns a handle, warmUp() gives it back
FactoryOk(t, c) ==
    /\ c \notin Live
    /\ \/ /\ pc[t] = "open"
          /\ handles' = handles \cup {c}
          /\ Goto(t, "out")
          /\ UNCHANGED conn
       \/ /\ pc[t] = "warmOpen"
          /\ conn' = [conn EXCEPT ![t] = c]
          /\ Goto(t, "warmGive")
          /\ UNCHANGED handles
    /\ UNCHANGED <<shared, above_min, waiter, discarding, drops, doomed>>

\* The factory threw: catch, dropped(), rethrow
FactoryThrows(t) ==
    /\ pc[t] \in {"open", "warmOpen"}
    /\ Goto(t, "failDrop")
    /\ UNCHANGED <<shared, conn, above_min, waiter, handleState>>

FailDrop(t) ==
    /\ pc[t] = "failDrop"
    /\ Dropped
    /\ Goto(t, "out")
    /\ UNCHANGED <<above_min, handleState>>

(***************************************************************************)
(* warmUp()                                                                *)
(***************************************************************************)
CallWarmUp(t) ==
    /\ pc[t] = "out"
    /\ Goto(t, "warm")
    /\ UNCHANGED <<shared, conn, above_min, waiter, handleState>>

WarmDone(t) ==
    /\ pc[t] = "warm"
    /\ closed_ \/ open_ >= min_size
    /\ Goto(t, "out")
    /\ UNCHANGED <<shared, conn, above_min, waiter, handleState>>

WarmReserve(t) ==
    /\ pc[t] = "warm"
    /\ ~closed_
    /\ open_ < min_size
    /\ open_' = open_ + 1
    /\ Goto(t, "warmOpen")
    /\ UNCHANGED <<idle_, waiters_, closed_, conn, above_min, waiter, handleState>>

WarmGive(t) ==
    /\ pc[t] = "warmGive"
    /\ GiveBack(conn[t], [conn EXCEPT ![t] = NoConn])
    /\ Goto(t, "warm")
    /\ UNCHANGED <<closed_, above_min, handles, discarding, drops>>

(***************************************************************************)
(* Handles and close(), from any thread                                    *)
(***************************************************************************)
\* Pooled::release(), its destructor, and move assignment over it
Release(c) ==
    /\ c \in handles
    /\ handles' = handles \ {c}
    /\ GiveBack(c, conn)
    /\ UNCHANGED <<closed_, pc, above_min, discarding, drops>>

\* Pooled::discard(): connection_.reset() starts ...
Discard(c) ==
    /\ c \in handles
    /\ handles' = handles \ {c}
    /\ discarding' = discarding \cup {c}
    /\ UNCHANGED <<shared, pc, conn, above_min, waiter, drops, doomed>>

\* ... the destructor closed the connection ...
Discarded(c) ==
    /\ c \in discarding
    /\ discarding' = discarding \ {c}
    /\ drops' = drops + 1
    /\ UNCHANGED <<shared, pc, conn, above_min, waiter, handles, doomed>>

\* ... and pool_->dropped() runs
DiscardDrop ==
    /\ drops > 0
    /\ drops' = drops - 1
    /\ Dropped
    /\ UNCHANGED <<pc, above_min, handles, discarding, doomed>>

Close ==
    /\ ~closed_
    /\ closed_' = TRUE
    /\ doomed' = doomed \cup ToSet(idle_)
    /\ open_' = open_ - Len(idle_)
    /\ idle_' = <<>>
    /\ waiter' = [t \in Threads |->
                    IF t \in ToSet(waiters_) THEN "closed" ELSE waiter[t]]
    /\ waiters_' = <<>>
    /\ UNCHANGED <<pc, conn, above_min, handles, discarding, drops>>

\* A connection's destructor, run outside the lock by close() or giveBack()
CloseDoomed(c) ==
    /\ c \in doomed
    /\ doomed' = doomed \ {c}
    /\ UNCHANGED <<shared, pc, conn, above_min, waiter, handles, discarding, drops>>

(***************************************************************************)
(* Specification                                                           *)
(***************************************************************************)
\* What the pool and the functions it calls do once a call has been made
Step(t) ==
    \/ AcquireClosed(t) \/ AcquireIdle(t) \/ AcquireRoom(t) \/ AcquireWait(t)
    \/ WakeClosed(t) \/ WakeConnection(t) \/ WakeMayOpen(t)
    \/ Usable(t) \/ Expired(t) \/ Broken(t) \/ CloseChecked(t) \/ RetryDrop(t)
    \/ (\E c \in Conns : FactoryOk(t, c)) \/ FactoryThrows(t) \/ FailDrop(t)
    \/ WarmDone(t) \/ WarmReserve(t) \/ WarmGive(t)

Next ==
    \/ \E t \in Threads :
          CallAcquire(t) \/ CallWarmUp(t) \/ WaitTimeout(t) \/ Step(t)
    \/ \E c \in Conns :
          Release(c) \/ Discard(c) \/ Discarded(c) \/ CloseDoomed(c)
    \/ DiscardDrop
    \/ Close

Spec == Init /\ [][Next]_vars

(***************************************************************************)
(* Fairness: a thread inside a call keeps running, a handle is eventually  *)
(* released or discarded, a destructor that started returns.  Nothing is   *)
(* assumed of timeouts, of calls to acquire() or of close().               *)
(***************************************************************************)
Fairness ==
    /\ \A t \in Threads : WF_vars(Step(t))
    /\ \A c \in Conns : /\ WF_vars(Release(c) \/ Discard(c))
                        /\ WF_vars(Discarded(c))
                        /\ WF_vars(CloseDoomed(c))
    /\ WF_vars(DiscardDrop)

FairSpec == Spec /\ Fairness

(***************************************************************************)
(* Properties                                                              *)
(***************************************************************************)
\* Every variable stays in its type; in particular open_, a std::size_t,
\* never wraps below zero and never passes max_size.
TypeOK ==
    /\ idle_ \in Seq(Conns)
    /\ waiters_ \in Seq(Threads)
    /\ open_ \in 0 .. max_size
    /\ closed_ \in BOOLEAN
    /\ pc \in [Threads -> Labels]
    /\ conn \in [Threads -> Conns \cup {NoConn}]
    /\ above_min \in [Threads -> BOOLEAN]
    /\ waiter \in [Threads -> WaiterStates]
    /\ handles \in SUBSET Conns
    /\ discarding \in SUBSET Conns
    /\ drops \in Nat
    /\ doomed \in SUBSET Conns

\* The threads whose call owns one of the slots counted in open_
SlotOwners ==
    {t \in Threads :
        \/ pc[t] \in {"checkOut", "expired", "broken", "retryDrop",
                      "open", "failDrop", "warmOpen", "warmGive"}
        \/ waiter[t] \in {"connection", "may_open"}}

\* open_ is "idle + in use + being opened": no interleaving of acquire(),
\* warmUp(), giveBack(), dropped() and close() loses a slot or counts one twice.
SlotsAccounted ==
    open_ = Len(idle_) + Cardinality(handles) + Cardinality(discarding)
            + drops + Cardinality(SlotOwners)

\* max_size bounds the connections physically open at the same time, also
\* while some are being closed outside the lock and after close().
LiveBounded == Cardinality(Live) <= max_size

\* A connection has one owner: never idle twice, never in two handles, in two
\* threads' locals or Waiters, nor used while it is being closed.
OneOwner ==
    /\ \A i, j \in 1 .. Len(idle_) : idle_[i] = idle_[j] => i = j
    /\ \A t, u \in Threads : conn[t] = conn[u] /\ conn[t] # NoConn => t = u
    /\ \A t \in Threads :
          conn[t] \notin ToSet(idle_) \cup handles \cup discarding \cup doomed
    /\ ToSet(idle_) \cap (handles \cup discarding \cup doomed) = {}
    /\ handles \cap (discarding \cup doomed) = {}
    /\ discarding \cap doomed = {}

\* A thread waits only while every slot is taken and none is idle: no slot is
\* freed, and no connection becomes idle, past a waiting thread.
WaitersMeanFull == waiters_ # <<>> => idle_ = <<>> /\ open_ = max_size

\* A closed pool never keeps an idle connection or a waiting thread, not even
\* when a connection comes back, or a thread was about to queue, after close().
ClosedIsEmpty == closed_ => idle_ = <<>> /\ waiters_ = <<>>

(***************************************************************************)
(* The abstract semaphore behind the pool: a permit is free when it is an  *)
(* unused slot or an idle connection.                                      *)
(***************************************************************************)
Free == max_size - open_ + Len(idle_)

Woken ==
    [t \in Threads |-> IF waiter[t] \in {"connection", "may_open"} THEN "granted"
                       ELSE IF waiter[t] = "closed" THEN "refused"
                       ELSE "no"]

Sem == INSTANCE FairSemaphore WITH
    Permits <- max_size, free <- Free, queue <- waiters_, woken <- Woken, shut <- closed_

\* "Waiters are served in order (FIFO)": the pool implements a first come,
\* first served semaphore of max_size permits, in which nobody overtakes a
\* waiting thread and a returned permit goes to the head of the queue.
ServesInOrder == Sem!SemSpec

\* A waiting thread is served, or woken by close(), even if its timeout never
\* fires: neither giveBack() nor dropped() loses a wakeup.  After close() the
\* pool drains: no slot stays counted, every connection, those opened or given
\* back late included, is closed, and this is final.
ServedOrDrained ==
    /\ \A t \in Threads : waiter[t] = "pending" ~> waiter[t] # "pending"
    /\ closed_ ~> [](open_ = 0 /\ Live = {})

=============================================================================
