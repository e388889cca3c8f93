---------------------------- MODULE FairSemaphore ----------------------------
(***************************************************************************)
(* What include/cppgate/ConnectionPool.h promises about waiting: a closable *)
(* counting semaphore that serves its waiters first come, first served.    *)
(* A permit is the right to use, open or check one connection.             *)
(***************************************************************************)
EXTENDS Integers, Sequences, FiniteSets, SequencesExt

CONSTANTS
    Threads,
    Permits         \* max_size

VARIABLES
    free,           \* permits nobody holds
    queue,          \* waiting threads, first = served next
    woken,          \* how each waiting thread was woken, until it runs
    shut            \* close() was called

semVars == <<free, queue, woken, shut>>

SemInit ==
    /\ free = Permits
    /\ queue = <<>>
    /\ woken = [t \in Threads |-> "no"]
    /\ shut = FALSE

\* A permit is taken at once only if nobody is waiting: no barging
Take ==
    /\ ~shut
    /\ queue = <<>>
    /\ free > 0
    /\ free' = free - 1
    /\ UNCHANGED <<queue, woken, shut>>

\* A thread queues only if there is no permit left
Enqueue(t) ==
    /\ ~shut
    /\ free = 0
    /\ t \notin ToSet(queue)
    /\ queue' = Append(queue, t)
    /\ UNCHANGED <<free, woken, shut>>

\* Timeout
Leave(t) ==
    /\ t \in ToSet(queue)
    /\ \E i \in 1 .. Len(queue) :
          /\ queue[i] = t
          /\ queue' = RemoveAt(queue, i)
    /\ UNCHANGED <<free, woken, shut>>

\* A returned permit goes straight to the first waiter
HandOver ==
    /\ queue # <<>>
    /\ queue' = Tail(queue)
    /\ woken' = [woken EXCEPT ![Head(queue)] = "granted"]
    /\ UNCHANGED <<free, shut>>

\* With nobody waiting it becomes free
Return ==
    /\ queue = <<>>
    /\ free < Permits
    /\ free' = free + 1
    /\ UNCHANGED <<queue, woken, shut>>

\* The woken thread runs
Run(t) ==
    /\ woken[t] # "no"
    /\ woken' = [woken EXCEPT ![t] = "no"]
    /\ UNCHANGED <<free, queue, shut>>

\* Everyone waiting is refused
Shut ==
    /\ ~shut
    /\ shut' = TRUE
    /\ queue' = <<>>
    /\ woken' = [t \in Threads |->
                    IF t \in ToSet(queue) THEN "refused" ELSE woken[t]]
    /\ UNCHANGED free

SemNext ==
    \/ Take \/ HandOver \/ Return \/ Shut
    \/ \E t \in Threads : Enqueue(t) \/ Leave(t) \/ Run(t)

SemSpec == SemInit /\ [][SemNext]_semVars

=============================================================================
