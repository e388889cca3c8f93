------------------------ MODULE ConnectionPoolProofs ------------------------
(***************************************************************************)
(* Proofs about ConnectionPool, for any number of threads and connections  *)
(* and any min_size <= max_size.                                           *)
(***************************************************************************)
EXTENDS ConnectionPool, SeqLemmas, FiniteSetTheorems, TLAPS

(***************************************************************************)
(* The inductive invariant.  TypeOK is not inductive on its own: that      *)
(* open_ stays within 0 .. max_size needs the accounting of slots, which   *)
(* needs that a connection has one owner and that a thread's Waiter, its   *)
(* place in the queue and its program counter agree.                       *)
(***************************************************************************)
Types ==
    /\ idle_ \in Seq(Conns)
    /\ waiters_ \in Seq(Threads)
    /\ open_ \in Int
    /\ closed_ \in BOOLEAN
    /\ pc \in [Threads -> Labels]
    /\ conn \in [Threads -> Conns \cup {NoConn}]
    /\ above_min \in [Threads -> BOOLEAN]
    /\ waiter \in [Threads -> WaiterStates]
    /\ handles \in SUBSET Conns
    /\ discarding \in SUBSET Conns
    /\ drops \in Nat
    /\ doomed \in SUBSET Conns

\* A thread's place in the queue, its Waiter, its pc and its local connection
\* agree.
QueueShape ==
    /\ Distinct(waiters_)
    /\ \A t \in Threads : t \in ToSet(waiters_) <=> waiter[t] = "pending"

Shape ==
    /\ QueueShape
    /\ \A t \in Threads : waiter[t] # "none" <=> pc[t] = "wait"
    /\ \A t \in Threads :
          conn[t] # NoConn <=> \/ pc[t] \in {"checkOut", "expired", "broken", "warmGive"}
                               \/ waiter[t] = "connection"

\* The initial state has the right types.
LEMMA TypesInit == Init => Types
<1> SUFFICES ASSUME Init PROVE Types OBVIOUS
<1>1. idle_ \in Seq(Conns) /\ waiters_ \in Seq(Threads) BY DEF Init
<1>2. open_ \in Int /\ drops \in Nat BY DEF Init
<1>3. closed_ \in BOOLEAN BY DEF Init
<1>4. above_min \in [Threads -> BOOLEAN] BY DEF Init
<1>5. pc \in [Threads -> Labels] BY DEF Init, Labels
<1>6. conn \in [Threads -> Conns \cup {NoConn}] BY DEF Init
<1>7. waiter \in [Threads -> WaiterStates] BY DEF Init, WaiterStates
<1>8. handles \in SUBSET Conns /\ discarding \in SUBSET Conns /\ doomed \in SUBSET Conns
  BY DEF Init
<1> QED BY <1>1, <1>2, <1>3, <1>4, <1>5, <1>6, <1>7, <1>8 DEF Types

\* dropped() keeps the types of what it writes.
LEMMA DroppedTypes ==
    ASSUME Types, Dropped
    PROVE  /\ idle_' \in Seq(Conns)
           /\ waiters_' \in Seq(Threads)
           /\ open_' \in Int
           /\ closed_' \in BOOLEAN
           /\ conn' \in [Threads -> Conns \cup {NoConn}]
           /\ waiter' \in [Threads -> WaiterStates]
<1>1. idle_' \in Seq(Conns) /\ closed_' \in BOOLEAN /\ conn' \in [Threads -> Conns \cup {NoConn}]
  BY DEF Types, Dropped
<1>2. open_' \in Int
  BY DEF Types, Dropped
<1>3. waiters_' \in Seq(Threads)
  <2>1. waiters_ # <<>> => Tail(waiters_) \in Seq(Threads)
    BY TailFacts DEF Types
  <2> QED BY <2>1 DEF Types, Dropped
<1>4. waiter' \in [Threads -> WaiterStates]
  BY DEF Types, Dropped, WaiterStates
<1> QED BY <1>1, <1>2, <1>3, <1>4

\* giveBack() keeps the types of what it writes.
LEMMA GiveBackTypes ==
    ASSUME Types, NEW c \in Conns, NEW others \in [Threads -> Conns \cup {NoConn}],
           GiveBack(c, others)
    PROVE  /\ idle_' \in Seq(Conns)
           /\ waiters_' \in Seq(Threads)
           /\ open_' \in Int
           /\ conn' \in [Threads -> Conns \cup {NoConn}]
           /\ waiter' \in [Threads -> WaiterStates]
           /\ doomed' \in SUBSET Conns
<1>1. idle_' \in Seq(Conns)
  <2>1. Append(idle_, c) \in Seq(Conns)
    BY AppendFacts DEF Types
  <2> QED BY <2>1 DEF Types, GiveBack
<1>2. open_' \in Int
  BY DEF Types, GiveBack
<1>3. waiters_' \in Seq(Threads)
  <2>1. waiters_ # <<>> => Tail(waiters_) \in Seq(Threads)
    BY TailFacts DEF Types
  <2> QED BY <2>1 DEF Types, GiveBack
<1>4. waiter' \in [Threads -> WaiterStates]
  BY DEF Types, GiveBack, WaiterStates
<1>5. conn' \in [Threads -> Conns \cup {NoConn}]
  BY DEF Types, GiveBack
<1>6. doomed' \in SUBSET Conns
  BY DEF Types, GiveBack
<1> QED BY <1>1, <1>2, <1>3, <1>4, <1>5, <1>6

\* A thread that waits is in the queue, and leaves it when its wait times out.
LEMMA EraseWaiter ==
    ASSUME Types, Shape, NEW t \in Threads, WaitTimeout(t)
    PROVE  \E i \in 1 .. Len(waiters_) :
              waiters_[i] = t /\ waiters_' = RemoveAt(waiters_, i)
<1>1. t \in ToSet(waiters_)
  BY DEF WaitTimeout, Shape, QueueShape
<1>2. \E i \in 1 .. Len(waiters_) : waiters_[i] = t
  <2>1. DOMAIN waiters_ = 1 .. Len(waiters_) BY DEF Types
  <2> QED BY <1>1, <2>1, Zenon DEF ToSet
<1> DEFINE k == CHOOSE i \in 1 .. Len(waiters_) : waiters_[i] = t
<1>3. k \in 1 .. Len(waiters_) /\ waiters_[k] = t
  BY <1>2, Zenon
<1>4. waiters_' = RemoveAt(waiters_, k)
  BY Zenon DEF WaitTimeout, Erase
<1> QED BY <1>3, <1>4, Zenon

\* Every step keeps the types.
LEMMA TypesNext == ASSUME Types, Shape, [Next]_vars PROVE Types'
<1>1. ASSUME NEW t \in Threads, CallAcquire(t) PROVE Types'
  BY <1>1 DEF CallAcquire, Goto, shared, handleState, Types, Labels
<1>2. ASSUME NEW t \in Threads, AcquireClosed(t) PROVE Types'
  BY <1>2 DEF AcquireClosed, Goto, shared, handleState, Types, Labels
<1>3. ASSUME NEW t \in Threads, AcquireIdle(t) PROVE Types'
  BY <1>3, FrontFacts DEF AcquireIdle, Goto, handleState, Types, Labels
<1>4. ASSUME NEW t \in Threads, AcquireRoom(t) PROVE Types'
  BY <1>4 DEF AcquireRoom, Goto, handleState, Types, Labels
<1>5. ASSUME NEW t \in Threads, AcquireWait(t) PROVE Types'
  BY <1>5, AppendFacts DEF AcquireWait, Goto, handleState, Types, Labels, WaiterStates
<1>6. ASSUME NEW t \in Threads, WaitTimeout(t) PROVE Types'
  <2>1. waiters_' \in Seq(Threads)
    BY <1>6, EraseWaiter, RemoveAtFacts DEF Types
  <2> QED BY <1>6, <2>1 DEF WaitTimeout, Types, Goto, handleState, Labels, WaiterStates
<1>7. ASSUME NEW t \in Threads, WakeClosed(t) PROVE Types'
  BY <1>7 DEF WakeClosed, Goto, shared, handleState, Types, Labels, WaiterStates
<1>8. ASSUME NEW t \in Threads, WakeConnection(t) PROVE Types'
  <2>1. conn[t] \in Conns
    BY <1>8 DEF WakeConnection, Types, Shape
  <2> QED BY <1>8, <2>1 DEF WakeConnection, Types, Goto, shared, Labels, WaiterStates
<1>9. ASSUME NEW t \in Threads, WakeMayOpen(t) PROVE Types'
  BY <1>9 DEF WakeMayOpen, Goto, shared, handleState, Types, Labels, WaiterStates
<1>10. ASSUME NEW t \in Threads, Usable(t) PROVE Types'
  <2>1. conn[t] \in Conns
    BY <1>10 DEF Usable, Types, Shape
  <2> QED BY <1>10, <2>1 DEF Usable, Types, Goto, shared, Labels, WaiterStates
<1>11. ASSUME NEW t \in Threads, Expired(t) PROVE Types'
  BY <1>11 DEF Expired, Goto, shared, handleState, Types, Labels
<1>12. ASSUME NEW t \in Threads, Broken(t) PROVE Types'
  BY <1>12 DEF Broken, Goto, shared, handleState, Types, Labels
<1>13. ASSUME NEW t \in Threads, CloseChecked(t) PROVE Types'
  BY <1>13 DEF CloseChecked, Goto, shared, handleState, Types, Labels
<1>14. ASSUME NEW t \in Threads, RetryDrop(t) PROVE Types'
  BY <1>14, DroppedTypes DEF RetryDrop, Types, Goto, handleState, Labels
<1>15. ASSUME NEW t \in Threads, NEW c \in Conns, FactoryOk(t, c) PROVE Types'
  BY <1>15 DEF FactoryOk, Goto, shared, Types, Labels
<1>16. ASSUME NEW t \in Threads, FactoryThrows(t) PROVE Types'
  BY <1>16 DEF FactoryThrows, Goto, shared, handleState, Types, Labels
<1>17. ASSUME NEW t \in Threads, FailDrop(t) PROVE Types'
  BY <1>17, DroppedTypes DEF FailDrop, Types, Goto, handleState, Labels
<1>18. ASSUME NEW t \in Threads, CallWarmUp(t) PROVE Types'
  BY <1>18 DEF CallWarmUp, Goto, shared, handleState, Types, Labels
<1>19. ASSUME NEW t \in Threads, WarmDone(t) PROVE Types'
  BY <1>19 DEF WarmDone, Goto, shared, handleState, Types, Labels
<1>20. ASSUME NEW t \in Threads, WarmReserve(t) PROVE Types'
  BY <1>20 DEF WarmReserve, Goto, handleState, Types, Labels
<1>21. ASSUME NEW t \in Threads, WarmGive(t) PROVE Types'
  <2>1. conn[t] \in Conns
    BY <1>21 DEF WarmGive, Types, Shape
  <2>2. [conn EXCEPT ![t] = NoConn] \in [Threads -> Conns \cup {NoConn}]
    BY DEF Types
  <2> QED BY <1>21, <2>1, <2>2, GiveBackTypes DEF WarmGive, Types, Goto, Labels
<1>22. ASSUME NEW c \in Conns, Release(c) PROVE Types'
  BY <1>22, GiveBackTypes DEF Release, Types
<1>23. ASSUME NEW c \in Conns, Discard(c) PROVE Types'
  BY <1>23 DEF Discard, shared, Types
<1>24. ASSUME NEW c \in Conns, Discarded(c) PROVE Types'
  BY <1>24 DEF Discarded, shared, Types
<1>25. ASSUME DiscardDrop PROVE Types'
  BY <1>25, DroppedTypes DEF DiscardDrop, Types
<1>26. ASSUME Close PROVE Types'
  <2>1. ToSet(idle_) \subseteq Conns /\ Len(idle_) \in Nat
    BY EmptyFacts DEF Types
  <2>2. idle_' \in Seq(Conns) /\ waiters_' \in Seq(Threads) /\ open_' \in Int
    BY <1>26, <2>1 DEF Close, Types
  <2>3. waiter' \in [Threads -> WaiterStates]
    BY <1>26 DEF Close, Types, WaiterStates
  <2>4. closed_' \in BOOLEAN /\ doomed' \in SUBSET Conns
    BY <1>26, <2>1 DEF Close, Types
  <2> QED BY <1>26, <2>2, <2>3, <2>4 DEF Close, Types
<1>27. ASSUME NEW c \in Conns, CloseDoomed(c) PROVE Types'
  BY <1>27 DEF CloseDoomed, shared, Types
<1>28. ASSUME UNCHANGED vars PROVE Types'
  BY <1>28 DEF Types, vars
<1> QED BY <1>1, <1>2, <1>3, <1>4, <1>5, <1>6, <1>7, <1>8, <1>9, <1>10, <1>11, <1>12,
      <1>13, <1>14, <1>15, <1>16, <1>17, <1>18, <1>19, <1>20, <1>21, <1>22, <1>23,
      <1>24, <1>25, <1>26, <1>27, <1>28 DEF Next, Step

\* dropped() keeps the queue and the Waiters in step.
LEMMA DroppedShape ==
    ASSUME Types, QueueShape, Dropped
    PROVE  /\ QueueShape'
           /\ \A u \in Threads : /\ waiter'[u] # "none" <=> waiter[u] # "none"
                                 /\ waiter'[u] = "connection" <=> waiter[u] = "connection"
           /\ conn' = conn
<1>1. CASE waiters_' = waiters_ /\ waiter' = waiter
  BY <1>1 DEF Dropped, QueueShape
<1>2. CASE /\ waiters_ # <<>> /\ waiters_' = Tail(waiters_)
           /\ waiter' = [waiter EXCEPT ![Head(waiters_)] = "may_open"]
  <2>1. /\ Head(waiters_) \in Threads
        /\ Head(waiters_) \in ToSet(waiters_)
        /\ Distinct(Tail(waiters_))
        /\ ToSet(Tail(waiters_)) = ToSet(waiters_) \ {Head(waiters_)}
    BY <1>2, TailFacts DEF Types, QueueShape
  <2>2. waiter[Head(waiters_)] = "pending"
    BY <2>1 DEF QueueShape
  <2>3. QueueShape'
    BY <1>2, <2>1, <2>2 DEF Types, QueueShape
  <2> QED BY <1>2, <2>1, <2>2, <2>3 DEF Types, Dropped
<1> QED BY <1>1, <1>2 DEF Dropped

\* giveBack(c) keeps the queue and the Waiters in step; the waiter it serves
\* is the only thread that gets a connection.
LEMMA GiveBackShape ==
    ASSUME Types, QueueShape, NEW c \in Conns,
           NEW others \in [Threads -> Conns \cup {NoConn}], GiveBack(c, others)
    PROVE  /\ QueueShape'
           /\ \A u \in Threads : waiter'[u] # "none" <=> waiter[u] # "none"
           /\ \A u \in Threads :
                 \/ /\ conn'[u] = others[u]
                    /\ waiter'[u] = "connection" <=> waiter[u] = "connection"
                 \/ /\ conn'[u] = c
                    /\ waiter'[u] = "connection" /\ waiter[u] = "pending"
<1>1. CASE waiters_' = waiters_ /\ waiter' = waiter /\ conn' = others
  BY <1>1 DEF QueueShape
<1>2. CASE /\ waiters_ # <<>> /\ waiters_' = Tail(waiters_)
           /\ waiter' = [waiter EXCEPT ![Head(waiters_)] = "connection"]
           /\ conn' = [others EXCEPT ![Head(waiters_)] = c]
  <2>1. /\ Head(waiters_) \in Threads
        /\ Head(waiters_) \in ToSet(waiters_)
        /\ Distinct(Tail(waiters_))
        /\ ToSet(Tail(waiters_)) = ToSet(waiters_) \ {Head(waiters_)}
    BY <1>2, TailFacts DEF Types, QueueShape
  <2>2. waiter[Head(waiters_)] = "pending"
    BY <2>1 DEF QueueShape
  <2>3. QueueShape'
    BY <1>2, <2>1, <2>2 DEF Types, QueueShape
  <2> QED BY <1>2, <2>1, <2>2, <2>3 DEF Types
<1> QED BY <1>1, <1>2 DEF GiveBack

\* Initially nobody waits and nobody owns a connection.
LEMMA ShapeInit == Init => Shape
  BY EmptyFacts DEF Init, Shape, QueueShape

\* Every step keeps queue, Waiters, program counters and connections in step.
LEMMA ShapeNext == ASSUME Types, Shape, [Next]_vars PROVE Shape'
<1>1. ASSUME NEW t \in Threads, CallAcquire(t) PROVE Shape'
  BY <1>1 DEF CallAcquire, Goto, shared, handleState, Types, Shape, QueueShape
<1>2. ASSUME NEW t \in Threads, AcquireClosed(t) PROVE Shape'
  BY <1>2 DEF AcquireClosed, Goto, shared, handleState, Types, Shape, QueueShape
<1>3. ASSUME NEW t \in Threads, AcquireIdle(t) PROVE Shape'
  <2>1. Last(idle_) \in Conns
    BY <1>3, FrontFacts DEF AcquireIdle, Types
  <2> QED BY <1>3, <2>1, PoolAssumption DEF AcquireIdle, Goto, handleState, Types, Shape, QueueShape, PoolAssumption
<1>4. ASSUME NEW t \in Threads, AcquireRoom(t) PROVE Shape'
  BY <1>4 DEF AcquireRoom, Goto, handleState, Types, Shape, QueueShape
<1>5. ASSUME NEW t \in Threads, AcquireWait(t) PROVE Shape'
  <2>1. t \notin ToSet(waiters_)
    BY <1>5 DEF AcquireWait, Shape, QueueShape
  <2>2. Distinct(waiters_') /\ ToSet(waiters_') = ToSet(waiters_) \cup {t}
    BY <1>5, <2>1, AppendFacts DEF AcquireWait, Types, Shape, QueueShape
  <2>3. QueueShape'
    BY <1>5, <2>2 DEF AcquireWait, Types, Shape, QueueShape
  <2> QED BY <1>5, <2>3 DEF AcquireWait, Goto, handleState, Types, Shape
<1>6. ASSUME NEW t \in Threads, WaitTimeout(t) PROVE Shape'
  <2>1. Distinct(waiters_') /\ ToSet(waiters_') = ToSet(waiters_) \ {t}
    BY <1>6, EraseWaiter, RemoveAtFacts DEF Types, Shape, QueueShape
  <2>2. QueueShape'
    BY <1>6, <2>1 DEF WaitTimeout, Types, Shape, QueueShape
  <2> QED BY <1>6, <2>2 DEF WaitTimeout, Goto, handleState, Types, Shape
<1>7. ASSUME NEW t \in Threads, WakeClosed(t) PROVE Shape'
  BY <1>7 DEF WakeClosed, Goto, shared, handleState, Types, Shape, QueueShape
<1>8. ASSUME NEW t \in Threads, WakeConnection(t) PROVE Shape'
  BY <1>8 DEF WakeConnection, Goto, shared, Types, Shape, QueueShape
<1>9. ASSUME NEW t \in Threads, WakeMayOpen(t) PROVE Shape'
  BY <1>9 DEF WakeMayOpen, Goto, shared, handleState, Types, Shape, QueueShape
<1>10. ASSUME NEW t \in Threads, Usable(t) PROVE Shape'
  BY <1>10 DEF Usable, Goto, shared, Types, Shape, QueueShape
<1>11. ASSUME NEW t \in Threads, Expired(t) PROVE Shape'
  BY <1>11 DEF Expired, Goto, shared, handleState, Types, Shape, QueueShape
<1>12. ASSUME NEW t \in Threads, Broken(t) PROVE Shape'
  BY <1>12 DEF Broken, Goto, shared, handleState, Types, Shape, QueueShape
<1>13. ASSUME NEW t \in Threads, CloseChecked(t) PROVE Shape'
  BY <1>13 DEF CloseChecked, Goto, shared, handleState, Types, Shape, QueueShape
<1>14. ASSUME NEW t \in Threads, RetryDrop(t) PROVE Shape'
  BY <1>14, DroppedShape DEF RetryDrop, Goto, handleState, Types, Shape
<1>15. ASSUME NEW t \in Threads, NEW c \in Conns, FactoryOk(t, c) PROVE Shape'
  BY <1>15, PoolAssumption DEF FactoryOk, Goto, shared, Types, Shape, QueueShape, PoolAssumption
<1>16. ASSUME NEW t \in Threads, FactoryThrows(t) PROVE Shape'
  BY <1>16 DEF FactoryThrows, Goto, shared, handleState, Types, Shape, QueueShape
<1>17. ASSUME NEW t \in Threads, FailDrop(t) PROVE Shape'
  BY <1>17, DroppedShape DEF FailDrop, Goto, handleState, Types, Shape
<1>18. ASSUME NEW t \in Threads, CallWarmUp(t) PROVE Shape'
  BY <1>18 DEF CallWarmUp, Goto, shared, handleState, Types, Shape, QueueShape
<1>19. ASSUME NEW t \in Threads, WarmDone(t) PROVE Shape'
  BY <1>19 DEF WarmDone, Goto, shared, handleState, Types, Shape, QueueShape
<1>20. ASSUME NEW t \in Threads, WarmReserve(t) PROVE Shape'
  BY <1>20 DEF WarmReserve, Goto, handleState, Types, Shape, QueueShape
<1>21. ASSUME NEW t \in Threads, WarmGive(t) PROVE Shape'
  <2> DEFINE others == [conn EXCEPT ![t] = NoConn]
  <2>1. conn[t] \in Conns /\ waiter[t] = "none"
    BY <1>21 DEF WarmGive, Types, Shape
  <2>2. others \in [Threads -> Conns \cup {NoConn}]
    BY DEF Types
  <2>3. QueueShape
    BY DEF Shape
  <2>4. GiveBack(conn[t], others)
    BY <1>21 DEF WarmGive
  <2>5. others[t] = NoConn /\ \A u \in Threads \ {t} : others[u] = conn[u]
    BY DEF Types
  <2> HIDE DEF others
  <2>6. /\ QueueShape'
        /\ \A u \in Threads : waiter'[u] # "none" <=> waiter[u] # "none"
        /\ \A u \in Threads :
              \/ /\ conn'[u] = others[u]
                 /\ waiter'[u] = "connection" <=> waiter[u] = "connection"
              \/ /\ conn'[u] = conn[t]
                 /\ waiter'[u] = "connection" /\ waiter[u] = "pending"
    BY <2>1, <2>2, <2>3, <2>4, GiveBackShape
  <2> QED BY <1>21, <2>1, <2>5, <2>6, PoolAssumption
        DEF WarmGive, Goto, Types, Shape, PoolAssumption
<1>22. ASSUME NEW c \in Conns, Release(c) PROVE Shape'
  BY <1>22, GiveBackShape, PoolAssumption DEF Release, Types, Shape, PoolAssumption
<1>23. ASSUME NEW c \in Conns, Discard(c) PROVE Shape'
  BY <1>23 DEF Discard, shared, Types, Shape, QueueShape
<1>24. ASSUME NEW c \in Conns, Discarded(c) PROVE Shape'
  BY <1>24 DEF Discarded, shared, Types, Shape, QueueShape
<1>25. ASSUME DiscardDrop PROVE Shape'
  BY <1>25, DroppedShape DEF DiscardDrop, Types, Shape
<1>26. ASSUME Close PROVE Shape'
  <2>1. QueueShape'
    BY <1>26, EmptyFacts DEF Close, Types, Shape, QueueShape
  <2> QED BY <1>26, <2>1 DEF Close, Types, Shape, QueueShape
<1>27. ASSUME NEW c \in Conns, CloseDoomed(c) PROVE Shape'
  BY <1>27 DEF CloseDoomed, shared, Types, Shape, QueueShape
<1>28. ASSUME UNCHANGED vars PROVE Shape'
  BY <1>28 DEF Shape, QueueShape, vars
<1> QED BY <1>1, <1>2, <1>3, <1>4, <1>5, <1>6, <1>7, <1>8, <1>9, <1>10, <1>11, <1>12,
      <1>13, <1>14, <1>15, <1>16, <1>17, <1>18, <1>19, <1>20, <1>21, <1>22, <1>23,
      <1>24, <1>25, <1>26, <1>27, <1>28 DEF Next, Step

\* OneOwner as a relation between the places a connection can be in
Separate(idle, cn, h, d, m) ==
    /\ Distinct(idle)
    /\ \A t, u \in Threads : cn[t] = cn[u] /\ cn[t] # NoConn => t = u
    /\ \A t \in Threads : cn[t] \notin ToSet(idle) \cup h \cup d \cup m
    /\ ToSet(idle) \cap (h \cup d \cup m) = {}
    /\ h \cap (d \cup m) = {}
    /\ d \cap m = {}

\* The two formulations agree.
LEMMA OneOwnerSeparate == OneOwner <=> Separate(idle_, conn, handles, discarding, doomed)
  BY DEF OneOwner, Separate, Distinct

\* giveBack(c) moves c, which nobody else has, to one place.
LEMMA GiveBackOwner ==
    ASSUME Types, QueueShape, NEW c \in Conns,
           NEW others \in [Threads -> Conns \cup {NoConn}], NEW h \in SUBSET Conns,
           Separate(idle_, others, h, discarding, doomed),
           c \notin ToSet(idle_) \cup h \cup discarding \cup doomed,
           \A u \in Threads : others[u] # c,
           GiveBack(c, others)
    PROVE  Separate(idle_', conn', h, discarding, doomed')
<1>1. CASE idle_' = idle_ /\ conn' = others /\ doomed' = doomed \cup {c}
  BY <1>1 DEF Separate
<1>2. CASE /\ waiters_ # <<>> /\ idle_' = idle_ /\ doomed' = doomed
           /\ conn' = [others EXCEPT ![Head(waiters_)] = c]
  BY <1>2 DEF Separate
<1>3. CASE idle_' = Append(idle_, c) /\ conn' = others /\ doomed' = doomed
  <2>1. ToSet(idle_') = ToSet(idle_) \cup {c} /\ Distinct(idle_')
    BY <1>3, AppendFacts DEF Types, Separate
  <2> QED BY <1>3, <2>1 DEF Separate
<1> QED BY <1>1, <1>2, <1>3 DEF GiveBack

\* Initially there is no connection.
LEMMA OwnerInit == Init => OneOwner
  BY EmptyFacts DEF Init, OneOwner, ToSet

\* No step gives a connection a second owner.
LEMMA OwnerNext == ASSUME Types, Shape, OneOwner, [Next]_vars PROVE OneOwner'
<1> DEFINE Sep == Separate(idle_, conn, handles, discarding, doomed)
<1>0. Sep BY OneOwnerSeparate
<1> USE <1>0
<1>1. ASSUME NEW t \in Threads, CallAcquire(t) PROVE Sep'
  BY <1>1 DEF CallAcquire, shared, handleState, Separate
<1>2. ASSUME NEW t \in Threads, AcquireClosed(t) PROVE Sep'
  BY <1>2 DEF AcquireClosed, shared, handleState, Separate
<1>3. ASSUME NEW t \in Threads, AcquireIdle(t) PROVE Sep'
  <2>1. /\ Last(idle_) \in Conns /\ Last(idle_) \in ToSet(idle_)
        /\ Distinct(Front(idle_))
        /\ ToSet(Front(idle_)) = ToSet(idle_) \ {Last(idle_)}
    BY <1>3, FrontFacts DEF AcquireIdle, Types, Separate
  <2>2. \A u \in Threads : conn[u] # Last(idle_)
    BY <2>1 DEF Separate
  <2> QED BY <1>3, <2>1, <2>2 DEF AcquireIdle, handleState, Types, Separate
<1>4. ASSUME NEW t \in Threads, AcquireRoom(t) PROVE Sep'
  BY <1>4 DEF AcquireRoom, handleState, Separate
<1>5. ASSUME NEW t \in Threads, AcquireWait(t) PROVE Sep'
  BY <1>5 DEF AcquireWait, handleState, Separate
<1>6. ASSUME NEW t \in Threads, WaitTimeout(t) PROVE Sep'
  BY <1>6 DEF WaitTimeout, handleState, Separate
<1>7. ASSUME NEW t \in Threads, WakeClosed(t) PROVE Sep'
  BY <1>7 DEF WakeClosed, shared, handleState, Separate
<1>8. ASSUME NEW t \in Threads, WakeConnection(t) PROVE Sep'
  <2>1. conn[t] # NoConn
    BY <1>8 DEF WakeConnection, Shape
  <2>2. NoConn \notin ToSet(idle_) \cup handles \cup discarding \cup doomed \cup {conn[t]}
    BY <2>1, EmptyFacts, PoolAssumption DEF Types, PoolAssumption
  <2> QED BY <1>8, <2>1, <2>2 DEF WakeConnection, shared, Types, Separate
<1>9. ASSUME NEW t \in Threads, WakeMayOpen(t) PROVE Sep'
  BY <1>9 DEF WakeMayOpen, shared, handleState, Separate
<1>10. ASSUME NEW t \in Threads, Usable(t) PROVE Sep'
  <2>1. conn[t] # NoConn
    BY <1>10 DEF Usable, Shape
  <2>2. NoConn \notin ToSet(idle_) \cup handles \cup discarding \cup doomed \cup {conn[t]}
    BY <2>1, EmptyFacts, PoolAssumption DEF Types, PoolAssumption
  <2> QED BY <1>10, <2>1, <2>2 DEF Usable, shared, Types, Separate
<1>11. ASSUME NEW t \in Threads, Expired(t) PROVE Sep'
  BY <1>11 DEF Expired, shared, handleState, Separate
<1>12. ASSUME NEW t \in Threads, Broken(t) PROVE Sep'
  BY <1>12 DEF Broken, shared, handleState, Separate
<1>13. ASSUME NEW t \in Threads, CloseChecked(t) PROVE Sep'
  <2>1. NoConn \notin ToSet(idle_) \cup handles \cup discarding \cup doomed
    BY EmptyFacts, PoolAssumption DEF Types, PoolAssumption
  <2> QED BY <1>13, <2>1 DEF CloseChecked, shared, handleState, Types, Separate
<1>14. ASSUME NEW t \in Threads, RetryDrop(t) PROVE Sep'
  BY <1>14 DEF RetryDrop, Goto, handleState, Dropped, Separate
<1>15. ASSUME NEW t \in Threads, NEW c \in Conns, FactoryOk(t, c) PROVE Sep'
  <2>1. /\ c \notin ToSet(idle_) \cup handles \cup discarding \cup doomed
        /\ \A u \in Threads : conn[u] # c
    BY <1>15, PoolAssumption DEF FactoryOk, Live, PoolAssumption
  <2> QED BY <1>15, <2>1 DEF FactoryOk, shared, Types, Separate
<1>16. ASSUME NEW t \in Threads, FactoryThrows(t) PROVE Sep'
  BY <1>16 DEF FactoryThrows, shared, handleState, Separate
<1>17. ASSUME NEW t \in Threads, FailDrop(t) PROVE Sep'
  BY <1>17 DEF FailDrop, Goto, handleState, Dropped, Separate
<1>18. ASSUME NEW t \in Threads, CallWarmUp(t) PROVE Sep'
  BY <1>18 DEF CallWarmUp, shared, handleState, Separate
<1>19. ASSUME NEW t \in Threads, WarmDone(t) PROVE Sep'
  BY <1>19 DEF WarmDone, shared, handleState, Separate
<1>20. ASSUME NEW t \in Threads, WarmReserve(t) PROVE Sep'
  BY <1>20 DEF WarmReserve, handleState, Separate
<1>21. ASSUME NEW t \in Threads, WarmGive(t) PROVE Sep'
  <2> DEFINE others == [conn EXCEPT ![t] = NoConn]
  <2>1. conn[t] \in Conns
    BY <1>21 DEF WarmGive, Types, Shape
  <2>2. others \in [Threads -> Conns \cup {NoConn}]
    BY DEF Types
  <2>3. others[t] = NoConn /\ \A u \in Threads \ {t} : others[u] = conn[u]
    BY DEF Types
  <2>4. GiveBack(conn[t], others)
    BY <1>21 DEF WarmGive
  <2> HIDE DEF others
  <2>5. NoConn \notin ToSet(idle_) \cup handles \cup discarding \cup doomed
    BY EmptyFacts, PoolAssumption DEF Types, PoolAssumption
  <2>6. Separate(idle_, others, handles, discarding, doomed)
    BY <2>1, <2>3, <2>5 DEF Separate
  <2>7. conn[t] \notin ToSet(idle_) \cup handles \cup discarding \cup doomed
    BY DEF Separate
  <2>8. \A u \in Threads : others[u] # conn[t]
    BY <2>1, <2>3, PoolAssumption DEF Separate, PoolAssumption
  <2>9. QueueShape /\ handles \in SUBSET Conns
    BY DEF Shape, Types
  <2>10. Separate(idle_', conn', handles, discarding, doomed')
    BY <2>1, <2>2, <2>4, <2>6, <2>7, <2>8, <2>9, GiveBackOwner
  <2> QED BY <1>21, <2>10 DEF WarmGive
<1>22. ASSUME NEW c \in Conns, Release(c) PROVE Sep'
  <2> DEFINE h == handles \ {c}
  <2>1. Separate(idle_, conn, h, discarding, doomed)
    BY DEF Separate
  <2>2. c \notin ToSet(idle_) \cup h \cup discarding \cup doomed
    BY <1>22 DEF Release, Separate
  <2>3. \A u \in Threads : conn[u] # c
    BY <1>22 DEF Release, Separate
  <2>4. Separate(idle_', conn', h, discarding, doomed')
    BY <1>22, <2>1, <2>2, <2>3, GiveBackOwner DEF Release, Types, Shape
  <2> QED BY <1>22, <2>4 DEF Release, Separate
<1>23. ASSUME NEW c \in Conns, Discard(c) PROVE Sep'
  BY <1>23 DEF Discard, shared, Separate
<1>24. ASSUME NEW c \in Conns, Discarded(c) PROVE Sep'
  BY <1>24 DEF Discarded, shared, Separate
<1>25. ASSUME DiscardDrop PROVE Sep'
  BY <1>25 DEF DiscardDrop, Dropped, Separate
<1>26. ASSUME Close PROVE Sep'
  <2>1. Distinct(idle_') /\ ToSet(idle_') = {}
    BY <1>26, EmptyFacts DEF Close
  <2> QED BY <1>26, <2>1 DEF Close, Separate
<1>27. ASSUME NEW c \in Conns, CloseDoomed(c) PROVE Sep'
  BY <1>27 DEF CloseDoomed, shared, Separate
<1>28. ASSUME UNCHANGED vars PROVE Sep'
  BY <1>28 DEF Separate, vars
<1>29. Sep'
  BY <1>1, <1>2, <1>3, <1>4, <1>5, <1>6, <1>7, <1>8, <1>9, <1>10, <1>11, <1>12, <1>13,
        <1>14, <1>15, <1>16, <1>17, <1>18, <1>19, <1>20, <1>21, <1>22, <1>23, <1>24,
        <1>25, <1>26, <1>27, <1>28 DEF Next, Step
<1> QED BY <1>29, OneOwnerSeparate, PTL

\* What is counted is finite.
LEMMA Counts ==
    ASSUME Types
    PROVE  /\ Len(idle_) \in Nat
           /\ IsFiniteSet(handles) /\ Cardinality(handles) \in Nat
           /\ IsFiniteSet(discarding) /\ Cardinality(discarding) \in Nat
           /\ IsFiniteSet(doomed) /\ Cardinality(doomed) \in Nat
           /\ IsFiniteSet(SlotOwners) /\ Cardinality(SlotOwners) \in Nat
<1>1. Len(idle_) \in Nat
  BY DEF Types
<1>2. handles \subseteq Conns /\ discarding \subseteq Conns /\ doomed \subseteq Conns
  BY DEF Types
<1>3. SlotOwners \subseteq Threads
  BY DEF SlotOwners
<1>4. IsFiniteSet(handles) /\ IsFiniteSet(discarding) /\ IsFiniteSet(doomed) /\ IsFiniteSet(SlotOwners)
  BY <1>2, <1>3, FS_Subset, PoolAssumption DEF PoolAssumption
<1> QED BY <1>1, <1>4, FS_CardinalityType

\* Cardinality of a set that gains or loses one element.
LEMMA CardStep ==
    ASSUME NEW S, IsFiniteSet(S), NEW x
    PROVE  /\ Cardinality(S) \in Nat
           /\ x \notin S => Cardinality(S \cup {x}) = Cardinality(S) + 1
           /\ x \in S => Cardinality(S \ {x}) = Cardinality(S) - 1
  BY FS_AddElement, FS_RemoveElement, FS_CardinalityType

\* dropped() frees the caller's slot or gives it to one waiting thread.
LEMMA DroppedSlots ==
    ASSUME Types, Shape, Dropped
    PROVE  /\ idle_' = idle_ /\ closed_' = closed_
           /\ \/ open_' = open_ - 1 /\ waiter' = waiter
              \/ /\ open_' = open_
                 /\ \E h \in Threads : /\ waiter[h] = "pending"
                                       /\ waiter' = [waiter EXCEPT ![h] = "may_open"]
<1>1. waiters_ # <<>> => Head(waiters_) \in Threads /\ Head(waiters_) \in ToSet(waiters_)
  BY TailFacts DEF Types
<1>2. waiters_ # <<>> => waiter[Head(waiters_)] = "pending"
  BY <1>1 DEF Shape, QueueShape
<1> QED BY <1>1, <1>2 DEF Dropped

\* giveBack() frees the slot, keeps it for the idle connection, or gives it to
\* one waiting thread.
LEMMA GiveBackSlots ==
    ASSUME Types, Shape, NEW c \in Conns, NEW others, GiveBack(c, others)
    PROVE  \/ open_' = open_ - 1 /\ waiter' = waiter /\ idle_' = idle_
           \/ open_' = open_ /\ waiter' = waiter /\ Len(idle_') = Len(idle_) + 1
           \/ /\ open_' = open_ /\ idle_' = idle_
              /\ \E h \in Threads : /\ waiter[h] = "pending"
                                    /\ waiter' = [waiter EXCEPT ![h] = "connection"]
<1>1. waiters_ # <<>> => Head(waiters_) \in Threads /\ Head(waiters_) \in ToSet(waiters_)
  BY TailFacts DEF Types
<1>2. waiters_ # <<>> => waiter[Head(waiters_)] = "pending"
  BY <1>1 DEF Shape, QueueShape
<1>3. Len(Append(idle_, c)) = Len(idle_) + 1
  BY AppendFacts DEF Types
<1> QED BY <1>1, <1>2, <1>3 DEF GiveBack

\* Initially no slot is in use.
LEMMA AccountInit == Init => SlotsAccounted
<1> SUFFICES ASSUME Init PROVE SlotsAccounted OBVIOUS
<1>1. SlotOwners = {} BY DEF Init, SlotOwners
<1>2. handles = {} /\ discarding = {} /\ drops = 0 /\ open_ = 0 /\ Len(idle_) = 0 BY DEF Init
<1> QED BY <1>1, <1>2, FS_EmptySet DEF SlotsAccounted

\* Replacing one member by one that was not a member keeps the size.
LEMMA SwapOne ==
    ASSUME NEW S, IsFiniteSet(S), NEW x \in S, NEW y, y \notin S
    PROVE  Cardinality((S \ {x}) \cup {y}) = Cardinality(S)
<1>1. IsFiniteSet(S \ {x}) /\ Cardinality(S \ {x}) = Cardinality(S) - 1
  BY FS_RemoveElement
<1>2. y \notin S \ {x}
  OBVIOUS
<1>3. Cardinality((S \ {x}) \cup {y}) = Cardinality(S \ {x}) + 1
  BY <1>1, <1>2, FS_AddElement
<1> QED BY <1>1, <1>3, FS_CardinalityType

\* No step loses a slot or counts one twice.
LEMMA AccountNext ==
    ASSUME Types, Shape, OneOwner, SlotsAccounted, [Next]_vars
    PROVE  SlotsAccounted'
<1>0. drops \in Nat /\ open_ \in Int BY DEF Types
<1>1. ASSUME NEW t \in Threads, CallAcquire(t) PROVE SlotsAccounted'
  <2>1. SlotOwners' = SlotOwners
    BY <1>1 DEF CallAcquire, Goto, shared, handleState, SlotOwners, Types, Shape
  <2> QED BY <1>1, <2>1 DEF CallAcquire, shared, handleState, SlotsAccounted
<1>2. ASSUME NEW t \in Threads, AcquireClosed(t) PROVE SlotsAccounted'
  <2>1. SlotOwners' = SlotOwners
    BY <1>2 DEF AcquireClosed, Goto, shared, handleState, SlotOwners, Types, Shape
  <2> QED BY <1>2, <2>1 DEF AcquireClosed, shared, handleState, SlotsAccounted
<1>3. ASSUME NEW t \in Threads, AcquireIdle(t) PROVE SlotsAccounted'
  <2>1. SlotOwners' = SlotOwners \cup {t} /\ t \notin SlotOwners
    BY <1>3 DEF AcquireIdle, Goto, SlotOwners, Types, Shape
  <2>2. Len(idle_') = Len(idle_) - 1
    BY <1>3, FrontFacts DEF AcquireIdle, Types
  <2>3. Cardinality(SlotOwners') = Cardinality(SlotOwners) + 1
    BY <2>1, Counts, CardStep
  <2> QED BY <1>3, <2>2, <2>3, Counts DEF AcquireIdle, handleState, SlotsAccounted, Types
<1>4. ASSUME NEW t \in Threads, AcquireRoom(t) PROVE SlotsAccounted'
  <2>1. SlotOwners' = SlotOwners \cup {t} /\ t \notin SlotOwners
    BY <1>4 DEF AcquireRoom, Goto, SlotOwners, Types, Shape
  <2>2. Cardinality(SlotOwners') = Cardinality(SlotOwners) + 1
    BY <2>1, Counts, CardStep
  <2> QED BY <1>4, <2>2, Counts DEF AcquireRoom, handleState, SlotsAccounted, Types
<1>5. ASSUME NEW t \in Threads, AcquireWait(t) PROVE SlotsAccounted'
  <2>1. SlotOwners' = SlotOwners
    BY <1>5 DEF AcquireWait, Goto, handleState, SlotOwners, Types, Shape
  <2> QED BY <1>5, <2>1 DEF AcquireWait, handleState, SlotsAccounted
<1>6. ASSUME NEW t \in Threads, WaitTimeout(t) PROVE SlotsAccounted'
  <2>1. SlotOwners' = SlotOwners
    BY <1>6 DEF WaitTimeout, Goto, handleState, SlotOwners, Types, Shape
  <2> QED BY <1>6, <2>1 DEF WaitTimeout, handleState, SlotsAccounted
<1>7. ASSUME NEW t \in Threads, WakeClosed(t) PROVE SlotsAccounted'
  <2>1. SlotOwners' = SlotOwners
    BY <1>7 DEF WakeClosed, Goto, shared, handleState, SlotOwners, Types, Shape
  <2> QED BY <1>7, <2>1 DEF WakeClosed, shared, handleState, SlotsAccounted
<1>8. ASSUME NEW t \in Threads, WakeConnection(t) PROVE SlotsAccounted'
  <2>1. SlotOwners' = SlotOwners \ {t} /\ t \in SlotOwners
    BY <1>8 DEF WakeConnection, Goto, SlotOwners, Types, Shape
  <2>2. handles' = handles \cup {conn[t]} /\ conn[t] \notin handles
    BY <1>8 DEF WakeConnection, OneOwner
  <2>3. Cardinality(SlotOwners') = Cardinality(SlotOwners) - 1
    BY <2>1, Counts, CardStep
  <2>4. Cardinality(handles') = Cardinality(handles) + 1
    BY <2>2, Counts, CardStep
  <2>5. open_' = open_ /\ idle_' = idle_ /\ discarding' = discarding /\ drops' = drops
    BY <1>8 DEF WakeConnection, shared
  <2> QED BY <1>0, <2>3, <2>4, <2>5, Counts, SMTT(30) DEF SlotsAccounted
<1>9. ASSUME NEW t \in Threads, WakeMayOpen(t) PROVE SlotsAccounted'
  <2>1. SlotOwners' = SlotOwners
    BY <1>9 DEF WakeMayOpen, Goto, shared, handleState, SlotOwners, Types, Shape
  <2> QED BY <1>9, <2>1 DEF WakeMayOpen, shared, handleState, SlotsAccounted
<1>10. ASSUME NEW t \in Threads, Usable(t) PROVE SlotsAccounted'
  <2>1. SlotOwners' = SlotOwners \ {t} /\ t \in SlotOwners
    BY <1>10 DEF Usable, Goto, SlotOwners, Types, Shape
  <2>2. handles' = handles \cup {conn[t]} /\ conn[t] \notin handles
    BY <1>10 DEF Usable, OneOwner
  <2>3. Cardinality(SlotOwners') = Cardinality(SlotOwners) - 1
    BY <2>1, Counts, CardStep
  <2>4. Cardinality(handles') = Cardinality(handles) + 1
    BY <2>2, Counts, CardStep
  <2>5. open_' = open_ /\ idle_' = idle_ /\ discarding' = discarding /\ drops' = drops
    BY <1>10 DEF Usable, shared
  <2> QED BY <1>0, <2>3, <2>4, <2>5, Counts, SMTT(30) DEF SlotsAccounted
<1>11. ASSUME NEW t \in Threads, Expired(t) PROVE SlotsAccounted'
  <2>1. SlotOwners' = SlotOwners
    BY <1>11 DEF Expired, Goto, shared, handleState, SlotOwners, Types, Shape
  <2> QED BY <1>11, <2>1 DEF Expired, shared, handleState, SlotsAccounted
<1>12. ASSUME NEW t \in Threads, Broken(t) PROVE SlotsAccounted'
  <2>1. SlotOwners' = SlotOwners
    BY <1>12 DEF Broken, Goto, shared, handleState, SlotOwners, Types, Shape
  <2> QED BY <1>12, <2>1 DEF Broken, shared, handleState, SlotsAccounted
<1>13. ASSUME NEW t \in Threads, CloseChecked(t) PROVE SlotsAccounted'
  <2>1. SlotOwners' = SlotOwners
    BY <1>13 DEF CloseChecked, Goto, shared, handleState, SlotOwners, Types, Shape
  <2> QED BY <1>13, <2>1 DEF CloseChecked, shared, handleState, SlotsAccounted
<1>14. ASSUME NEW t \in Threads, RetryDrop(t) PROVE SlotsAccounted'
  <2>0. Dropped /\ t \in SlotOwners
    BY <1>14 DEF RetryDrop, SlotOwners
  <2>1. CASE open_' = open_ - 1 /\ waiter' = waiter
    <3>1. SlotOwners' = SlotOwners \ {t}
      BY <1>14, <2>1 DEF RetryDrop, Goto, SlotOwners, Types, Shape
    <3>2. Cardinality(SlotOwners') = Cardinality(SlotOwners) - 1
      BY <2>0, <3>1, Counts, CardStep
    <3>3. idle_' = idle_ /\ handles' = handles /\ discarding' = discarding /\ drops' = drops
      BY <1>14, <2>0, DroppedSlots DEF RetryDrop, handleState
    <3> QED BY <1>0, <2>1, <3>2, <3>3, Counts DEF SlotsAccounted
  <2>2. CASE open_' = open_ /\ \E h \in Threads : /\ waiter[h] = "pending"
                                                /\ waiter' = [waiter EXCEPT ![h] = "may_open"]
    <3>1. PICK h \in Threads : waiter[h] = "pending" /\ waiter' = [waiter EXCEPT ![h] = "may_open"]
      BY <2>2
    <3>2. h # t /\ h \notin SlotOwners
      BY <1>14, <3>1 DEF RetryDrop, SlotOwners, Shape
    <3>3. SlotOwners' = (SlotOwners \ {t}) \cup {h}
      BY <1>14, <3>1, <3>2 DEF RetryDrop, Goto, SlotOwners, Types, Shape
    <3>4. Cardinality(SlotOwners') = Cardinality(SlotOwners)
      BY <2>0, <3>2, <3>3, SwapOne, Counts
    <3> QED BY <1>14, <2>0, <2>2, <3>4, DroppedSlots DEF RetryDrop, handleState, SlotsAccounted
  <2> QED BY <2>0, <2>1, <2>2, DroppedSlots
<1>15. ASSUME NEW t \in Threads, NEW c \in Conns, FactoryOk(t, c) PROVE SlotsAccounted'
  <2>1. \/ SlotOwners' = SlotOwners \ {t} /\ t \in SlotOwners /\ handles' = handles \cup {c}
        \/ SlotOwners' = SlotOwners /\ handles' = handles
    <3>1. waiter[t] = "none" /\ waiter' = waiter
      BY <1>15 DEF FactoryOk, Types, Shape
    <3>2. CASE pc[t] = "open" /\ handles' = handles \cup {c} /\ Goto(t, "out")
      BY <3>1, <3>2 DEF Goto, SlotOwners, Types
    <3>3. CASE pc[t] = "warmOpen" /\ handles' = handles /\ Goto(t, "warmGive")
      BY <3>1, <3>3 DEF Goto, SlotOwners, Types
    <3> QED BY <1>15, <3>2, <3>3 DEF FactoryOk
  <2>2. c \notin handles
    BY <1>15 DEF FactoryOk, Live
  <2>3. \/ /\ Cardinality(SlotOwners') = Cardinality(SlotOwners) - 1
           /\ Cardinality(handles') = Cardinality(handles) + 1
        \/ SlotOwners' = SlotOwners /\ handles' = handles
    BY <2>1, <2>2, Counts, CardStep
  <2>4. open_' = open_ /\ idle_' = idle_ /\ discarding' = discarding /\ drops' = drops
    BY <1>15 DEF FactoryOk, shared
  <2> QED BY <1>0, <2>3, <2>4, Counts DEF SlotsAccounted
<1>16. ASSUME NEW t \in Threads, FactoryThrows(t) PROVE SlotsAccounted'
  <2>1. SlotOwners' = SlotOwners
    BY <1>16 DEF FactoryThrows, Goto, shared, handleState, SlotOwners, Types, Shape
  <2> QED BY <1>16, <2>1 DEF FactoryThrows, shared, handleState, SlotsAccounted
<1>17. ASSUME NEW t \in Threads, FailDrop(t) PROVE SlotsAccounted'
  <2>0. Dropped /\ t \in SlotOwners
    BY <1>17 DEF FailDrop, SlotOwners
  <2>1. CASE open_' = open_ - 1 /\ waiter' = waiter
    <3>1. SlotOwners' = SlotOwners \ {t}
      BY <1>17, <2>1 DEF FailDrop, Goto, SlotOwners, Types, Shape
    <3>2. Cardinality(SlotOwners') = Cardinality(SlotOwners) - 1
      BY <2>0, <3>1, Counts, CardStep
    <3>3. idle_' = idle_ /\ handles' = handles /\ discarding' = discarding /\ drops' = drops
      BY <1>17, <2>0, DroppedSlots DEF FailDrop, handleState
    <3> QED BY <1>0, <2>1, <3>2, <3>3, Counts DEF SlotsAccounted
  <2>2. CASE open_' = open_ /\ \E h \in Threads : /\ waiter[h] = "pending"
                                                /\ waiter' = [waiter EXCEPT ![h] = "may_open"]
    <3>1. PICK h \in Threads : waiter[h] = "pending" /\ waiter' = [waiter EXCEPT ![h] = "may_open"]
      BY <2>2
    <3>2. h # t /\ h \notin SlotOwners
      BY <1>17, <3>1 DEF FailDrop, SlotOwners, Shape
    <3>3. SlotOwners' = (SlotOwners \ {t}) \cup {h}
      BY <1>17, <3>1, <3>2 DEF FailDrop, Goto, SlotOwners, Types, Shape
    <3>4. Cardinality(SlotOwners') = Cardinality(SlotOwners)
      BY <2>0, <3>2, <3>3, SwapOne, Counts
    <3> QED BY <1>17, <2>0, <2>2, <3>4, DroppedSlots DEF FailDrop, handleState, SlotsAccounted
  <2> QED BY <2>0, <2>1, <2>2, DroppedSlots
<1>18. ASSUME NEW t \in Threads, CallWarmUp(t) PROVE SlotsAccounted'
  <2>1. SlotOwners' = SlotOwners
    BY <1>18 DEF CallWarmUp, Goto, shared, handleState, SlotOwners, Types, Shape
  <2> QED BY <1>18, <2>1 DEF CallWarmUp, shared, handleState, SlotsAccounted
<1>19. ASSUME NEW t \in Threads, WarmDone(t) PROVE SlotsAccounted'
  <2>1. SlotOwners' = SlotOwners
    BY <1>19 DEF WarmDone, Goto, shared, handleState, SlotOwners, Types, Shape
  <2> QED BY <1>19, <2>1 DEF WarmDone, shared, handleState, SlotsAccounted
<1>20. ASSUME NEW t \in Threads, WarmReserve(t) PROVE SlotsAccounted'
  <2>1. SlotOwners' = SlotOwners \cup {t} /\ t \notin SlotOwners
    BY <1>20 DEF WarmReserve, Goto, SlotOwners, Types, Shape
  <2>2. Cardinality(SlotOwners') = Cardinality(SlotOwners) + 1
    BY <2>1, Counts, CardStep
  <2> QED BY <1>20, <2>2, Counts DEF WarmReserve, handleState, SlotsAccounted, Types
<1>21. ASSUME NEW t \in Threads, WarmGive(t) PROVE SlotsAccounted'
  <2>0. /\ conn[t] \in Conns /\ GiveBack(conn[t], [conn EXCEPT ![t] = NoConn])
        /\ t \in SlotOwners /\ waiter[t] = "none"
        /\ handles' = handles /\ discarding' = discarding /\ drops' = drops
    BY <1>21 DEF WarmGive, Types, Shape, SlotOwners
  <2>1. CASE open_' = open_ - 1 /\ waiter' = waiter /\ idle_' = idle_
    <3>1. SlotOwners' = SlotOwners \ {t}
      BY <1>21, <2>0, <2>1 DEF WarmGive, Goto, SlotOwners, Types, Shape
    <3>2. Cardinality(SlotOwners') = Cardinality(SlotOwners) - 1
      BY <2>0, <3>1, Counts, CardStep
    <3> QED BY <1>0, <2>0, <2>1, <3>1, <3>2, Counts DEF SlotsAccounted
  <2>2. CASE open_' = open_ /\ waiter' = waiter /\ Len(idle_') = Len(idle_) + 1
    <3>1. SlotOwners' = SlotOwners \ {t}
      BY <1>21, <2>0, <2>2 DEF WarmGive, Goto, SlotOwners, Types, Shape
    <3>2. Cardinality(SlotOwners') = Cardinality(SlotOwners) - 1
      BY <2>0, <3>1, Counts, CardStep
    <3> QED BY <1>0, <2>0, <2>2, <3>1, <3>2, Counts DEF SlotsAccounted
  <2>3. CASE /\ open_' = open_ /\ idle_' = idle_
             /\ \E h \in Threads : /\ waiter[h] = "pending"
                                   /\ waiter' = [waiter EXCEPT ![h] = "connection"]
    <3>1. PICK h \in Threads : waiter[h] = "pending" /\ waiter' = [waiter EXCEPT ![h] = "connection"]
      BY <2>3
    <3>2. h # t /\ h \notin SlotOwners
      BY <2>0, <3>1 DEF SlotOwners, Shape
    <3>3. SlotOwners' = (SlotOwners \ {t}) \cup {h}
      BY <1>21, <2>0, <3>1, <3>2 DEF WarmGive, Goto, SlotOwners, Types, Shape
    <3>4. Cardinality(SlotOwners') = Cardinality(SlotOwners)
      BY <2>0, <3>2, <3>3, SwapOne, Counts
    <3> QED BY <2>0, <2>3, <3>4 DEF SlotsAccounted
  <2> QED BY <2>0, <2>1, <2>2, <2>3, GiveBackSlots
<1>22. ASSUME NEW c \in Conns, Release(c) PROVE SlotsAccounted'
  <2>0. /\ c \in Conns /\ GiveBack(c, conn) /\ pc' = pc
        /\ handles' = handles \ {c} /\ c \in handles
        /\ discarding' = discarding /\ drops' = drops
    BY <1>22 DEF Release
  <2>1. CASE open_' = open_ - 1 /\ waiter' = waiter /\ idle_' = idle_
    <3>1. SlotOwners' = SlotOwners
      BY <1>22, <2>0, <2>1 DEF SlotOwners, Types, Shape
    <3>2. Cardinality(handles') = Cardinality(handles) - 1
      BY <2>0, <3>1, Counts, CardStep
    <3> QED BY <1>0, <2>0, <2>1, <3>1, <3>2, Counts DEF SlotsAccounted
  <2>2. CASE open_' = open_ /\ waiter' = waiter /\ Len(idle_') = Len(idle_) + 1
    <3>1. SlotOwners' = SlotOwners
      BY <1>22, <2>0, <2>2 DEF SlotOwners, Types, Shape
    <3>2. Cardinality(handles') = Cardinality(handles) - 1
      BY <2>0, <3>1, Counts, CardStep
    <3> QED BY <1>0, <2>0, <2>2, <3>1, <3>2, Counts DEF SlotsAccounted
  <2>3. CASE /\ open_' = open_ /\ idle_' = idle_
             /\ \E h \in Threads : /\ waiter[h] = "pending"
                                   /\ waiter' = [waiter EXCEPT ![h] = "connection"]
    <3>1. PICK h \in Threads : waiter[h] = "pending" /\ waiter' = [waiter EXCEPT ![h] = "connection"]
      BY <2>3
    <3>2. h \notin SlotOwners
      BY <2>0, <3>1 DEF SlotOwners, Shape
    <3>3. SlotOwners' = SlotOwners \cup {h}
      BY <1>22, <2>0, <3>1, <3>2 DEF SlotOwners, Types, Shape
    <3>4. Cardinality(SlotOwners') = Cardinality(SlotOwners) + 1
      BY <3>2, <3>3, Counts, CardStep
    <3>5. Cardinality(handles') = Cardinality(handles) - 1
      BY <2>0, Counts, CardStep
    <3> QED BY <2>0, <2>3, <3>4, <3>5, Counts, SMTT(30) DEF SlotsAccounted, Types
  <2> QED BY <2>0, <2>1, <2>2, <2>3, GiveBackSlots
<1>23. ASSUME NEW c \in Conns, Discard(c) PROVE SlotsAccounted'
  <2>1. SlotOwners' = SlotOwners
    BY <1>23 DEF Discard, SlotOwners
  <2>2. c \notin discarding
    BY <1>23 DEF Discard, OneOwner
  <2>3. Cardinality(discarding') = Cardinality(discarding) + 1
    BY <1>23, <2>2, Counts, CardStep DEF Discard
  <2>4. Cardinality(handles') = Cardinality(handles) - 1
    BY <1>23, Counts, CardStep DEF Discard
  <2> QED BY <1>23, <2>1, <2>3, <2>4, Counts DEF Discard, shared, SlotsAccounted, Types
<1>24. ASSUME NEW c \in Conns, Discarded(c) PROVE SlotsAccounted'
  <2>1. SlotOwners' = SlotOwners
    BY <1>24 DEF Discarded, SlotOwners
  <2>2. Cardinality(discarding') = Cardinality(discarding) - 1
    BY <1>24, Counts, CardStep DEF Discarded
  <2> QED BY <1>24, <2>1, <2>2, Counts, SMTT(30) DEF Discarded, shared, SlotsAccounted, Types
<1>25. ASSUME DiscardDrop PROVE SlotsAccounted'
  <2>0. Dropped
    BY <1>25 DEF DiscardDrop
  <2>1. CASE open_' = open_ - 1 /\ waiter' = waiter
    <3>1. SlotOwners' = SlotOwners
      BY <1>25, <2>1 DEF DiscardDrop, SlotOwners
    <3>2. idle_' = idle_
      BY <2>0, DroppedSlots
    <3> QED BY <1>25, <2>1, <3>1, <3>2, Counts DEF DiscardDrop, SlotsAccounted, Types
  <2>2. CASE open_' = open_ /\ \E h \in Threads : /\ waiter[h] = "pending"
                                                /\ waiter' = [waiter EXCEPT ![h] = "may_open"]
    <3>1. PICK h \in Threads : waiter[h] = "pending" /\ waiter' = [waiter EXCEPT ![h] = "may_open"]
      BY <2>2
    <3>2. SlotOwners' = SlotOwners \cup {h} /\ h \notin SlotOwners
      BY <1>25, <3>1 DEF DiscardDrop, SlotOwners, Types, Shape
    <3>3. Cardinality(SlotOwners') = Cardinality(SlotOwners) + 1
      BY <3>2, Counts, CardStep
    <3>4. idle_' = idle_
      BY <2>0, DroppedSlots
    <3> QED BY <1>25, <2>2, <3>3, <3>4, Counts DEF DiscardDrop, SlotsAccounted, Types
  <2> QED BY <2>0, <2>1, <2>2, DroppedSlots
<1>26. ASSUME Close PROVE SlotsAccounted'
  <2>1. SlotOwners' = SlotOwners
    BY <1>26 DEF Close, SlotOwners, Types, Shape, QueueShape
  <2>2. Len(idle_') = 0 /\ open_' = open_ - Len(idle_)
    BY <1>26, EmptyFacts DEF Close
  <2> QED BY <1>26, <2>1, <2>2, Counts, SMTT(30) DEF Close, SlotsAccounted, Types
<1>27. ASSUME NEW c \in Conns, CloseDoomed(c) PROVE SlotsAccounted'
  <2>1. SlotOwners' = SlotOwners
    BY <1>27 DEF CloseDoomed, shared, SlotOwners, Types, Shape
  <2> QED BY <1>27, <2>1 DEF CloseDoomed, shared, SlotsAccounted
<1>28. ASSUME UNCHANGED vars PROVE SlotsAccounted'
  <2>1. SlotOwners' = SlotOwners
    BY <1>28 DEF SlotOwners, vars
  <2> QED BY <1>28, <2>1 DEF SlotsAccounted, vars
<1> QED BY <1>1, <1>2, <1>3, <1>4, <1>5, <1>6, <1>7, <1>8, <1>9, <1>10, <1>11, <1>12,
      <1>13, <1>14, <1>15, <1>16, <1>17, <1>18, <1>19, <1>20, <1>21, <1>22, <1>23,
      <1>24, <1>25, <1>26, <1>27, <1>28 DEF Next, Step

\* The bound on slots.  Only a closed pool closes connections it no longer
\* counts, and together with the counted ones they stay within max_size.
Capacity ==
    /\ open_ <= max_size
    /\ WaitersMeanFull
    /\ ClosedIsEmpty
    /\ ~closed_ => doomed = {}
    /\ open_ + Cardinality(doomed) <= max_size

\* Initially nothing is open.
LEMMA CapacityInit == Init => Capacity
<1> SUFFICES ASSUME Init PROVE Capacity OBVIOUS
<1>1. max_size \in Nat BY PoolAssumption DEF PoolAssumption
<1>2. open_ = 0 /\ doomed = {} /\ waiters_ = <<>> /\ idle_ = <<>> /\ closed_ = FALSE BY DEF Init
<1>3. Cardinality(doomed) = 0 BY <1>2, FS_EmptySet
<1> QED BY <1>1, <1>2, <1>3 DEF Capacity, WaitersMeanFull, ClosedIsEmpty

\* dropped() never frees a slot past a waiting thread.
LEMMA DroppedCapacity ==
    ASSUME Types, Capacity, Dropped, doomed' = doomed
    PROVE  Capacity'
<1>1. max_size \in Nat BY PoolAssumption DEF PoolAssumption
<1>2. Cardinality(doomed) \in Nat BY Counts
<1>3. CASE /\ ~closed_ /\ waiters_ # <<>> /\ open_' = open_
           /\ idle_' = idle_ /\ closed_' = closed_
  BY <1>3 DEF Capacity, WaitersMeanFull, ClosedIsEmpty
<1>4. CASE /\ (closed_ \/ waiters_ = <<>>)
           /\ open_' = open_ - 1
           /\ waiters_' = waiters_ /\ idle_' = idle_ /\ closed_' = closed_
  <2>1. waiters_ = <<>> BY <1>4 DEF Capacity, ClosedIsEmpty
  <2>2. open_ \in Int BY DEF Types
  <2> QED BY <1>1, <1>2, <1>4, <2>1, <2>2 DEF Capacity, WaitersMeanFull, ClosedIsEmpty
<1> QED BY <1>3, <1>4 DEF Dropped

\* giveBack() never lets a connection become idle past a waiting thread.
LEMMA GiveBackCapacity ==
    ASSUME Types, Capacity, NEW c \in Conns, c \notin doomed, NEW others,
           GiveBack(c, others), closed_' = closed_
    PROVE  Capacity'
<1>1. max_size \in Nat /\ open_ \in Int BY PoolAssumption DEF PoolAssumption, Types
<1>2. Cardinality(doomed) \in Nat /\ Cardinality(doomed \cup {c}) = Cardinality(doomed) + 1
  BY Counts, CardStep
<1>3. CASE /\ closed_ /\ open_' = open_ - 1 /\ doomed' = doomed \cup {c}
           /\ idle_' = idle_ /\ waiters_' = waiters_
  BY <1>1, <1>2, <1>3 DEF Capacity, WaitersMeanFull, ClosedIsEmpty
<1>4. CASE /\ ~closed_ /\ waiters_ # <<>> /\ idle_' = idle_ /\ open_' = open_ /\ doomed' = doomed
  BY <1>4 DEF Capacity, WaitersMeanFull, ClosedIsEmpty
<1>5. CASE /\ ~closed_ /\ waiters_ = <<>> /\ waiters_' = waiters_
           /\ open_' = open_ /\ doomed' = doomed
  BY <1>5 DEF Capacity, WaitersMeanFull, ClosedIsEmpty
<1> QED BY <1>3, <1>4, <1>5 DEF GiveBack

\* A sequence has at least as many positions as elements.
LEMMA ToSetCardinality ==
    ASSUME NEW S, NEW q \in Seq(S)
    PROVE  Cardinality(ToSet(q)) <= Len(q)
<1> DEFINE f == [i \in 1 .. Len(q) |-> q[i]]
<1>1. Len(q) \in Nat /\ DOMAIN q = 1 .. Len(q) OBVIOUS
<1>2. f \in Surjection(1 .. Len(q), ToSet(q))
  BY <1>1 DEF Surjection, ToSet
<1>3. IsFiniteSet(1 .. Len(q)) /\ Cardinality(1 .. Len(q)) = Len(q)
  BY <1>1, FS_Interval
<1> QED BY <1>2, <1>3, FS_Surjection

\* No step exceeds max_size, frees a slot past a waiting thread or leaves
\* anything in a closed pool.
LEMMA CapacityNext ==
    ASSUME Types, Shape, OneOwner, Capacity, [Next]_vars
    PROVE  Capacity'
<1>0. open_ \in Int /\ max_size \in Nat /\ min_size \in Nat /\ min_size <= max_size
  BY PoolAssumption DEF Types, PoolAssumption
<1>1. ASSUME NEW t \in Threads, CallAcquire(t) PROVE Capacity'
  BY <1>1 DEF CallAcquire, shared, handleState, Capacity, WaitersMeanFull, ClosedIsEmpty
<1>2. ASSUME NEW t \in Threads, AcquireClosed(t) PROVE Capacity'
  BY <1>2 DEF AcquireClosed, shared, handleState, Capacity, WaitersMeanFull, ClosedIsEmpty
<1>3. ASSUME NEW t \in Threads, AcquireIdle(t) PROVE Capacity'
  <2>1. waiters_ = <<>>
    BY <1>3 DEF AcquireIdle, Capacity, WaitersMeanFull
  <2> QED BY <1>3, <2>1 DEF AcquireIdle, handleState, Capacity, WaitersMeanFull, ClosedIsEmpty
<1>4. ASSUME NEW t \in Threads, AcquireRoom(t) PROVE Capacity'
  <2>1. open_' <= max_size /\ waiters_ = <<>> /\ doomed = {}
    BY <1>0, <1>4 DEF AcquireRoom, Capacity, WaitersMeanFull, ClosedIsEmpty
  <2>2. Cardinality(doomed) = 0
    BY <2>1, FS_EmptySet
  <2> QED BY <1>0, <1>4, <2>1, <2>2 DEF AcquireRoom, handleState, Capacity, WaitersMeanFull, ClosedIsEmpty
<1>5. ASSUME NEW t \in Threads, AcquireWait(t) PROVE Capacity'
  BY <1>0, <1>5 DEF AcquireWait, handleState, Capacity, WaitersMeanFull, ClosedIsEmpty
<1>6. ASSUME NEW t \in Threads, WaitTimeout(t) PROVE Capacity'
  <2>1. waiters_ # <<>>
    BY <1>6, EraseWaiter, EmptyFacts DEF Types
  <2> QED BY <1>6, <2>1 DEF WaitTimeout, handleState, Capacity, WaitersMeanFull, ClosedIsEmpty
<1>7. ASSUME NEW t \in Threads, WakeClosed(t) PROVE Capacity'
  BY <1>7 DEF WakeClosed, shared, handleState, Capacity, WaitersMeanFull, ClosedIsEmpty
<1>8. ASSUME NEW t \in Threads, WakeConnection(t) PROVE Capacity'
  BY <1>8 DEF WakeConnection, shared, Capacity, WaitersMeanFull, ClosedIsEmpty
<1>9. ASSUME NEW t \in Threads, WakeMayOpen(t) PROVE Capacity'
  BY <1>9 DEF WakeMayOpen, shared, handleState, Capacity, WaitersMeanFull, ClosedIsEmpty
<1>10. ASSUME NEW t \in Threads, Usable(t) PROVE Capacity'
  BY <1>10 DEF Usable, shared, Capacity, WaitersMeanFull, ClosedIsEmpty
<1>11. ASSUME NEW t \in Threads, Expired(t) PROVE Capacity'
  BY <1>11 DEF Expired, shared, handleState, Capacity, WaitersMeanFull, ClosedIsEmpty
<1>12. ASSUME NEW t \in Threads, Broken(t) PROVE Capacity'
  BY <1>12 DEF Broken, shared, handleState, Capacity, WaitersMeanFull, ClosedIsEmpty
<1>13. ASSUME NEW t \in Threads, CloseChecked(t) PROVE Capacity'
  BY <1>13 DEF CloseChecked, shared, handleState, Capacity, WaitersMeanFull, ClosedIsEmpty
<1>14. ASSUME NEW t \in Threads, RetryDrop(t) PROVE Capacity'
  BY <1>14, DroppedCapacity DEF RetryDrop, handleState
<1>15. ASSUME NEW t \in Threads, NEW c \in Conns, FactoryOk(t, c) PROVE Capacity'
  BY <1>15 DEF FactoryOk, shared, Capacity, WaitersMeanFull, ClosedIsEmpty
<1>16. ASSUME NEW t \in Threads, FactoryThrows(t) PROVE Capacity'
  BY <1>16 DEF FactoryThrows, shared, handleState, Capacity, WaitersMeanFull, ClosedIsEmpty
<1>17. ASSUME NEW t \in Threads, FailDrop(t) PROVE Capacity'
  BY <1>17, DroppedCapacity DEF FailDrop, handleState
<1>18. ASSUME NEW t \in Threads, CallWarmUp(t) PROVE Capacity'
  BY <1>18 DEF CallWarmUp, shared, handleState, Capacity, WaitersMeanFull, ClosedIsEmpty
<1>19. ASSUME NEW t \in Threads, WarmDone(t) PROVE Capacity'
  BY <1>19 DEF WarmDone, shared, handleState, Capacity, WaitersMeanFull, ClosedIsEmpty
<1>20. ASSUME NEW t \in Threads, WarmReserve(t) PROVE Capacity'
  <2>1. open_' <= max_size /\ waiters_ = <<>> /\ doomed = {}
    BY <1>0, <1>20 DEF WarmReserve, Capacity, WaitersMeanFull, ClosedIsEmpty
  <2>2. Cardinality(doomed) = 0
    BY <2>1, FS_EmptySet
  <2> QED BY <1>0, <1>20, <2>1, <2>2 DEF WarmReserve, handleState, Capacity,
        WaitersMeanFull, ClosedIsEmpty
<1>21. ASSUME NEW t \in Threads, WarmGive(t) PROVE Capacity'
  <2>1. conn[t] \in Conns /\ conn[t] \notin doomed
    BY <1>21 DEF WarmGive, Types, Shape, OneOwner
  <2> QED BY <1>21, <2>1, GiveBackCapacity DEF WarmGive
<1>22. ASSUME NEW c \in Conns, Release(c) PROVE Capacity'
  <2>1. c \notin doomed
    BY <1>22 DEF Release, OneOwner
  <2> QED BY <1>22, <2>1, GiveBackCapacity DEF Release
<1>23. ASSUME NEW c \in Conns, Discard(c) PROVE Capacity'
  BY <1>23 DEF Discard, shared, Capacity, WaitersMeanFull, ClosedIsEmpty
<1>24. ASSUME NEW c \in Conns, Discarded(c) PROVE Capacity'
  BY <1>24 DEF Discarded, shared, Capacity, WaitersMeanFull, ClosedIsEmpty
<1>25. ASSUME DiscardDrop PROVE Capacity'
  BY <1>25, DroppedCapacity DEF DiscardDrop
<1>26. ASSUME Close PROVE Capacity'
  <2>1. Cardinality(doomed') <= Len(idle_)
    <3>1. doomed' = ToSet(idle_)
      BY <1>26 DEF Close, Capacity
    <3> QED BY <3>1, ToSetCardinality DEF Types
  <2>2. Cardinality(doomed') \in Nat
    <3>1. IsFiniteSet(doomed')
      <4>1. doomed' \subseteq Conns
        BY <1>26, EmptyFacts DEF Close, Types
      <4> QED BY <4>1, FS_Subset, PoolAssumption DEF PoolAssumption
    <3> QED BY <3>1, FS_CardinalityType
  <2> QED BY <1>0, <1>26, <2>1, <2>2, Counts DEF Close, Capacity, WaitersMeanFull, ClosedIsEmpty
<1>27. ASSUME NEW c \in Conns, CloseDoomed(c) PROVE Capacity'
  <2>1. Cardinality(doomed') = Cardinality(doomed) - 1
    BY <1>27, Counts, CardStep DEF CloseDoomed
  <2> QED BY <1>0, <1>27, <2>1, Counts DEF CloseDoomed, shared, Capacity, WaitersMeanFull, ClosedIsEmpty
<1>28. ASSUME UNCHANGED vars PROVE Capacity'
  BY <1>28 DEF vars, Capacity, WaitersMeanFull, ClosedIsEmpty
<1> QED BY <1>1, <1>2, <1>3, <1>4, <1>5, <1>6, <1>7, <1>8, <1>9, <1>10, <1>11, <1>12,
      <1>13, <1>14, <1>15, <1>16, <1>17, <1>18, <1>19, <1>20, <1>21, <1>22, <1>23,
      <1>24, <1>25, <1>26, <1>27, <1>28 DEF Next, Step

(***************************************************************************)
(* The inductive invariant and what follows from it                        *)
(***************************************************************************)
IInv == Types /\ Shape /\ OneOwner /\ SlotsAccounted /\ Capacity

\* IInv holds initially and every step of the pool keeps it.
THEOREM Invariance == Spec => []IInv
<1>1. Init => IInv
  BY TypesInit, ShapeInit, OwnerInit, AccountInit, CapacityInit DEF IInv
<1>2. IInv /\ [Next]_vars => IInv'
  BY TypesNext, ShapeNext, OwnerNext, AccountNext, CapacityNext DEF IInv
<1> QED BY <1>1, <1>2, PTL DEF Spec

\* Type correctness: in particular the unsigned open_ never wraps below zero
\* and never exceeds max_size, whatever acquire(), warmUp(), the handles and
\* close() do concurrently.
THEOREM TypeCorrect == Spec => []TypeOK
<1>1. IInv => TypeOK
  <2> SUFFICES ASSUME IInv PROVE TypeOK OBVIOUS
  <2>1. max_size \in Nat /\ open_ \in Int /\ drops \in Nat
    BY PoolAssumption DEF PoolAssumption, IInv, Types
  <2>2. open_ \in 0 .. max_size
    BY <2>1, Counts DEF IInv, SlotsAccounted, Capacity
  <2> QED BY <2>2 DEF IInv, Types, TypeOK
<1> QED BY <1>1, Invariance, PTL

\* open_ counts exactly the idle, used, opening and closing connections.
THEOREM SlotsAreAccounted == Spec => []SlotsAccounted
<1>1. IInv => SlotsAccounted BY DEF IInv
<1> QED BY <1>1, Invariance, PTL

\* No connection is ever handed to two owners.
THEOREM ConnectionsHaveOneOwner == Spec => []OneOwner
<1>1. IInv => OneOwner BY DEF IInv
<1> QED BY <1>1, Invariance, PTL

\* Threads wait only while every slot is taken.
THEOREM NoIdlePastWaiters == Spec => []WaitersMeanFull
<1>1. IInv => WaitersMeanFull BY DEF IInv, Capacity
<1> QED BY <1>1, Invariance, PTL

\* A closed pool keeps neither an idle connection nor a waiter.
THEOREM ClosedPoolIsEmpty == Spec => []ClosedIsEmpty
<1>1. IInv => ClosedIsEmpty BY DEF IInv, Capacity
<1> QED BY <1>1, Invariance, PTL

\* A thread with a local connection owns a slot, so there are no more local
\* connections than slot owners.
LEMMA LocalsBounded ==
    ASSUME Types, Shape
    PROVE  LET L == {conn[t] : t \in Threads} \ {NoConn}
           IN  IsFiniteSet(L) /\ Cardinality(L) <= Cardinality(SlotOwners)
<1> DEFINE D == {t \in Threads : conn[t] # NoConn}
           L == {conn[t] : t \in Threads} \ {NoConn}
           f == [t \in D |-> conn[t]]
<1>1. D \subseteq SlotOwners
  BY DEF Shape, SlotOwners
<1>2. IsFiniteSet(D) /\ Cardinality(D) <= Cardinality(SlotOwners)
  BY <1>1, Counts, FS_Subset
<1>3. f \in Surjection(D, L)
  BY DEF Surjection
<1>4. IsFiniteSet(L) /\ Cardinality(L) <= Cardinality(D)
  BY <1>2, <1>3, FS_Surjection
<1>5. Cardinality(L) \in Nat /\ Cardinality(D) \in Nat /\ Cardinality(SlotOwners) \in Nat
  BY <1>2, <1>4, Counts, FS_CardinalityType
<1> HIDE DEF D, L
<1>6. IsFiniteSet(L) /\ Cardinality(L) <= Cardinality(SlotOwners)
  BY <1>2, <1>4, <1>5
<1> QED BY <1>6 DEF L

\* The size of a union is at most the sum of the sizes.
LEMMA UnionBound ==
    ASSUME NEW S, NEW T, IsFiniteSet(S), IsFiniteSet(T)
    PROVE  /\ IsFiniteSet(S \cup T)
           /\ Cardinality(S \cup T) \in Nat
           /\ Cardinality(S \cup T) <= Cardinality(S) + Cardinality(T)
<1>1. /\ IsFiniteSet(S \cup T)
      /\ Cardinality(S \cup T) = Cardinality(S) + Cardinality(T) - Cardinality(S \cap T)
  BY FS_Union
<1>2. IsFiniteSet(S \cap T)
  BY FS_Intersection
<1> QED BY <1>1, <1>2, FS_CardinalityType

\* At no time are more than max_size connections physically open, connections
\* being closed outside the lock included.
THEOREM LiveIsBounded == Spec => []LiveBounded
<1>1. ASSUME IInv PROVE LiveBounded
  <2> DEFINE A == ToSet(idle_)
             L == {conn[t] : t \in Threads} \ {NoConn}
             B == A \cup handles
             C == B \cup discarding
             D == C \cup doomed
  <2>1. Types /\ Shape /\ SlotsAccounted /\ Capacity
    BY <1>1 DEF IInv
  <2>2. IsFiniteSet(A) /\ Cardinality(A) <= Len(idle_)
    <3>1. A \subseteq Conns
      BY <2>1, EmptyFacts DEF Types
    <3> QED BY <2>1, <3>1, ToSetCardinality, FS_Subset, PoolAssumption DEF Types, PoolAssumption
  <2>3. IsFiniteSet(L) /\ Cardinality(L) <= Cardinality(SlotOwners)
    BY <2>1, LocalsBounded
  <2> HIDE DEF A, L
  <2>4. /\ Len(idle_) \in Nat /\ Cardinality(SlotOwners) \in Nat
        /\ IsFiniteSet(handles) /\ Cardinality(handles) \in Nat
        /\ IsFiniteSet(discarding) /\ Cardinality(discarding) \in Nat
        /\ IsFiniteSet(doomed) /\ Cardinality(doomed) \in Nat
    BY <2>1, Counts
  <2>5. IsFiniteSet(B) /\ Cardinality(B) <= Cardinality(A) + Cardinality(handles)
    BY <2>2, <2>4, UnionBound
  <2> HIDE DEF B
  <2>6. IsFiniteSet(C) /\ Cardinality(C) <= Cardinality(B) + Cardinality(discarding)
    BY <2>4, <2>5, UnionBound
  <2> HIDE DEF C
  <2>7. IsFiniteSet(D) /\ Cardinality(D) <= Cardinality(C) + Cardinality(doomed)
    BY <2>4, <2>6, UnionBound
  <2> HIDE DEF D
  <2>8. Cardinality(D \cup L) <= Cardinality(D) + Cardinality(L)
    BY <2>3, <2>7, UnionBound
  <2>9. /\ Cardinality(A) \in Nat /\ Cardinality(B) \in Nat /\ Cardinality(C) \in Nat
        /\ Cardinality(D) \in Nat /\ Cardinality(L) \in Nat /\ Cardinality(D \cup L) \in Nat
    BY <2>2, <2>3, <2>5, <2>6, <2>7, UnionBound, FS_CardinalityType
  <2>10. /\ open_ = Len(idle_) + Cardinality(handles) + Cardinality(discarding)
                    + drops + Cardinality(SlotOwners)
         /\ open_ + Cardinality(doomed) <= max_size
         /\ open_ \in Int /\ drops \in Nat /\ max_size \in Nat
    BY <2>1, PoolAssumption DEF SlotsAccounted, Capacity, Types, PoolAssumption
  <2>11. Cardinality(D \cup L) <= max_size
    <3>1. Cardinality(B) <= Len(idle_) + Cardinality(handles)
      BY <2>2, <2>4, <2>5, <2>9
    <3>2. Cardinality(C) <= Len(idle_) + Cardinality(handles) + Cardinality(discarding)
      BY <2>4, <2>6, <2>9, <3>1
    <3>3. Cardinality(D) <= Len(idle_) + Cardinality(handles) + Cardinality(discarding)
                            + Cardinality(doomed)
      BY <2>4, <2>7, <2>9, <3>2
    <3>4. Cardinality(D \cup L) <= Cardinality(D) + Cardinality(SlotOwners)
      BY <2>3, <2>4, <2>8, <2>9
    <3>5. Len(idle_) + Cardinality(handles) + Cardinality(discarding)
          + Cardinality(SlotOwners) <= open_
      BY <2>4, <2>10
    <3>6. Cardinality(D \cup L) <= open_ + Cardinality(doomed)
      <4> HIDE DEF SlotOwners
      <4>1. open_ \in Int BY <2>10
      <4> QED BY <2>4, <2>9, <3>3, <3>4, <3>5, <4>1, SMTT(30)
    <3> QED BY <2>4, <2>9, <2>10, <3>6
  <2>12. Live = D \cup L
    BY DEF Live, A, B, C, D, L
  <2> QED BY <2>11, <2>12 DEF LiveBounded
<1>2. IInv => LiveBounded BY <1>1
<1> QED BY <1>2, Invariance, PTL

(***************************************************************************)
(* The pool implements the first come, first served semaphore              *)
(***************************************************************************)
\* Serving, waking and queueing threads, seen through the refinement mapping.
LEMMA WokenFacts ==
    ASSUME Types
    PROVE  /\ waiter' = waiter => Woken' = Woken
           /\ \A h \in Threads, x \in {"connection", "may_open"} :
                 waiter' = [waiter EXCEPT ![h] = x] =>
                    Woken' = [Woken EXCEPT ![h] = "granted"]
           /\ \A t \in Threads :
                 waiter[t] \in {"connection", "may_open", "closed"}
                 /\ waiter' = [waiter EXCEPT ![t] = "none"] =>
                    Woken[t] # "no" /\ Woken' = [Woken EXCEPT ![t] = "no"]
           /\ \A t \in Threads, x \in {"none", "pending"} :
                 waiter[t] \in {"none", "pending"} /\ waiter' = [waiter EXCEPT ![t] = x] =>
                    Woken' = Woken
  BY DEF Types, Woken

\* Some slot is neither free nor idle.
SlotTaken == open_ - Len(idle_) >= 1

\* dropped(), called by the owner of a slot, is HandOver or Return.
LEMMA DroppedRefines ==
    ASSUME Types, Shape, Capacity, SlotTaken, Dropped
    PROVE  Sem!HandOver \/ Sem!Return
<1>1. max_size \in Nat /\ open_ \in Int /\ Len(idle_) \in Nat
  BY PoolAssumption, Counts DEF PoolAssumption, Types
<1>2. CASE /\ ~closed_ /\ waiters_ # <<>>
           /\ waiters_' = Tail(waiters_)
           /\ waiter' = [waiter EXCEPT ![Head(waiters_)] = "may_open"]
           /\ open_' = open_ /\ idle_' = idle_ /\ closed_' = closed_
  <2>1. Head(waiters_) \in Threads
    BY <1>2, TailFacts DEF Types
  <2>2. Woken' = [Woken EXCEPT ![Head(waiters_)] = "granted"]
    BY <1>2, <2>1, WokenFacts
  <2> QED BY <1>2, <2>2 DEF Sem!HandOver, Free
<1>3. CASE /\ (closed_ \/ waiters_ = <<>>)
           /\ open_' = open_ - 1
           /\ waiters_' = waiters_ /\ waiter' = waiter /\ idle_' = idle_ /\ closed_' = closed_
  <2>1. waiters_ = <<>>
    BY <1>3 DEF Capacity, ClosedIsEmpty
  <2>2. Woken' = Woken
    BY <1>3, WokenFacts
  <2>3. Free < max_size /\ Free' = Free + 1
    BY <1>1, <1>3 DEF Free, SlotTaken
  <2> QED BY <1>3, <2>1, <2>2, <2>3 DEF Sem!Return
<1> QED BY <1>2, <1>3 DEF Dropped

\* giveBack(), called by the owner of a slot, is HandOver or Return.
LEMMA GiveBackRefines ==
    ASSUME Types, Shape, Capacity, SlotTaken, NEW c \in Conns, NEW others,
           GiveBack(c, others), closed_' = closed_
    PROVE  Sem!HandOver \/ Sem!Return
<1>1. max_size \in Nat /\ open_ \in Int /\ Len(idle_) \in Nat
  BY PoolAssumption, Counts DEF PoolAssumption, Types
<1>2. CASE /\ waiters_ # <<>>
           /\ waiters_' = Tail(waiters_)
           /\ waiter' = [waiter EXCEPT ![Head(waiters_)] = "connection"]
           /\ open_' = open_ /\ idle_' = idle_
  <2>1. Head(waiters_) \in Threads
    BY <1>2, TailFacts DEF Types
  <2>2. Woken' = [Woken EXCEPT ![Head(waiters_)] = "granted"]
    BY <1>2, <2>1, WokenFacts
  <2> QED BY <1>2, <2>2 DEF Sem!HandOver, Free
<1>3. CASE /\ waiters_ = <<>> /\ waiters_' = waiters_ /\ waiter' = waiter
           /\ open_' - Len(idle_') = open_ - Len(idle_) - 1
           /\ open_' \in Int /\ Len(idle_') \in Nat
  <2>1. Woken' = Woken
    BY <1>3, WokenFacts
  <2>2. Free < max_size /\ Free' = Free + 1
    BY <1>1, <1>3 DEF Free, SlotTaken
  <2> QED BY <1>3, <2>1, <2>2 DEF Sem!Return
<1>4. CASE /\ closed_ /\ open_' = open_ - 1
           /\ idle_' = idle_ /\ waiters_' = waiters_ /\ waiter' = waiter
  <2>1. waiters_ = <<>>
    BY <1>4 DEF Capacity, ClosedIsEmpty
  <2> QED BY <1>1, <1>3, <1>4, <2>1
<1>5. CASE /\ waiters_ = <<>> /\ idle_' = Append(idle_, c)
           /\ waiters_' = waiters_ /\ waiter' = waiter /\ open_' = open_
  <2>1. Len(idle_') = Len(idle_) + 1
    BY <1>5, AppendFacts DEF Types
  <2> QED BY <1>1, <1>3, <1>5, <2>1
<1> QED BY <1>2, <1>4, <1>5 DEF GiveBack

\* Whoever owns a slot, or is about to drop one, has taken a permit.
LEMMA OwnerTakesSlot ==
    ASSUME Types, SlotsAccounted, SlotOwners # {} \/ handles # {} \/ drops > 0
    PROVE  SlotTaken
<1>1. drops \in Nat /\ open_ \in Int
  BY DEF Types
<1>2. SlotOwners # {} => Cardinality(SlotOwners) >= 1
  BY Counts, FS_EmptySet
<1>3. handles # {} => Cardinality(handles) >= 1
  BY Counts, FS_EmptySet
<1>4. open_ = Len(idle_) + Cardinality(handles) + Cardinality(discarding)
              + drops + Cardinality(SlotOwners)
  BY DEF SlotsAccounted
<1>5. /\ Len(idle_) \in Nat /\ Cardinality(handles) \in Nat
      /\ Cardinality(discarding) \in Nat /\ Cardinality(SlotOwners) \in Nat
  BY Counts
<1>6. Cardinality(handles) + drops + Cardinality(SlotOwners) >= 1
  BY <1>1, <1>2, <1>3, <1>5
<1> QED BY <1>1, <1>4, <1>5, <1>6 DEF SlotTaken

\* Every step of the pool is a step of the semaphore or leaves it unchanged.
LEMMA StepRefines ==
    ASSUME IInv, [Next]_vars
    PROVE  [Sem!SemNext]_(Sem!semVars)
<1> USE DEF IInv
<1>0. /\ open_ \in Int /\ max_size \in Nat /\ min_size \in Nat
      /\ min_size <= max_size /\ Len(idle_) \in Nat
  BY PoolAssumption, Counts DEF Types, PoolAssumption
<1>1. ASSUME NEW t \in Threads, CallAcquire(t) PROVE [Sem!SemNext]_(Sem!semVars)
  BY <1>1 DEF CallAcquire, shared, Free, Woken, Sem!semVars
<1>2. ASSUME NEW t \in Threads, AcquireClosed(t) PROVE [Sem!SemNext]_(Sem!semVars)
  BY <1>2 DEF AcquireClosed, shared, Free, Woken, Sem!semVars
<1>3. ASSUME NEW t \in Threads, AcquireIdle(t) PROVE [Sem!SemNext]_(Sem!semVars)
  <2>1. waiters_ = <<>>
    BY <1>3 DEF AcquireIdle, Capacity, WaitersMeanFull
  <2>2. Len(idle_') = Len(idle_) - 1 /\ Len(idle_) >= 1
    <3>1. Len(idle_') = Len(idle_) - 1
      BY <1>3, FrontFacts DEF AcquireIdle, Types
    <3>2. Len(idle_) # 0
      BY <1>3, EmptyFacts DEF AcquireIdle, Types
    <3> QED BY <1>0, <3>1, <3>2
  <2>3. Free > 0 /\ Free' = Free - 1
    BY <1>0, <1>3, <2>2 DEF AcquireIdle, Free, Capacity
  <2>4. Woken' = Woken
    BY <1>3, WokenFacts DEF AcquireIdle
  <2>5. Sem!Take
    BY <1>3, <2>1, <2>3, <2>4 DEF AcquireIdle, Sem!Take
  <2> QED BY <2>5 DEF Sem!SemNext
<1>4. ASSUME NEW t \in Threads, AcquireRoom(t) PROVE [Sem!SemNext]_(Sem!semVars)
  <2>1. waiters_ = <<>>
    BY <1>0, <1>4 DEF AcquireRoom, Capacity, WaitersMeanFull
  <2>2. Free > 0 /\ Free' = Free - 1
    BY <1>0, <1>4 DEF AcquireRoom, Free
  <2>3. Woken' = Woken
    BY <1>4, WokenFacts DEF AcquireRoom
  <2>4. Sem!Take
    BY <1>4, <2>1, <2>2, <2>3 DEF AcquireRoom, Sem!Take
  <2> QED BY <2>4 DEF Sem!SemNext
<1>5. ASSUME NEW t \in Threads, AcquireWait(t) PROVE [Sem!SemNext]_(Sem!semVars)
  <2>1. waiter[t] = "none" /\ t \notin ToSet(waiters_)
    BY <1>5 DEF AcquireWait, Shape, QueueShape
  <2>2. Free = 0 /\ Free' = Free
    BY <1>0, <1>5, EmptyFacts DEF AcquireWait, Free, Capacity
  <2>3. Woken' = Woken
    BY <1>5, <2>1, WokenFacts DEF AcquireWait
  <2>4. Sem!Enqueue(t)
    BY <1>5, <2>1, <2>2, <2>3 DEF AcquireWait, Sem!Enqueue, ToSet, Sem!ToSet
  <2> QED BY <2>4 DEF Sem!SemNext
<1>6. ASSUME NEW t \in Threads, WaitTimeout(t) PROVE [Sem!SemNext]_(Sem!semVars)
  <2>1. \E i \in 1 .. Len(waiters_) : waiters_[i] = t /\ waiters_' = RemoveAt(waiters_, i)
    BY <1>6, EraseWaiter
  <2>2. t \in ToSet(waiters_)
    BY <1>6 DEF WaitTimeout, Shape, QueueShape
  <2>3. Free' = Free
    BY <1>6 DEF WaitTimeout, Free
  <2>4. Woken' = Woken
    BY <1>6, WokenFacts DEF WaitTimeout
  <2>5. Sem!Leave(t)
    BY <1>6, <2>1, <2>2, <2>3, <2>4 DEF WaitTimeout, Sem!Leave, ToSet, Sem!ToSet, RemoveAt, Sem!RemoveAt
  <2> QED BY <2>5 DEF Sem!SemNext
<1>7. ASSUME NEW t \in Threads, WakeClosed(t) PROVE [Sem!SemNext]_(Sem!semVars)
  <2>1. Woken[t] # "no" /\ Woken' = [Woken EXCEPT ![t] = "no"]
    BY <1>7, WokenFacts DEF WakeClosed
  <2>2. Sem!Run(t)
    BY <1>7, <2>1 DEF WakeClosed, shared, Free, Sem!Run
  <2> QED BY <2>2 DEF Sem!SemNext
<1>8. ASSUME NEW t \in Threads, WakeConnection(t) PROVE [Sem!SemNext]_(Sem!semVars)
  <2>1. Woken[t] # "no" /\ Woken' = [Woken EXCEPT ![t] = "no"]
    BY <1>8, WokenFacts DEF WakeConnection
  <2>2. Sem!Run(t)
    BY <1>8, <2>1 DEF WakeConnection, shared, Free, Sem!Run
  <2> QED BY <2>2 DEF Sem!SemNext
<1>9. ASSUME NEW t \in Threads, WakeMayOpen(t) PROVE [Sem!SemNext]_(Sem!semVars)
  <2>1. Woken[t] # "no" /\ Woken' = [Woken EXCEPT ![t] = "no"]
    BY <1>9, WokenFacts DEF WakeMayOpen
  <2>2. Sem!Run(t)
    BY <1>9, <2>1 DEF WakeMayOpen, shared, Free, Sem!Run
  <2> QED BY <2>2 DEF Sem!SemNext
<1>10. ASSUME NEW t \in Threads, Usable(t) PROVE [Sem!SemNext]_(Sem!semVars)
  BY <1>10 DEF Usable, shared, Free, Woken, Sem!semVars
<1>11. ASSUME NEW t \in Threads, Expired(t) PROVE [Sem!SemNext]_(Sem!semVars)
  BY <1>11 DEF Expired, shared, Free, Woken, Sem!semVars
<1>12. ASSUME NEW t \in Threads, Broken(t) PROVE [Sem!SemNext]_(Sem!semVars)
  BY <1>12 DEF Broken, shared, Free, Woken, Sem!semVars
<1>13. ASSUME NEW t \in Threads, CloseChecked(t) PROVE [Sem!SemNext]_(Sem!semVars)
  BY <1>13 DEF CloseChecked, shared, Free, Woken, Sem!semVars
<1>14. ASSUME NEW t \in Threads, RetryDrop(t) PROVE [Sem!SemNext]_(Sem!semVars)
  <2>1. t \in SlotOwners
    BY <1>14 DEF RetryDrop, SlotOwners
  <2>2. SlotTaken
    BY <2>1, OwnerTakesSlot
  <2> QED BY <1>14, <2>2, DroppedRefines DEF RetryDrop, Sem!SemNext
<1>15. ASSUME NEW t \in Threads, NEW c \in Conns, FactoryOk(t, c) PROVE [Sem!SemNext]_(Sem!semVars)
  BY <1>15 DEF FactoryOk, shared, Free, Woken, Sem!semVars
<1>16. ASSUME NEW t \in Threads, FactoryThrows(t) PROVE [Sem!SemNext]_(Sem!semVars)
  BY <1>16 DEF FactoryThrows, shared, Free, Woken, Sem!semVars
<1>17. ASSUME NEW t \in Threads, FailDrop(t) PROVE [Sem!SemNext]_(Sem!semVars)
  <2>1. t \in SlotOwners
    BY <1>17 DEF FailDrop, SlotOwners
  <2>2. SlotTaken
    BY <2>1, OwnerTakesSlot
  <2> QED BY <1>17, <2>2, DroppedRefines DEF FailDrop, Sem!SemNext
<1>18. ASSUME NEW t \in Threads, CallWarmUp(t) PROVE [Sem!SemNext]_(Sem!semVars)
  BY <1>18 DEF CallWarmUp, shared, Free, Woken, Sem!semVars
<1>19. ASSUME NEW t \in Threads, WarmDone(t) PROVE [Sem!SemNext]_(Sem!semVars)
  BY <1>19 DEF WarmDone, shared, Free, Woken, Sem!semVars
<1>20. ASSUME NEW t \in Threads, WarmReserve(t) PROVE [Sem!SemNext]_(Sem!semVars)
  <2>1. waiters_ = <<>>
    BY <1>0, <1>20 DEF WarmReserve, Capacity, WaitersMeanFull
  <2>2. Free > 0 /\ Free' = Free - 1
    BY <1>0, <1>20 DEF WarmReserve, Free
  <2>3. Woken' = Woken
    BY <1>20, WokenFacts DEF WarmReserve
  <2>4. Sem!Take
    BY <1>20, <2>1, <2>2, <2>3 DEF WarmReserve, Sem!Take
  <2> QED BY <2>4 DEF Sem!SemNext
<1>21. ASSUME NEW t \in Threads, WarmGive(t) PROVE [Sem!SemNext]_(Sem!semVars)
  <2>1. t \in SlotOwners
    BY <1>21 DEF WarmGive, SlotOwners
  <2>2. SlotTaken
    BY <2>1, OwnerTakesSlot
  <2>3. conn[t] \in Conns
    BY <1>21 DEF WarmGive, Types, Shape
  <2> QED BY <1>21, <2>2, <2>3, GiveBackRefines DEF WarmGive, Sem!SemNext
<1>22. ASSUME NEW c \in Conns, Release(c) PROVE [Sem!SemNext]_(Sem!semVars)
  <2>1. SlotTaken
    BY <1>22, OwnerTakesSlot DEF Release
  <2> QED BY <1>22, <2>1, GiveBackRefines DEF Release, Sem!SemNext
<1>23. ASSUME NEW c \in Conns, Discard(c) PROVE [Sem!SemNext]_(Sem!semVars)
  BY <1>23 DEF Discard, shared, Free, Woken, Sem!semVars
<1>24. ASSUME NEW c \in Conns, Discarded(c) PROVE [Sem!SemNext]_(Sem!semVars)
  BY <1>24 DEF Discarded, shared, Free, Woken, Sem!semVars
<1>25. ASSUME DiscardDrop PROVE [Sem!SemNext]_(Sem!semVars)
  <2>1. SlotTaken
    BY <1>25, OwnerTakesSlot DEF DiscardDrop
  <2> QED BY <1>25, <2>1, DroppedRefines DEF DiscardDrop, Sem!SemNext
<1>26. ASSUME Close PROVE [Sem!SemNext]_(Sem!semVars)
  <2>1. Free' = Free
    BY <1>0, <1>26, EmptyFacts DEF Close, Free
  <2>2. Woken' = [t \in Threads |-> IF t \in ToSet(waiters_) THEN "refused" ELSE Woken[t]]
    BY <1>26 DEF Close, Woken
  <2>3. Sem!Shut
    BY <1>26, <2>1, <2>2 DEF Close, Sem!Shut, ToSet, Sem!ToSet
  <2> QED BY <2>3 DEF Sem!SemNext
<1>27. ASSUME NEW c \in Conns, CloseDoomed(c) PROVE [Sem!SemNext]_(Sem!semVars)
  BY <1>27 DEF CloseDoomed, shared, Free, Woken, Sem!semVars
<1>28. ASSUME UNCHANGED vars PROVE [Sem!SemNext]_(Sem!semVars)
  BY <1>28 DEF vars, Free, Woken, Sem!semVars
<1> QED BY <1>1, <1>2, <1>3, <1>4, <1>5, <1>6, <1>7, <1>8, <1>9, <1>10, <1>11, <1>12,
      <1>13, <1>14, <1>15, <1>16, <1>17, <1>18, <1>19, <1>20, <1>21, <1>22, <1>23,
      <1>24, <1>25, <1>26, <1>27, <1>28 DEF Next, Step

\* "Waiters are served in order (FIFO)": the pool implements the abstract
\* semaphore, so no thread is overtaken and no permit is lost or invented.
THEOREM PoolServesInOrder == Spec => ServesInOrder
<1>1. Init => Sem!SemInit
  <2> SUFFICES ASSUME Init PROVE Sem!SemInit OBVIOUS
  <2>1. Free = max_size
    BY EmptyFacts, PoolAssumption DEF Init, Free, PoolAssumption
  <2>2. Woken = [t \in Threads |-> "no"]
    BY DEF Init, Woken
  <2> QED BY <2>1, <2>2 DEF Init, Sem!SemInit
<1>2. IInv /\ [Next]_vars => [Sem!SemNext]_(Sem!semVars)
  BY StepRefines
<1> QED BY <1>1, <1>2, Invariance, PTL DEF Spec, ServesInOrder, Sem!SemSpec

=============================================================================
