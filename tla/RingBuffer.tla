----------------------------- MODULE RingBuffer -----------------------------
(***************************************************************************)
(* The lock-free queue of include/cppgate/RingBuffer.h, for any number of  *)
(* producers and consumers.                                                *)
(*                                                                         *)
(* One action is one access to a shared atomic, or one access to a slot's  *)
(* data.  The acquire and release orders of the code make the accesses to  *)
(* data ordered with those to sequence, so that interleaving them is       *)
(* faithful; while data is being written its value is Torn.  Positions are *)
(* std::uint64_t in the code; MaxPushes keeps them far from wrapping.  The *)
(* item of a push() is the position it claims, which names it uniquely.    *)
(***************************************************************************)
EXTENDS Integers, FiniteSets

CONSTANTS
    Producers,      \* threads that call push()
    Consumers,      \* threads that call pop()
    Size,           \* std::bit_ceil(req_size): 1, 2, 4, ...
    Torn,           \* data of a slot that is being written, or never was
    MaxPushes       \* bound: calls of push()

ASSUME RingAssumption ==
    /\ Size \in Nat \ {0}
    /\ MaxPushes \in Nat
    /\ Torn \notin 0 .. MaxPushes
    /\ Producers \cap Consumers = {}

VARIABLES
    head, tail,     \* next position to claim, next position to take
    sequence,       \* of each slot
    data,           \* of each slot
    pc,             \* where each thread is in push() or pop()
    pos,            \* the local variable pos of each thread
    popped          \* <<position, item>> of every pop() that returned true

vars == <<head, tail, sequence, data, pc, pos, popped>>

Threads == Producers \cup Consumers
Slots == 0 .. Size - 1

\* pos & Mask
SlotOf(p) == p % Size

Init ==
    /\ head = 0
    /\ tail = 0
    /\ sequence = [s \in Slots |-> s]
    /\ data = [s \in Slots |-> Torn]
    /\ pc = [t \in Threads |-> "out"]
    /\ pos = [t \in Threads |-> 0]
    /\ popped = {}

Goto(t, l) == pc' = [pc EXCEPT ![t] = l]

(***************************************************************************)
(* Faulty variants, not part of the specification                          *)
(***************************************************************************)
\* push() that does not wait for its turn
WriteNoWait(p) ==
    /\ pc[p] = "claimed"
    /\ data' = [data EXCEPT ![SlotOf(pos[p])] = Torn]
    /\ Goto(p, "writing")
    /\ UNCHANGED <<head, tail, sequence, pos, popped>>

\* pop() that frees the slot for this lap instead of the next
ReleaseSameLap(c) ==
    /\ pc[c] = "reading"
    /\ popped' = popped \cup {<<pos[c], data[SlotOf(pos[c])]>>}
    /\ sequence' = [sequence EXCEPT ![SlotOf(pos[c])] = pos[c]]
    /\ Goto(c, "out")
    /\ UNCHANGED <<head, tail, data, pos>>

\* pop() that gives up when another consumer was faster
PassedGivesUp(c) ==
    /\ pc[c] = "load"
    /\ sequence[SlotOf(pos[c])] > pos[c] + 1
    /\ Goto(c, "out")
    /\ UNCHANGED <<head, tail, sequence, data, pos, popped>>

(***************************************************************************)
(* push()                                                                  *)
(***************************************************************************)
\* head.fetch_add(1)
Claim(p) ==
    /\ pc[p] = "out"
    /\ head < MaxPushes
    /\ pos' = [pos EXCEPT ![p] = head]
    /\ head' = head + 1
    /\ Goto(p, "claimed")
    /\ UNCHANGED <<tail, sequence, data, popped>>

\* The producer's turn; until then it spins.  slot.data is being assigned ...
Write(p) ==
    /\ pc[p] = "claimed"
    /\ sequence[SlotOf(pos[p])] = pos[p]
    /\ data' = [data EXCEPT ![SlotOf(pos[p])] = Torn]
    /\ Goto(p, "writing")
    /\ UNCHANGED <<head, tail, sequence, pos, popped>>

\* ... and published
Publish(p) ==
    /\ pc[p] = "writing"
    /\ data' = [data EXCEPT ![SlotOf(pos[p])] = pos[p]]
    /\ sequence' = [sequence EXCEPT ![SlotOf(pos[p])] = pos[p] + 1]
    /\ Goto(p, "out")
    /\ UNCHANGED <<head, tail, pos, popped>>

(***************************************************************************)
(* pop()                                                                   *)
(***************************************************************************)
CallPop(c) ==
    /\ pc[c] = "out"
    /\ pos' = [pos EXCEPT ![c] = tail]
    /\ Goto(c, "load")
    /\ UNCHANGED <<head, tail, sequence, data, popped>>

\* diff = sequence - (pos + 1)
\* - zero: the item is ready
Ready(c) ==
    /\ pc[c] = "load"
    /\ sequence[SlotOf(pos[c])] = pos[c] + 1
    /\ Goto(c, "take")
    /\ UNCHANGED <<head, tail, sequence, data, pos, popped>>

\* - negative: return false
Nothing(c) ==
    /\ pc[c] = "load"
    /\ sequence[SlotOf(pos[c])] < pos[c] + 1
    /\ Goto(c, "out")
    /\ UNCHANGED <<head, tail, sequence, data, pos, popped>>

\* - positive: another consumer moved past us
Passed(c) ==
    /\ pc[c] = "load"
    /\ sequence[SlotOf(pos[c])] > pos[c] + 1
    /\ pos' = [pos EXCEPT ![c] = tail]
    /\ UNCHANGED <<head, tail, sequence, data, pc, popped>>

\* tail.compare_exchange_weak(pos, pos + 1)
Take(c) ==
    /\ pc[c] = "take"
    /\ tail = pos[c]
    /\ tail' = tail + 1
    /\ Goto(c, "reading")
    /\ UNCHANGED <<head, sequence, data, pos, popped>>

\* ... lost, or failed spuriously: pos is what it read
TakeFails(c) ==
    /\ pc[c] = "take"
    /\ pos' = [pos EXCEPT ![c] = tail]
    /\ Goto(c, "load")
    /\ UNCHANGED <<head, tail, sequence, data, popped>>

\* out = slot.data, and the slot is free for the next lap
Release(c) ==
    /\ pc[c] = "reading"
    /\ popped' = popped \cup {<<pos[c], data[SlotOf(pos[c])]>>}
    /\ sequence' = [sequence EXCEPT ![SlotOf(pos[c])] = pos[c] + Size]
    /\ Goto(c, "out")
    /\ UNCHANGED <<head, tail, data, pos>>

Push(p) == Write(p) \/ Publish(p)

Pop(c) == Ready(c) \/ Nothing(c) \/ Passed(c) \/ Take(c) \/ TakeFails(c) \/ Release(c)

Next ==
    \/ \E p \in Producers : Claim(p) \/ Push(p)
    \/ \E c \in Consumers : CallPop(c) \/ Pop(c)

Spec == Init /\ [][Next]_vars

(***************************************************************************)
(* Fairness: threads inside a call keep running, the application keeps     *)
(* calling pop(), and compare_exchange_weak does not fail forever without  *)
(* a reason.                                                               *)
(***************************************************************************)
Fairness ==
    /\ \A p \in Producers : WF_vars(Push(p))
    /\ \A c \in Consumers : WF_vars(CallPop(c)) /\ WF_vars(Pop(c)) /\ SF_vars(Take(c))

FairSpec == Spec /\ Fairness

(***************************************************************************)
(* Properties                                                              *)
(***************************************************************************)
\* Every variable has its type; tail never passes head
TypeOK ==
    /\ head \in 0 .. MaxPushes
    /\ tail \in 0 .. head
    /\ sequence \in [Slots -> 0 .. MaxPushes + Size]
    /\ data \in [Slots -> 0 .. MaxPushes \cup {Torn}]
    /\ pc \in [Threads -> {"out", "claimed", "writing", "load", "take", "reading"}]
    /\ pos \in [Threads -> 0 .. MaxPushes]
    /\ popped \subseteq (0 .. MaxPushes) \X (0 .. MaxPushes)

\* The pop() of a position returns the item its push() put there, complete,
\* once: nothing is lost, overwritten, duplicated or reordered.  So a slot's data
\* has one user at a time: sequence makes push() and pop() take turns
PoppedAsPushed ==
    /\ \A t, u \in Threads :
           /\ pc[t] \in {"writing", "reading"}
           /\ pc[u] \in {"writing", "reading"}
           /\ SlotOf(pos[t]) = SlotOf(pos[u])
           => t = u
    /\ \A x \in popped : x[2] = x[1]
    /\ \A x \in popped : x[1] < tail
    /\ Cardinality(popped) + Cardinality({c \in Consumers : pc[c] = "reading"}) = tail

\* pop() returns false only when the next item is not there yet (none was
\* pushed, or its push() is in progress), never because another consumer was
\* faster
FalseIsEmpty ==
    [][\A c \in Consumers :
          pc[c] = "load" /\ pc'[c] = "out" =>
              pos[c] = tail /\ sequence[SlotOf(tail)] # tail + 1]_vars

\* A push() that has to wait for a slot gets one, and pop() always returns
CallsReturn ==
    /\ \A p \in Producers : pc[p] = "claimed" ~> pc[p] = "out"
    /\ \A c \in Consumers : pc[c] = "load" ~> pc[c] = "out"

\* As the test of tests/ring_buffer says, nothing is lost or duplicated
\* (whatever the capacity asked for)
LosesNothing == PoppedAsPushed
=============================================================================
