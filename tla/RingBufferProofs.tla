--------------------------- MODULE RingBufferProofs ---------------------------
(***************************************************************************)
(* Proofs about RingBuffer, for any numbers of producers, consumers and    *)
(* pushes and any Size above 1 (see LosesNothing for 1).                   *)
(***************************************************************************)
EXTENDS RingBuffer, FiniteSetTheorems, TLAPS

(***************************************************************************)
(* Positions and slots                                                     *)
(***************************************************************************)
\* A position is a lap and a slot.
LEMMA Divided ==
    ASSUME NEW p \in Nat
    PROVE  /\ SlotOf(p) \in 0 .. Size - 1
           /\ p \div Size \in Nat
           /\ p = Size * (p \div Size) + SlotOf(p)
  BY RingAssumption DEF SlotOf

\* No multiple of Size but 0 is smaller than Size.
LEMMA SmallMultiple ==
    ASSUME NEW d \in Int, Size * d < Size, Size * d > - Size
    PROVE  d = 0
<1>1. d >= 1 => Size * d >= Size
  BY RingAssumption
<1>2. d <= -1 => Size * d <= - Size
  BY RingAssumption
<1> QED BY <1>1, <1>2, RingAssumption

\* Two positions of a slot are a lap apart.
LEMMA SameSlot ==
    ASSUME NEW p \in Nat, NEW q \in Nat, SlotOf(p) = SlotOf(q), p < q 
    PROVE  q >= p + Size
<1> DEFINE a == p \div Size
           b == q \div Size
<1>1. a \in Nat /\ p = Size * a + SlotOf(p) /\ SlotOf(p) \in 0 .. Size - 1
  BY Divided
<1>2. b \in Nat /\ q = Size * b + SlotOf(q) 
  BY Divided
<1> HIDE DEF a, b
<1>3. q - p = Size * (b - a)
  BY <1>1, <1>2, RingAssumption
<1>4. b - a # 0
  BY <1>1, <1>2, <1>3, RingAssumption
<1> QED BY <1>1, <1>2, <1>3, <1>4, SmallMultiple, RingAssumption

\* Release frees the slot of its own position for the next lap.
LEMMA NextLap ==
    ASSUME NEW p \in Nat, NEW q \in Nat, q = p + Size
    PROVE  SlotOf(q) = SlotOf(p)
<1> DEFINE a == p \div Size
           b == q \div Size
<1>1. a \in Nat /\ p = Size * a + SlotOf(p) /\ SlotOf(p) \in 0 .. Size - 1
  BY Divided
<1>2. b \in Nat /\ q = Size * b + SlotOf(q) /\ SlotOf(q) \in 0 .. Size - 1
  BY Divided
<1> HIDE DEF a, b
<1>3. Size * (b - a - 1) = Size * b - Size * a - Size
  BY <1>1, <1>2, RingAssumption
<1>4. SlotOf(p) - SlotOf(q) = Size * (b - a - 1)
  <2> DEFINE x == Size * a
             y == Size * b
  <2>1. x \in Int /\ y \in Int /\ p = x + SlotOf(p) /\ q = y + SlotOf(q)
    BY <1>1, <1>2, RingAssumption
  <2>2. Size * (b - a - 1) = y - x - Size
    BY <1>3
  <2> HIDE DEF x, y
  <2>3. SlotOf(p) \in Int /\ SlotOf(q) \in Int
    BY <1>1, <1>2
  <2>4. SlotOf(p) - SlotOf(q) = y - x - Size
    BY <2>1, <2>3, RingAssumption
  <2> QED BY <2>2, <2>4
<1>5. b - a - 1 = 0
  BY <1>1, <1>2, <1>4, SmallMultiple, RingAssumption
<1> QED BY <1>1, <1>2, <1>3, <1>4, <1>5, RingAssumption

\* "Published" and "free for the next lap" are different sequence numbers.
LEMMA OtherSlot ==
    ASSUME NEW p \in Nat, Size > 1
    PROVE  SlotOf(p + 1) # SlotOf(p)
<1>1. p + 1 \in Nat /\ p < p + 1 /\ ~(p + 1 >= p + Size)
  BY RingAssumption
<1> QED BY <1>1, SameSlot

(***************************************************************************)
(* The inductive invariant.  That a slot has one user at a time follows    *)
(* from sequence, which says whose turn it is: every slot is on its way    *)
(* from one position to the next, at most a lap away from tail, and the    *)
(* threads that touch its data hold the position whose turn it is.         *)
(***************************************************************************)
\* Position p of slot s is to be pushed ...
Free(s, p) == sequence[s] = p /\ tail <= p

\* ... or was, and is to be popped or is being popped
Full(s, p) == sequence[s] = p + 1 /\ data[s] = p /\ p < head /\ tail <= p + Size

Cycle ==
    \A s \in Slots : \E p \in Nat :
        SlotOf(p) = s /\ p < tail + Size /\ (Free(s, p) \/ Full(s, p))

Producing ==
    /\ \A p \in Producers :
           /\ pc[p] \in {"out", "claimed", "writing"}
           /\ pc[p] # "out" => pos[p] < head
           /\ pc[p] = "writing" => sequence[SlotOf(pos[p])] = pos[p]
    /\ \A p, q \in Producers :
           pc[p] # "out" /\ pc[q] # "out" /\ pos[p] = pos[q] => p = q

Consuming ==
    /\ \A c \in Consumers :
           /\ pc[c] \in {"out", "load", "take", "reading"}
           /\ pc[c] \in {"load", "take"} => pos[c] <= tail
           /\ pc[c] = "take" => sequence[SlotOf(pos[c])] >= pos[c] + 1
           /\ pc[c] = "reading" => pos[c] < tail /\ sequence[SlotOf(pos[c])] = pos[c] + 1
    /\ \A c, d \in Consumers :
           pc[c] = "reading" /\ pc[d] = "reading" /\ pos[c] = pos[d] => c = d

Readers == {c \in Consumers : pc[c] = "reading"}

Popping ==
    /\ IsFiniteSet(popped) /\ IsFiniteSet(Readers)
    /\ Cardinality(popped) + Cardinality(Readers) = tail
    /\ \A x \in popped : /\ x[2] = x[1] /\ x[1] < tail
                         /\ sequence[SlotOf(x[1])] >= x[1] + Size

IInv == TypeOK /\ Cycle /\ Producing /\ Consuming /\ Popping

\* Facts about the types that SMT needs in every step.
LEMMA Types ==
    ASSUME TypeOK
    PROVE  /\ Size \in Nat /\ Size > 0 /\ MaxPushes \in Nat
           /\ head \in Nat /\ tail \in Nat /\ tail <= head /\ head <= MaxPushes
           /\ \A t \in Threads : pos[t] \in Nat /\ pos[t] <= MaxPushes
           /\ \A p \in Nat : SlotOf(p) \in Slots
           /\ \A s \in Slots : sequence[s] \in Nat
           /\ \A x \in popped : x = <<x[1], x[2]>> /\ x[1] \in Nat /\ x[2] \in Nat
<1>1. \A p \in Nat : SlotOf(p) \in Slots
  BY Divided DEF Slots
<1>2. \A x \in popped : x = <<x[1], x[2]>> /\ x[1] \in Nat /\ x[2] \in Nat
  BY RingAssumption DEF TypeOK
<1> QED BY <1>1, <1>2, RingAssumption DEF TypeOK

\* At most one of Free and Full, for one position of the slot: the push() whose
\* turn it is finds the slot free within the lap ...
LEMMA FreeTurn ==
    ASSUME TypeOK, Cycle, Size > 1, NEW q \in Nat, sequence[SlotOf(q)] = q
    PROVE  tail <= q /\ q < tail + Size
<1>1. SlotOf(q) \in Slots BY Types
<1>2. PICK p \in Nat : /\ SlotOf(p) = SlotOf(q) /\ p < tail + Size
                       /\ Free(SlotOf(q), p) \/ Full(SlotOf(q), p)
  BY <1>1 DEF Cycle
<1>3. CASE Free(SlotOf(q), p)
  BY <1>2, <1>3 DEF Free
<1>4. CASE Full(SlotOf(q), p)
  <2>1. q = p + 1 BY <1>4 DEF Full
  <2> QED BY <1>2, <2>1, OtherSlot
<1> QED BY <1>2, <1>3, <1>4

\* ... and the pop() whose turn it is finds the item of its position.
LEMMA FullTurn ==
    ASSUME TypeOK, Cycle, Size > 1, NEW q \in Nat, sequence[SlotOf(q)] = q + 1
    PROVE  Full(SlotOf(q), q) /\ q < tail + Size
<1>1. SlotOf(q) \in Slots BY Types
<1>2. PICK p \in Nat : /\ SlotOf(p) = SlotOf(q) /\ p < tail + Size
                       /\ Free(SlotOf(q), p) \/ Full(SlotOf(q), p)
  BY <1>1 DEF Cycle
<1>3. CASE Free(SlotOf(q), p)
  <2>1. p = q + 1 BY <1>3 DEF Free
  <2> QED BY <1>2, <2>1, OtherSlot
<1>4. CASE Full(SlotOf(q), p)
  <2>1. p = q BY <1>4 DEF Full
  <2> QED BY <1>2, <1>4, <2>1
<1> QED BY <1>2, <1>3, <1>4

\* A position that was taken is behind its slot; one that was not is not ahead.
LEMMA Passes ==
    ASSUME TypeOK, Cycle, NEW q \in Nat
    PROVE  /\ q < tail => sequence[SlotOf(q)] >= q + 1
           /\ q = tail => sequence[SlotOf(q)] <= q + 1
<1>0. /\ Size \in Nat /\ Size > 0 /\ tail \in Nat
      /\ SlotOf(q) \in Slots /\ sequence[SlotOf(q)] \in Nat
  BY Types
<1>2. PICK p \in Nat : /\ SlotOf(p) = SlotOf(q) /\ p < tail + Size
                       /\ Free(SlotOf(q), p) \/ Full(SlotOf(q), p)
  BY <1>0 DEF Cycle
<1>3. /\ p < q => q >= p + Size
      /\ q < p => p >= q + Size
  BY <1>2, SameSlot
<1>4. CASE Free(SlotOf(q), p)
  BY <1>0, <1>2, <1>3, <1>4 DEF Free
<1>5. CASE Full(SlotOf(q), p)
  BY <1>0, <1>2, <1>3, <1>5 DEF Full
<1> QED BY <1>2, <1>4, <1>5

\* The first action of push().
LEMMA ClaimKeeps ==
    ASSUME IInv, NEW p \in Producers, Claim(p)
    PROVE  IInv'
<1> USE DEF Claim, Goto, Threads
<1>1. p \in Threads /\ p \notin Consumers
  BY RingAssumption
<1>2. head \in Nat /\ tail \in Nat /\ tail <= head
  BY Types DEF IInv
<1>3. TypeOK'
  BY <1>1, <1>2, RingAssumption DEF IInv, TypeOK
<1>4. Cycle'
  BY <1>2 DEF IInv, Cycle, Free, Full
<1>5. Producing'
  BY <1>1, <1>2 DEF IInv, TypeOK, Producing
<1>6. Consuming'
  BY <1>1 DEF IInv, TypeOK, Consuming
<1>7. Readers' = Readers
  BY <1>1 DEF IInv, TypeOK, Readers
<1>8. Popping'
  BY <1>7 DEF IInv, Popping
<1> QED BY <1>3, <1>4, <1>5, <1>6, <1>8 DEF IInv

\* The turn of push(): it begins to overwrite the data.
LEMMA WriteKeeps ==
    ASSUME IInv, Size > 1, NEW p \in Producers, Write(p)
    PROVE  IInv'
<1> USE DEF Write, Goto, Threads
<1> DEFINE q == pos[p]
<1>1. p \in Threads /\ p \notin Consumers
  BY RingAssumption
<1>2. q \in Nat /\ SlotOf(q) \in Slots /\ tail <= q
  BY <1>1, Types, FreeTurn DEF IInv
<1>3. TypeOK'
  BY <1>1, <1>2 DEF IInv, TypeOK
<1>4. Cycle'
  <2> SUFFICES ASSUME NEW s \in Slots
               PROVE  \E r \in Nat : SlotOf(r) = s /\ r < tail + Size
                                     /\ (Free(s, r)' \/ Full(s, r)')
    BY DEF Cycle
  <2>1. CASE s = SlotOf(q)
    <3>1. q < tail + Size /\ Free(s, q)'
      BY <1>2, <2>1, FreeTurn DEF IInv, Free
    <3> QED BY <1>2, <2>1, <3>1
  <2>2. CASE s # SlotOf(q)
    <3>1. data'[s] = data[s]
      BY <2>2, <1>2 DEF IInv, TypeOK
    <3> QED BY <3>1 DEF IInv, Cycle, Free, Full
  <2> QED BY <2>1, <2>2
<1>5. Producing'
  BY <1>1 DEF IInv, TypeOK, Producing
<1>6. Consuming'
  BY <1>1 DEF IInv, TypeOK, Consuming
<1>7. Readers' = Readers
  BY <1>1 DEF IInv, TypeOK, Readers
<1>8. Popping'
  BY <1>7 DEF IInv, Popping
<1> QED BY <1>3, <1>4, <1>5, <1>6, <1>8 DEF IInv

\* No other thread holds the slot of a thread that writes or reads.
LEMMA Alone ==
    ASSUME IInv, Size > 1,
           NEW t \in Threads, NEW u \in Threads,
           pc[t] \in {"writing", "reading"}, pc[u] \in {"writing", "reading"},
           SlotOf(pos[t]) = SlotOf(pos[u])
    PROVE  t = u
<1> USE DEF IInv
<1>1. pos[t] \in Nat /\ pos[u] \in Nat
  BY Types
<1>2. ASSUME NEW p \in Producers, NEW c \in Consumers, SlotOf(pos[p]) = SlotOf(pos[c]),
             pc[p] = "writing", pc[c] = "reading"
      PROVE  FALSE
  <2>1. pos[c] \in Nat /\ pos[p] = pos[c] + 1
    BY <1>2, Types DEF Producing, Consuming, Threads
  <2> QED BY <1>2, <2>1, OtherSlot
<1>3. CASE t \in Producers /\ u \in Producers
  BY <1>3 DEF Producing
<1>4. CASE t \in Consumers /\ u \in Consumers
  BY <1>1, <1>4 DEF Consuming
<1>5. CASE t \in Producers /\ u \in Consumers
  BY <1>2, <1>5 DEF Producing, Consuming
<1>6. CASE t \in Consumers /\ u \in Producers
  BY <1>2, <1>6 DEF Producing, Consuming
<1> QED BY <1>3, <1>4, <1>5, <1>6 DEF Threads

\* The item is complete.
LEMMA PublishKeeps ==
    ASSUME IInv, Size > 1, NEW p \in Producers, Publish(p)
    PROVE  IInv'
<1> USE DEF Publish, Goto
<1> DEFINE q == pos[p]
<1>1. p \in Threads /\ p \notin Consumers
  BY RingAssumption DEF Threads
<1>2. q \in Nat /\ SlotOf(q) \in Slots /\ q < head /\ sequence[SlotOf(q)] = q
  BY <1>1, Types DEF IInv, Producing
<1>3. tail <= q /\ q < tail + Size
  BY <1>2, FreeTurn DEF IInv
<1>4. /\ sequence'[SlotOf(q)] = q + 1 /\ data'[SlotOf(q)] = q
      /\ \A s \in Slots \ {SlotOf(q)} : sequence'[s] = sequence[s] /\ data'[s] = data[s]
  BY <1>2 DEF IInv, TypeOK
<1>5. TypeOK'
  BY <1>1, <1>2, RingAssumption DEF IInv, TypeOK
<1>6. Cycle'
  <2> SUFFICES ASSUME NEW s \in Slots
               PROVE  \E r \in Nat : SlotOf(r) = s /\ r < tail + Size
                                     /\ (Free(s, r)' \/ Full(s, r)')
    BY DEF Cycle
  <2>1. CASE s = SlotOf(q)
    <3>1. Full(s, q)'
      BY <1>2, <1>3, <1>4, <2>1, Types DEF IInv, Full
    <3> QED BY <1>2, <1>3, <2>1, <3>1
  <2>2. CASE s # SlotOf(q)
    BY <1>4, <2>2 DEF IInv, Cycle, Free, Full
  <2> QED BY <2>1, <2>2
<1>7. Producing'
  <2>1. ASSUME NEW r \in Producers, pc'[r] = "writing"
        PROVE  sequence'[SlotOf(pos[r])] = pos[r]
    <3>1. r # p /\ r \in Threads /\ pc[r] = "writing" /\ pos[r] \in Nat
      BY <1>1, <2>1, Types DEF IInv, TypeOK, Threads
    <3>2. SlotOf(pos[r]) # SlotOf(q)
      BY <1>1, <3>1, Alone
    <3> QED BY <1>4, <3>1, <3>2, Types DEF IInv, Producing
  <2> QED BY <1>1, <2>1 DEF IInv, TypeOK, Producing, Threads
<1>8. Consuming'
  <2>1. ASSUME NEW c \in Consumers, pc'[c] = "reading"
        PROVE  sequence'[SlotOf(pos[c])] = pos[c] + 1
    <3>1. c # p /\ c \in Threads /\ pc[c] = "reading" /\ pos[c] \in Nat
      BY <1>1, <2>1, Types DEF IInv, TypeOK, Threads
    <3>2. SlotOf(pos[c]) # SlotOf(q)
      BY <1>1, <3>1, Alone
    <3> QED BY <1>4, <3>1, <3>2, Types DEF IInv, Consuming
  <2>2. ASSUME NEW c \in Consumers, pc'[c] = "take"
        PROVE  sequence'[SlotOf(pos[c])] >= pos[c] + 1
    <3>1. c # p /\ c \in Threads /\ pc[c] = "take" /\ pos[c] \in Nat
      BY <1>1, <2>2, Types DEF IInv, TypeOK, Threads
    <3>2. /\ sequence[SlotOf(pos[c])] >= pos[c] + 1
          /\ SlotOf(pos[c]) \in Slots /\ sequence[SlotOf(pos[c])] \in Nat
      BY <3>1, Types DEF IInv, Consuming
    <3> QED BY <1>2, <1>4, <3>1, <3>2
  <2> QED BY <1>1, <2>1, <2>2 DEF IInv, TypeOK, Consuming, Threads
<1>9. Readers' = Readers
  BY <1>1 DEF IInv, TypeOK, Readers, Threads
<1>10. Popping'
  <2>1. ASSUME NEW x \in popped PROVE sequence'[SlotOf(x[1])] >= x[1] + Size
    <3>1. /\ x[1] \in Nat /\ Size \in Nat /\ SlotOf(x[1]) \in Slots
          /\ sequence[SlotOf(x[1])] >= x[1] + Size /\ sequence[SlotOf(x[1])] \in Nat
      BY Types DEF IInv, Popping
    <3> QED BY <1>2, <1>4, <3>1
  <2> QED BY <1>9, <2>1 DEF IInv, Popping
<1> QED BY <1>5, <1>6, <1>7, <1>8, <1>10 DEF IInv

\* The steps of pop() that only look.
LEMMA LookKeeps ==
    ASSUME IInv, NEW c \in Consumers,
           CallPop(c) \/ Ready(c) \/ Nothing(c) \/ Passed(c) \/ TakeFails(c)
    PROVE  IInv'
<1> USE DEF CallPop, Ready, Nothing, Passed, TakeFails, Goto
<1>1. c \in Threads /\ c \notin Producers
  BY RingAssumption DEF Threads
<1>2. /\ UNCHANGED <<head, tail, sequence, data, popped>>
      /\ \A t \in Threads \ {c} : pc'[t] = pc[t] /\ pos'[t] = pos[t]
      /\ pc'[c] \in {"out", "load", "take"} /\ pc[c] # "reading"
      /\ pos'[c] \in {pos[c], tail}
  BY <1>1 DEF IInv, TypeOK
<1>3. tail \in Nat /\ head \in Nat /\ tail <= head /\ pos[c] \in Nat
  BY <1>1, Types DEF IInv
<1>4. TypeOK'
  BY <1>1, <1>3, RingAssumption DEF IInv, TypeOK
<1>5. Cycle'
  BY <1>2 DEF IInv, Cycle, Free, Full
<1>6. Producing'
  BY <1>1, <1>2 DEF IInv, Producing, Threads
<1>7. Consuming'
  <2>1. pc'[c] \in {"load", "take"} => pos'[c] <= tail
    BY <1>1, <1>2, <1>3 DEF IInv, TypeOK, Consuming
  <2>2. pc'[c] = "take" => sequence[SlotOf(pos'[c])] >= pos'[c] + 1
    <3>1. pc'[c] = "take" => pos'[c] = pos[c] /\ sequence[SlotOf(pos[c])] = pos[c] + 1
      BY <1>1 DEF IInv, TypeOK
    <3> QED BY <1>3, <3>1
  <2> QED BY <1>1, <1>2, <2>1, <2>2 DEF IInv, Consuming, Threads
<1>8. Readers' = Readers
  BY <1>1, <1>2 DEF Readers, Threads
<1>9. Popping'
  BY <1>2, <1>8 DEF IInv, Popping
<1> QED BY <1>4, <1>5, <1>6, <1>7, <1>9 DEF IInv

\* The step that takes an item.
LEMMA TakeKeeps ==
    ASSUME IInv, Size > 1, NEW c \in Consumers, Take(c)
    PROVE  IInv'
<1> USE DEF Take, Goto
<1>1. c \in Threads /\ c \notin Producers
  BY RingAssumption DEF Threads
<1>2. /\ UNCHANGED <<head, sequence, data, pos, popped>>
      /\ \A t \in Threads \ {c} : pc'[t] = pc[t]
      /\ pc'[c] = "reading" /\ pc[c] = "take" /\ tail' = tail + 1
  BY <1>1 DEF IInv, TypeOK
<1>3. tail \in Nat /\ head \in Nat /\ tail <= head /\ Size \in Nat /\ pos[c] = tail
  BY Types DEF IInv
<1>4. sequence[SlotOf(tail)] = tail + 1
  <2>1. sequence[SlotOf(tail)] \in Nat
    BY <1>3, Types DEF IInv
  <2>2. sequence[SlotOf(tail)] >= tail + 1
    BY <1>2, <1>3 DEF IInv, Consuming
  <2>3. sequence[SlotOf(tail)] <= tail + 1
    BY <1>3, Passes DEF IInv
  <2> QED BY <1>3, <2>1, <2>2, <2>3
<1>5. tail < head
  BY <1>3, <1>4, FullTurn DEF IInv, Full
<1>6. TypeOK'
  BY <1>1, <1>2, <1>3, <1>5 DEF IInv, TypeOK
<1>7. Cycle'
  <2> SUFFICES ASSUME NEW s \in Slots
               PROVE  \E r \in Nat : SlotOf(r) = s /\ r < tail + 1 + Size
                                     /\ (Free(s, r)' \/ Full(s, r)')
    BY DEF Cycle
  <2>1. PICK r \in Nat : SlotOf(r) = s /\ r < tail + Size /\ (Free(s, r) \/ Full(s, r))
    BY DEF IInv, Cycle
  <2>2. CASE s = SlotOf(tail)
    <3>1. PICK t \in Nat : t = tail
      BY <1>3
    <3>2. Full(s, t)'
      BY <1>2, <1>3, <1>4, <2>2, <3>1, FullTurn DEF IInv, Full
    <3> QED BY <1>3, <2>2, <3>1, <3>2
  <2>3. CASE s # SlotOf(tail)
    <3>1. r # tail
      BY <2>1, <2>3
    <3>2. tail # r + Size
      BY <1>3, <2>1, <2>3, NextLap
    <3>3. Free(s, r)' \/ Full(s, r)'
      BY <1>2, <1>3, <2>1, <3>1, <3>2 DEF Free, Full
    <3> QED BY <1>3, <2>1, <3>3
  <2> QED BY <2>2, <2>3
<1>8. Producing'
  BY <1>1, <1>2 DEF IInv, Producing, Threads
<1>9. Consuming'
  <2>1. \A d \in Consumers : pos[d] \in Nat
    BY Types DEF IInv, Threads
  <2> QED BY <1>1, <1>2, <1>3, <1>4, <2>1 DEF IInv, Consuming, Threads
<1>10. Readers' = Readers \cup {c} /\ c \notin Readers
  BY <1>1, <1>2 DEF Readers, Threads
<1>11. Popping'
  <2>1. /\ IsFiniteSet(Readers') /\ Cardinality(Readers') = Cardinality(Readers) + 1
        /\ Cardinality(Readers) \in Nat /\ Cardinality(popped) \in Nat
    BY <1>10, FS_AddElement, FS_CardinalityType DEF IInv, Popping
  <2>2. \A x \in popped : x[1] < tail + 1
    BY <1>3, Types DEF IInv, Popping
  <2> QED BY <1>2, <1>3, <2>1, <2>2 DEF IInv, Popping
<1> QED BY <1>6, <1>7, <1>8, <1>9, <1>11 DEF IInv

\* The item is out and the slot is free for the next lap.
LEMMA ReleaseKeeps ==
    ASSUME IInv, Size > 1, NEW c \in Consumers, Release(c)
    PROVE  IInv'
<1> USE DEF Release, Goto
<1> DEFINE q == pos[c]
           n == q + Size
<1>1. c \in Threads /\ c \notin Producers
  BY RingAssumption DEF Threads
<1>2. /\ q \in Nat /\ Size \in Nat /\ n \in Nat /\ tail \in Nat /\ head \in Nat
      /\ SlotOf(q) \in Slots /\ q < tail /\ sequence[SlotOf(q)] = q + 1
  BY <1>1, Types DEF IInv, Consuming
<1>3. data[SlotOf(q)] = q /\ tail <= n /\ q < head
  BY <1>2, FullTurn DEF IInv, Full
<1>4. /\ UNCHANGED <<head, tail, data, pos>>
      /\ sequence'[SlotOf(q)] = n
      /\ \A s \in Slots \ {SlotOf(q)} : sequence'[s] = sequence[s]
      /\ popped' = popped \cup {<<q, q>>}
      /\ pc[c] = "reading" /\ pc'[c] = "out" /\ \A t \in Threads \ {c} : pc'[t] = pc[t]
  BY <1>1, <1>2, <1>3 DEF IInv, TypeOK
<1>5. TypeOK'
  <2>1. sequence' \in [Slots -> 0 .. MaxPushes + Size]
    BY <1>1, <1>2, RingAssumption DEF IInv, TypeOK
  <2>2. popped' \subseteq (0 .. MaxPushes) \X (0 .. MaxPushes)
    BY <1>1, <1>4 DEF IInv, TypeOK
  <2> QED BY <1>1, <1>4, <2>1, <2>2 DEF IInv, TypeOK
<1>6. Cycle'
  <2> SUFFICES ASSUME NEW s \in Slots
               PROVE  \E r \in Nat : SlotOf(r) = s /\ r < tail + Size
                                     /\ (Free(s, r)' \/ Full(s, r)')
    BY <1>4 DEF Cycle
  <2>1. CASE s = SlotOf(q)
    <3>1. SlotOf(n) = s /\ n < tail + Size
      BY <1>2, <2>1, NextLap
    <3>2. Free(s, n)'
      BY <1>2, <1>3, <1>4, <2>1 DEF Free
    <3> QED BY <1>2, <3>1, <3>2
  <2>2. CASE s # SlotOf(q)
    BY <1>4, <2>2 DEF IInv, Cycle, Free, Full
  <2> QED BY <2>1, <2>2
<1>7. Producing'
  <2>1. ASSUME NEW p \in Producers, pc'[p] = "writing"
        PROVE  sequence'[SlotOf(pos[p])] = pos[p]
    <3>1. p # c /\ p \in Threads /\ pc[p] = "writing" /\ pos[p] \in Nat
      BY <1>1, <1>4, <2>1, Types DEF IInv, Threads
    <3>2. SlotOf(pos[p]) # SlotOf(q)
      BY <1>1, <1>4, <3>1, Alone
    <3> QED BY <1>4, <3>1, <3>2, Types DEF IInv, Producing
  <2> QED BY <1>1, <1>4, <2>1 DEF IInv, Producing, Threads
<1>8. Consuming'
  <2>1. ASSUME NEW d \in Consumers, pc'[d] = "reading"
        PROVE  sequence'[SlotOf(pos[d])] = pos[d] + 1
    <3>1. d # c /\ d \in Threads /\ pc[d] = "reading" /\ pos[d] \in Nat
      BY <1>1, <1>4, <2>1, Types DEF IInv, Threads
    <3>2. SlotOf(pos[d]) # SlotOf(q)
      BY <1>1, <1>4, <3>1, Alone
    <3> QED BY <1>4, <3>1, <3>2, Types DEF IInv, Consuming
  <2>2. ASSUME NEW d \in Consumers, pc'[d] = "take"
        PROVE  sequence'[SlotOf(pos[d])] >= pos[d] + 1
    <3>1. d # c /\ d \in Threads /\ pc[d] = "take" /\ pos[d] \in Nat
      BY <1>1, <1>4, <2>2, Types DEF IInv, Threads
    <3>2. /\ sequence[SlotOf(pos[d])] >= pos[d] + 1
          /\ SlotOf(pos[d]) \in Slots /\ sequence[SlotOf(pos[d])] \in Nat
      BY <3>1, Types DEF IInv, Consuming
    <3> QED BY <1>2, <1>4, <3>1, <3>2
  <2> QED BY <1>1, <1>4, <2>1, <2>2 DEF IInv, Consuming, Threads
<1>9. Popping'
  <2>1. Readers' = Readers \ {c} /\ c \in Readers
    BY <1>1, <1>4 DEF Readers, Threads
  <2>2. <<q, q>> \notin popped
    BY <1>2 DEF IInv, Popping
  <2>3. /\ IsFiniteSet(Readers') /\ Cardinality(Readers') = Cardinality(Readers) - 1
        /\ IsFiniteSet(popped') /\ Cardinality(popped') = Cardinality(popped) + 1
        /\ Cardinality(Readers) \in Nat /\ Cardinality(popped) \in Nat
    <3>1. IsFiniteSet(Readers) /\ IsFiniteSet(popped)
      BY DEF IInv, Popping
    <3>2. IsFiniteSet(Readers') /\ Cardinality(Readers') = Cardinality(Readers) - 1
      BY <2>1, <3>1, FS_RemoveElement
    <3>3. IsFiniteSet(popped') /\ Cardinality(popped') = Cardinality(popped) + 1
      BY <1>4, <2>2, <3>1, FS_AddElement, ZenonT(30)
    <3> QED BY <3>1, <3>2, <3>3, FS_CardinalityType
  <2>4. ASSUME NEW x \in popped
        PROVE  x[2] = x[1] /\ x[1] < tail /\ sequence'[SlotOf(x[1])] >= x[1] + Size
    <3>1. /\ x[1] \in Nat /\ SlotOf(x[1]) \in Slots /\ x[2] = x[1] /\ x[1] < tail
          /\ sequence[SlotOf(x[1])] >= x[1] + Size /\ sequence[SlotOf(x[1])] \in Nat
      BY Types DEF IInv, Popping
    <3> QED BY <1>2, <1>4, <3>1
  <2> QED BY <1>2, <1>4, <2>3, <2>4 DEF IInv, Popping
<1> QED BY <1>5, <1>6, <1>7, <1>8, <1>9 DEF IInv

\* An empty buffer, nobody in push() or pop().
LEMMA IInvInit == Size > 1 /\ Init => IInv
<1> SUFFICES ASSUME Size > 1, Init PROVE IInv
  OBVIOUS
<1>1. \A s \in Slots : s \in Nat /\ SlotOf(s) = s /\ s < Size
  BY RingAssumption DEF Slots, SlotOf
<1>2. TypeOK
  BY RingAssumption DEF Init, TypeOK, Slots
<1>3. Cycle
  <2> SUFFICES ASSUME NEW s \in Slots
               PROVE  \E p \in Nat : SlotOf(p) = s /\ p < tail + Size
                                     /\ (Free(s, p) \/ Full(s, p))
    BY DEF Cycle
  <2>1. SlotOf(s) = s /\ s < tail + Size /\ Free(s, s)
    BY <1>1, RingAssumption DEF Init, Free
  <2> QED BY <1>1, <2>1
<1>4. Producing /\ Consuming
  BY DEF Init, Producing, Consuming, Threads
<1>5. Readers = {} /\ popped = {}
  BY DEF Init, Readers, Threads
<1>6. Popping
  BY <1>5, FS_EmptySet DEF Init, Popping
<1> QED BY <1>2, <1>3, <1>4, <1>6 DEF IInv

\* Every step of every thread keeps the invariant.
LEMMA IInvNext == Size > 1 /\ IInv /\ [Next]_vars => IInv'
<1> SUFFICES ASSUME Size > 1, IInv, [Next]_vars PROVE IInv'
  OBVIOUS
<1>1. ASSUME NEW p \in Producers, Claim(p) \/ Push(p) PROVE IInv'
  BY <1>1, ClaimKeeps, WriteKeeps, PublishKeeps DEF Push
<1>2. ASSUME NEW c \in Consumers, CallPop(c) \/ Pop(c) PROVE IInv'
  BY <1>2, LookKeeps, TakeKeeps, ReleaseKeeps DEF Pop
<1>3. CASE UNCHANGED vars
  BY <1>3 DEF vars, IInv, TypeOK, Cycle, Free, Full, Producing, Consuming, Popping, Readers
<1> QED BY <1>1, <1>2, <1>3 DEF Next

\* No counter leaves its range and tail never passes head (push(), pop()).
THEOREM TypeCorrect == Size > 1 => (Spec => []TypeOK)
<1> SUFFICES ASSUME Size > 1 PROVE Spec => []TypeOK
  OBVIOUS
<1>1. Init => IInv BY IInvInit
<1>2. IInv /\ [Next]_vars => IInv' BY IInvNext
<1>3. IInv => TypeOK BY DEF IInv
<1> QED BY <1>1, <1>2, <1>3, PTL DEF Spec

\* A slot's data has one user at a time, and pop() returns every item once,
\* whole and in the order of push(), for any number of threads and any size
\* above 1.
THEOREM ItemsPopAsPushed == Size > 1 => (Spec => []PoppedAsPushed)
<1> SUFFICES ASSUME Size > 1 PROVE Spec => []PoppedAsPushed
  OBVIOUS
<1>1. Init => IInv BY IInvInit
<1>2. IInv /\ [Next]_vars => IInv' BY IInvNext
<1>3. IInv => PoppedAsPushed
  BY Alone DEF IInv, Popping, PoppedAsPushed, Readers
<1> QED BY <1>1, <1>2, <1>3, PTL DEF Spec

\* pop() returns false only for the position at tail, whose item is not there.
LEMMA FalseStep ==
    ASSUME Size > 1, IInv, [Next]_vars, NEW c \in Consumers, pc[c] = "load", pc'[c] = "out"
    PROVE  pos[c] = tail /\ sequence[SlotOf(tail)] # tail + 1
<1>1. c \in Threads /\ c \notin Producers
  BY RingAssumption DEF Threads
<1>2. ASSUME NEW t \in Threads, t # c, Claim(t) \/ Push(t) \/ CallPop(t) \/ Pop(t) PROVE FALSE
  BY <1>1, <1>2 DEF Claim, Push, Write, Publish, CallPop, Pop, Ready, Nothing, Passed, Take,
                    TakeFails, Release, Goto, IInv, TypeOK
<1>3. CASE Nothing(c)
  <2>1. /\ tail \in Nat /\ pos[c] \in Nat /\ pos[c] <= tail
        /\ sequence[SlotOf(pos[c])] \in Nat /\ sequence[SlotOf(pos[c])] < pos[c] + 1
    BY <1>1, <1>3, Types DEF IInv, Consuming, Nothing
  <2>2. ~(pos[c] < tail)
    BY <2>1, Passes DEF IInv
  <2> QED BY <2>1, <2>2
<1>4. CASE CallPop(c) \/ Ready(c) \/ Passed(c) \/ Take(c) \/ TakeFails(c) \/ Release(c)
  BY <1>1, <1>4 DEF CallPop, Ready, Passed, Take, TakeFails, Release, Goto, IInv, TypeOK
<1>5. CASE UNCHANGED vars
  BY <1>5 DEF vars
<1> QED BY <1>1, <1>2, <1>3, <1>4, <1>5 DEF Next, Pop, Threads

\* pop() says empty only when the next item is not there yet, never because
\* another consumer was faster.
THEOREM EmptyIsTrue == Size > 1 => (Spec => FalseIsEmpty)
<1> SUFFICES ASSUME Size > 1 PROVE Spec => FalseIsEmpty
  OBVIOUS
<1>1. Init => IInv BY IInvInit
<1>2. IInv /\ [Next]_vars => IInv' BY IInvNext
<1>3. IInv /\ [Next]_vars =>
          [\A c \in Consumers :
              pc[c] = "load" /\ pc'[c] = "out" =>
                  pos[c] = tail /\ sequence[SlotOf(tail)] # tail + 1]_vars
  BY FalseStep
<1> QED BY <1>1, <1>2, <1>3, PTL DEF Spec, FalseIsEmpty

=============================================================================
