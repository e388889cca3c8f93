----------------------------- MODULE SeqLemmas -----------------------------
(***************************************************************************)
(* Facts about sequences used as queues and stacks: those without          *)
(* duplicates, and how many elements of a kind a sequence holds.  And      *)
(* induction on natural numbers, as a fact about sets of them.             *)
(***************************************************************************)
EXTENDS Integers, Sequences, FiniteSets, SequencesExt, FiniteSetTheorems,
        WellFoundedInduction, TLAPS

\* No element occurs twice
Distinct(s) == \A i, j \in 1 .. Len(s) : s[i] = s[j] => i = j

\* Appending adds one element (idle_.push_back, waiters_.push_back).
LEMMA AppendFacts ==
    ASSUME NEW S, NEW s \in Seq(S), NEW x \in S
    PROVE  /\ Append(s, x) \in Seq(S)
           /\ Len(Append(s, x)) = Len(s) + 1
           /\ ToSet(Append(s, x)) = ToSet(s) \cup {x}
           /\ Distinct(s) /\ x \notin ToSet(s) => Distinct(Append(s, x))
           /\ Append(s, x) # <<>>
<1> DEFINE a == Append(s, x)
<1>1. /\ a \in Seq(S) /\ a # <<>>
      /\ Len(s) \in Nat /\ Len(a) = Len(s) + 1
      /\ DOMAIN a = 1 .. Len(s) + 1 /\ DOMAIN s = 1 .. Len(s)
      /\ \A i \in 1 .. Len(s) : a[i] = s[i]
      /\ a[Len(s) + 1] = x
  OBVIOUS
<1> HIDE DEF a
<1>2. ToSet(a) = ToSet(s) \cup {x}
  <2>1. ASSUME NEW y \in ToSet(a) PROVE y \in ToSet(s) \cup {x}
    BY <1>1, <2>1 DEF ToSet
  <2>2. ASSUME NEW y \in ToSet(s) PROVE y \in ToSet(a)
    BY <1>1, <2>2 DEF ToSet
  <2>3. x \in ToSet(a)
    BY <1>1 DEF ToSet
  <2> QED BY <2>1, <2>2, <2>3
<1>3. Distinct(s) /\ x \notin ToSet(s) => Distinct(a)
  BY <1>1 DEF ToSet, Distinct
<1> QED BY <1>1, <1>2, <1>3 DEF a

\* Removing the first element (waiters_.pop_front).
LEMMA TailFacts ==
    ASSUME NEW S, NEW s \in Seq(S), s # <<>>
    PROVE  /\ Tail(s) \in Seq(S)
           /\ Len(Tail(s)) = Len(s) - 1
           /\ Head(s) \in S
           /\ Head(s) \in ToSet(s)
           /\ Distinct(s) => /\ Distinct(Tail(s))
                             /\ ToSet(Tail(s)) = ToSet(s) \ {Head(s)}
<1> DEFINE a == Tail(s)
<1>1. /\ a \in Seq(S)
      /\ Len(s) \in Nat \ {0} /\ Len(a) = Len(s) - 1
      /\ DOMAIN a = 1 .. Len(s) - 1 /\ DOMAIN s = 1 .. Len(s)
      /\ \A i \in 1 .. Len(s) - 1 : a[i] = s[i + 1]
      /\ Head(s) = s[1] /\ s[1] \in S
  OBVIOUS
<1> HIDE DEF a
<1>2. Head(s) \in ToSet(s)
  BY <1>1 DEF ToSet
<1>3. Distinct(s) => Distinct(a)
  BY <1>1 DEF Distinct
<1>4. ASSUME Distinct(s) PROVE ToSet(a) = ToSet(s) \ {Head(s)}
  <2>1. ASSUME NEW y \in ToSet(a) PROVE y \in ToSet(s) \ {Head(s)}
    <3>1. PICK i \in 1 .. Len(s) - 1 : y = s[i + 1]
      BY <1>1, <2>1 DEF ToSet
    <3> QED BY <1>1, <1>4, <3>1 DEF ToSet, Distinct
  <2>2. ASSUME NEW y \in ToSet(s) \ {Head(s)} PROVE y \in ToSet(a)
    <3>1. PICK i \in 1 .. Len(s) : y = s[i] /\ i # 1
      BY <1>1, <2>2 DEF ToSet
    <3>2. i - 1 \in DOMAIN a /\ a[i - 1] = y
      BY <1>1, <3>1
    <3> QED BY <3>2 DEF ToSet
  <2> QED BY <2>1, <2>2
<1> QED BY <1>1, <1>2, <1>3, <1>4 DEF a

\* Removing one element anywhere (waiters_.erase).
LEMMA RemoveAtFacts ==
    ASSUME NEW S, NEW s \in Seq(S), NEW k \in 1 .. Len(s)
    PROVE  /\ RemoveAt(s, k) \in Seq(S)
           /\ Len(RemoveAt(s, k)) = Len(s) - 1
           /\ Distinct(s) => /\ Distinct(RemoveAt(s, k))
                             /\ ToSet(RemoveAt(s, k)) = ToSet(s) \ {s[k]}
<1> DEFINE p == SubSeq(s, 1, k - 1)
           q == SubSeq(s, k + 1, Len(s))
           a == p \o q
<1>0. /\ Len(s) \in Nat
      /\ p \in Seq(S) /\ Len(p) = k - 1
      /\ \A i \in 1 .. k - 1 : p[i] = s[i]
      /\ q \in Seq(S) /\ Len(q) = Len(s) - k
      /\ \A i \in 1 .. Len(s) - k : q[i] = s[k + i]
  OBVIOUS
<1> HIDE DEF p, q
<1>1. /\ a \in Seq(S)
      /\ Len(a) = Len(s) - 1
      /\ DOMAIN a = 1 .. Len(s) - 1 /\ DOMAIN s = 1 .. Len(s)
      /\ \A i \in 1 .. Len(s) - 1 : a[i] = IF i < k THEN s[i] ELSE s[i + 1]
  <2>0. a \in Seq(S) BY <1>0
  <2>1. /\ Len(a) = Len(p) + Len(q)
        /\ DOMAIN a = 1 .. Len(a) /\ DOMAIN s = 1 .. Len(s)
    <3>1. \A u, v \in Seq(S) : Len(u \o v) = Len(u) + Len(v) OBVIOUS
    <3>2. Len(a) = Len(p) + Len(q) BY <1>0, <3>1, Zenon
    <3>3. DOMAIN a = 1 .. Len(a)
      <4> HIDE DEF a
      <4> QED BY <2>0
    <3> QED BY <3>2, <3>3
  <2>2. ASSUME NEW i \in 1 .. Len(s) - 1
        PROVE  a[i] = IF i < k THEN s[i] ELSE s[i + 1]
    <3>1. CASE i < k
      <4>1. a[i] = p[i] BY <1>0, <3>1
      <4> QED BY <1>0, <3>1, <4>1
    <3>2. CASE i >= k
      <4>1. a[i] = q[i - Len(p)] BY <1>0, <3>2
      <4>2. i - Len(p) \in 1 .. Len(s) - k /\ k + (i - Len(p)) = i + 1
        BY <1>0, <3>2
      <4>3. q[i - Len(p)] = s[i + 1] BY <1>0, <4>2
      <4> QED BY <1>0, <3>2, <4>1, <4>3
    <3> QED BY <1>0, <3>1, <3>2
  <2> QED BY <1>0, <2>0, <2>1, <2>2
<1>2. RemoveAt(s, k) = a
  BY DEF RemoveAt, p, q
<1> HIDE DEF a
<1>3. Distinct(s) => Distinct(a)
  <2> DEFINE at(i) == IF i < k THEN i ELSE i + 1
  <2>1. \A i \in 1 .. Len(s) - 1 : at(i) \in 1 .. Len(s) /\ a[i] = s[at(i)]
    BY <1>0, <1>1
  <2>2. \A i, j \in 1 .. Len(s) - 1 : at(i) = at(j) => i = j
    BY <1>0
  <2> HIDE DEF at
  <2>3. ASSUME Distinct(s), NEW i \in DOMAIN a, NEW j \in DOMAIN a, a[i] = a[j]
        PROVE  i = j
    <3>1. at(i) \in DOMAIN s /\ at(j) \in DOMAIN s /\ s[at(i)] = s[at(j)]
      BY <1>1, <2>1, <2>3
    <3>2. at(i) = at(j) BY <2>3, <3>1 DEF Distinct
    <3> QED BY <1>1, <2>2, <3>2
  <2> QED BY <2>3 DEF Distinct
<1>4. ASSUME Distinct(s) PROVE ToSet(a) = ToSet(s) \ {s[k]}
  <2>1. ASSUME NEW y \in ToSet(a) PROVE y \in ToSet(s) \ {s[k]}
    <3>1. PICK i \in 1 .. Len(s) - 1 : y = a[i]
      BY <1>1, <2>1 DEF ToSet
    <3>2. PICK j \in 1 .. Len(s) : y = s[j] /\ j # k
      BY <1>0, <1>1, <3>1
    <3> QED BY <1>0, <1>1, <1>4, <3>2 DEF ToSet, Distinct
  <2>2. ASSUME NEW y \in ToSet(s) \ {s[k]} PROVE y \in ToSet(a)
    <3>1. PICK i \in 1 .. Len(s) : y = s[i] /\ i # k
      BY <1>1, <2>2 DEF ToSet
    <3>2. PICK j \in DOMAIN a : a[j] = y
      <4>1. CASE i < k
        <5>1. i \in DOMAIN a /\ a[i] = y BY <1>0, <1>1, <3>1, <4>1
        <5> QED BY <5>1
      <4>2. CASE i > k
        <5>1. i - 1 \in DOMAIN a /\ a[i - 1] = y BY <1>0, <1>1, <3>1, <4>2
        <5> QED BY <5>1
      <4> QED BY <1>0, <3>1, <4>1, <4>2
    <3> QED BY <3>2 DEF ToSet
  <2> QED BY <2>1, <2>2
<1> QED BY <1>1, <1>2, <1>3, <1>4

\* Removing the last element (idle_.pop_back).
LEMMA FrontFacts ==
    ASSUME NEW S, NEW s \in Seq(S), s # <<>>
    PROVE  /\ Front(s) \in Seq(S)
           /\ Len(Front(s)) = Len(s) - 1
           /\ Last(s) \in S
           /\ Last(s) \in ToSet(s)
           /\ Distinct(s) => /\ Distinct(Front(s))
                             /\ ToSet(Front(s)) = ToSet(s) \ {Last(s)}
<1>1. /\ Len(s) \in Nat \ {0} /\ DOMAIN s = 1 .. Len(s) /\ s[Len(s)] \in S
  OBVIOUS
<1>2. RemoveAt(s, Len(s)) = Front(s)
  <2>1. SubSeq(s, Len(s) + 1, Len(s)) = <<>> BY <1>1
  <2>2. SubSeq(s, 1, Len(s) - 1) \in Seq(S) BY <1>1
  <2> QED BY <2>1, <2>2 DEF RemoveAt, Front
<1>3. Last(s) \in S /\ Last(s) \in ToSet(s)
  BY <1>1 DEF Last, ToSet
<1>4. Len(s) \in 1 .. Len(s)
  BY <1>1
<1>5. /\ RemoveAt(s, Len(s)) \in Seq(S)
      /\ Len(RemoveAt(s, Len(s))) = Len(s) - 1
      /\ Distinct(s) => /\ Distinct(RemoveAt(s, Len(s)))
                        /\ ToSet(RemoveAt(s, Len(s))) = ToSet(s) \ {s[Len(s)]}
  BY <1>4, RemoveAtFacts
<1> QED BY <1>2, <1>3, <1>5, Zenon DEF Last

\* The empty sequence.
LEMMA EmptyFacts ==
    ASSUME NEW S
    PROVE  /\ <<>> \in Seq(S)
           /\ Len(<<>>) = 0
           /\ ToSet(<<>>) = {}
           /\ Distinct(<<>>)
           /\ \A s \in Seq(S) : Len(s) = 0 <=> s = <<>>
           /\ \A s \in Seq(S) : Len(s) \in Nat /\ ToSet(s) \subseteq S
  BY DEF ToSet, Distinct

\* Where s holds an element of the set P
Places(s, P) == {i \in 1 .. Len(s) : s[i] \in P}

\* There are finitely many such places.
LEMMA PlacesFinite ==
    ASSUME NEW S, NEW s \in Seq(S), NEW P
    PROVE  /\ IsFiniteSet(Places(s, P)) /\ Cardinality(Places(s, P)) \in Nat
           /\ Cardinality(Places(s, P)) <= Len(s)
           /\ Cardinality(Places(s, P)) = 0 <=> Places(s, P) = {}
<1>1. Len(s) \in Nat /\ IsFiniteSet(1 .. Len(s)) /\ Cardinality(1 .. Len(s)) = Len(s)
  <2>1. Len(s) \in Nat
    OBVIOUS
  <2> QED BY <2>1, FS_Interval
<1>2. Places(s, P) \in SUBSET (1 .. Len(s))
  BY DEF Places
<1>3. IsFiniteSet(Places(s, P)) /\ Cardinality(Places(s, P)) <= Len(s)
  BY <1>1, <1>2, FS_Subset
<1> QED BY <1>3, FS_CardinalityType, FS_EmptySet

\* A task is posted: one more of its kind.
LEMMA PlacesAppend ==
    ASSUME NEW S, NEW s \in Seq(S), NEW x \in S, NEW P
    PROVE  Cardinality(Places(Append(s, x), P))
               = Cardinality(Places(s, P)) + IF x \in P THEN 1 ELSE 0
<1> DEFINE a == Append(s, x)
           n == Len(s) + 1
<1>1. /\ Len(s) \in Nat /\ Len(a) = n /\ a[n] = x
      /\ \A i \in 1 .. Len(s) : a[i] = s[i]
  OBVIOUS
<1>2. 1 .. n = (1 .. Len(s)) \cup {n} /\ n \notin 1 .. Len(s)
  BY <1>1
<1> HIDE DEF a, n
<1>3. n \notin Places(s, P) /\ IsFiniteSet(Places(s, P)) /\ Cardinality(Places(s, P)) \in Nat
  BY <1>2, PlacesFinite DEF Places
<1>4. CASE x \in P
  <2>1. Places(a, P) = Places(s, P) \cup {n}
    BY <1>1, <1>2, <1>4 DEF Places
  <2>2. Cardinality(Places(a, P)) = Cardinality(Places(s, P)) + 1
    BY <1>3, <2>1, FS_AddElement
  <2> QED BY <1>4, <2>2 DEF a
<1>5. CASE x \notin P
  <2>1. Places(a, P) = Places(s, P)
    BY <1>1, <1>2, <1>5 DEF Places
  <2> QED BY <1>3, <1>5, <2>1 DEF a
<1> QED BY <1>4, <1>5

\* The first task is run: one less of its kind.
LEMMA PlacesTail ==
    ASSUME NEW S, NEW s \in Seq(S), s # <<>>, NEW P
    PROVE  Cardinality(Places(s, P))
               = Cardinality(Places(Tail(s), P)) + IF Head(s) \in P THEN 1 ELSE 0
<1> DEFINE a == Tail(s)
           A == Places(a, P)
           B == Places(s, P) \ {1}
           f == [i \in A |-> i + 1]
<1>1. /\ a \in Seq(S) /\ Len(s) \in Nat \ {0} /\ Len(a) = Len(s) - 1 /\ Head(s) = s[1]
      /\ \A i \in 1 .. Len(a) : a[i] = s[i + 1]
  OBVIOUS
<1> HIDE DEF a
<1>2. \A i \in A : i \in Int /\ i + 1 \in B
  BY <1>1 DEF Places
<1>3. \A j \in B : j - 1 \in A /\ j \in Int
  BY <1>1 DEF Places
<1>4. f \in Bijection(A, B)
  <2>1. f \in [A -> B]
    BY <1>2
  <2>2. \A i, j \in A : f[i] = f[j] => i = j
    BY <1>2
  <2>3. \A j \in B : \E i \in A : f[i] = j
    BY <1>3
  <2> HIDE DEF f
  <2> QED BY <2>1, <2>2, <2>3 DEF Bijection, Injection, Surjection, IsInjective
<1>5. IsFiniteSet(A) /\ Cardinality(A) \in Nat /\ IsFiniteSet(Places(s, P))
      /\ Cardinality(Places(s, P)) \in Nat
  BY <1>1, PlacesFinite
<1>6. Cardinality(B) = Cardinality(A)
  BY <1>4, <1>5, FS_Bijection DEF ExistsBijection
<1>7. 1 \in Places(s, P) <=> Head(s) \in P
  BY <1>1 DEF Places
<1>8. Cardinality(B) = IF 1 \in Places(s, P) THEN Cardinality(Places(s, P)) - 1
                       ELSE Cardinality(Places(s, P))
  BY <1>5, FS_RemoveElement
<1> HIDE DEF A, B
<1> QED BY <1>5, <1>6, <1>7, <1>8 DEF A, a

(***************************************************************************)
(* A strand with at most one task of its own among others of the set A     *)
(***************************************************************************)
AllIn(q, A) == \A i \in 1 .. Len(q) : q[i] \in A

OneBut(q, A, t) ==
    \E k \in 1 .. Len(q) : q[k] = t /\ \A i \in 1 .. Len(q) : i # k => q[i] \in A

\* One more of A is posted.
LEMMA PostAside ==
    ASSUME NEW S, NEW q \in Seq(S), NEW A, NEW x \in S, x \in A
    PROVE  /\ Append(q, x) \in Seq(S)
           /\ AllIn(q, A) => AllIn(Append(q, x), A)
           /\ \A t : OneBut(q, A, t) => OneBut(Append(q, x), A, t)
           /\ \A i \in 1 .. Len(q) : i \in 1 .. Len(Append(q, x)) /\ Append(q, x)[i] = q[i]
           /\ \E i \in 1 .. Len(Append(q, x)) : Append(q, x)[i] = x
<1> DEFINE a == Append(q, x)
<1>1. /\ a \in Seq(S) /\ Len(q) \in Nat /\ Len(a) = Len(q) + 1 /\ a[Len(q) + 1] = x
      /\ \A i \in 1 .. Len(q) : a[i] = q[i]
  OBVIOUS
<1> HIDE DEF a
<1>2. \A i \in 1 .. Len(a) : i \in 1 .. Len(q) \/ i = Len(q) + 1
  BY <1>1
<1>3. Len(q) + 1 \in 1 .. Len(a) /\ \A i \in 1 .. Len(q) : i \in 1 .. Len(a)
  BY <1>1
<1>4. AllIn(q, A) => AllIn(a, A)
  BY <1>1, <1>2 DEF AllIn
<1>5. ASSUME NEW t, OneBut(q, A, t) PROVE OneBut(a, A, t)
  <2>1. PICK k \in 1 .. Len(q) : q[k] = t /\ \A i \in 1 .. Len(q) : i # k => q[i] \in A
    BY <1>5 DEF OneBut
  <2>2. k \in 1 .. Len(a) /\ a[k] = t
    BY <1>1, <1>3, <2>1
  <2>3. \A i \in 1 .. Len(a) : i # k => a[i] \in A
    BY <1>1, <1>2, <2>1
  <2> QED BY <2>2, <2>3 DEF OneBut
<1> QED BY <1>1, <1>3, <1>4, <1>5 DEF a

\* The task itself is.
LEMMA PostMain ==
    ASSUME NEW S, NEW q \in Seq(S), NEW A, AllIn(q, A), NEW t \in S
    PROVE  Append(q, t) \in Seq(S) /\ OneBut(Append(q, t), A, t)
<1> DEFINE a == Append(q, t)
<1>1. /\ a \in Seq(S) /\ Len(q) \in Nat /\ Len(a) = Len(q) + 1 /\ a[Len(q) + 1] = t
      /\ \A i \in 1 .. Len(q) : a[i] = q[i]
  OBVIOUS
<1> HIDE DEF a
<1>2. /\ Len(q) + 1 \in 1 .. Len(a)
      /\ \A i \in 1 .. Len(a) : i # Len(q) + 1 => i \in 1 .. Len(q)
  BY <1>1
<1>3. OneBut(a, A, t)
  BY <1>1, <1>2 DEF OneBut, AllIn
<1> QED BY <1>1, <1>3 DEF a

\* The first task is taken.
LEMMA PopOne ==
    ASSUME NEW S, NEW q \in Seq(S), q # <<>>, NEW A
    PROVE  /\ Head(q) \in S /\ Tail(q) \in Seq(S)
           /\ AllIn(q, A) => Head(q) \in A /\ AllIn(Tail(q), A)
           /\ \A t : t \notin A /\ OneBut(q, A, t) =>
                 IF Head(q) \in A THEN OneBut(Tail(q), A, t)
                 ELSE Head(q) = t /\ AllIn(Tail(q), A)
<1> DEFINE a == Tail(q)
<1>1. /\ a \in Seq(S) /\ Len(q) \in Nat \ {0} /\ Len(a) = Len(q) - 1 /\ Head(q) = q[1]
      /\ \A i \in 1 .. Len(a) : a[i] = q[i + 1]
      /\ q[1] \in S
  OBVIOUS
<1> HIDE DEF a
<1>2. 1 \in 1 .. Len(q) /\ \A i \in 1 .. Len(a) : i + 1 \in 1 .. Len(q) /\ i + 1 # 1
  BY <1>1
<1>3. \A i \in 1 .. Len(q) : i # 1 => /\ i - 1 \in 1 .. Len(a) /\ a[i - 1] = q[i]
                                      /\ \A j \in 1 .. Len(a) : j # i - 1 => j + 1 # i
  BY <1>1
<1>4. AllIn(q, A) => Head(q) \in A /\ AllIn(a, A)
  BY <1>1, <1>2 DEF AllIn
<1>5. ASSUME NEW t, t \notin A, OneBut(q, A, t)
      PROVE  IF Head(q) \in A THEN OneBut(a, A, t) ELSE Head(q) = t /\ AllIn(a, A)
  <2>1. PICK k \in 1 .. Len(q) : q[k] = t /\ \A i \in 1 .. Len(q) : i # k => q[i] \in A
    BY <1>5 DEF OneBut
  <2>2. CASE k = 1
    <3>1. Head(q) = t /\ AllIn(a, A)
      BY <1>1, <1>2, <2>1, <2>2 DEF AllIn
    <3> QED BY <1>5, <3>1
  <2>3. CASE k # 1
    <3>1. Head(q) \in A
      BY <1>1, <1>2, <2>1, <2>3
    <3>2. k - 1 \in 1 .. Len(a) /\ a[k - 1] = t
      BY <1>3, <2>1, <2>3
    <3>3. \A j \in 1 .. Len(a) : j # k - 1 => a[j] \in A
      BY <1>1, <1>2, <1>3, <2>1, <2>3
    <3> QED BY <3>1, <3>2, <3>3 DEF OneBut
  <2> QED BY <2>2, <2>3
<1> QED BY <1>1, <1>4, <1>5 DEF a

\* A strand with at most one task of a kind: how many there are.
LEMMA CountOne ==
    ASSUME NEW S, NEW q \in Seq(S), NEW A, NEW B,
           \A x \in S : x \in A <=> x \notin B
    PROVE  LET P == {i \in DOMAIN q : q[i] \in B} IN
           /\ AllIn(q, A) => P = {} /\ Cardinality(P) = 0
           /\ \A t \in B : OneBut(q, A, t) => /\ Cardinality(P) = 1
                                              /\ \A i \in P : q[i] = t
                                              /\ \E i \in P : q[i] = t
<1> DEFINE P == {i \in DOMAIN q : q[i] \in B}
<1>1. DOMAIN q = 1 .. Len(q) /\ \A i \in 1 .. Len(q) : q[i] \in S
  OBVIOUS
<1>2. ASSUME AllIn(q, A) PROVE P = {} /\ Cardinality(P) = 0
  <2>1. P = {} BY <1>1, <1>2 DEF AllIn
  <2> QED BY <2>1, FS_EmptySet
<1>3. ASSUME NEW t \in B, OneBut(q, A, t)
      PROVE  Cardinality(P) = 1 /\ (\A i \in P : q[i] = t) /\ \E i \in P : q[i] = t
  <2>1. PICK k \in 1 .. Len(q) : q[k] = t /\ \A i \in 1 .. Len(q) : i # k => q[i] \in A
    BY <1>3 DEF OneBut
  <2>2. P = {k}
    BY <1>1, <2>1
  <2> QED BY <2>1, <2>2, FS_Singleton
<1> QED BY <1>2, <1>3

(***************************************************************************)
(* Natural numbers                                                         *)
(***************************************************************************)
\* A set of numbers that is not empty has a least one.
LEMMA LeastNumber ==
    ASSUME NEW T, T \subseteq Nat, T # {}
    PROVE  \E x \in T : \A y \in T : x <= y
<1> DEFINE R == OpToRel(<, Nat)
<1>1. IsWellFoundedOn(R, Nat)
  BY NatLessThanWellFounded, Zenon
<1>2. \A x, y \in Nat : x < y => <<x, y>> \in R
  BY DEF OpToRel
<1> HIDE DEF R
<1>3. PICK x \in T : \A y \in T : ~(<<y, x>> \in R)
  BY <1>1, WFMin
<1>4. ASSUME NEW y \in T PROVE x <= y
  <2>1. x \in Nat /\ y \in Nat /\ ~(y < x)
    BY <1>2, <1>3
  <2> QED BY <2>1
<1> QED BY <1>4

\* A set that holds 0 and with each number the next holds all.
LEMMA Induction ==
    ASSUME NEW T, 0 \in T, \A n \in Nat : n \in T => n + 1 \in T
    PROVE  Nat \subseteq T
<1> SUFFICES ASSUME Nat \ T # {} PROVE FALSE
  OBVIOUS
<1>1. PICK x \in Nat \ T : \A y \in Nat \ T : x <= y
  BY LeastNumber
<1>2. x # 0 /\ x - 1 \in Nat /\ ~(x <= x - 1)
  BY <1>1
<1>3. x - 1 \in T
  BY <1>1, <1>2
<1>4. (x - 1) + 1 = x
  BY <1>1
<1> QED BY <1>1, <1>2, <1>3, <1>4

=============================================================================
