---------------------------- MODULE RouterProofs ----------------------------
(***************************************************************************)
(* Proofs about Router, for any routes, requests, options and lists of     *)
(* proxies, whenever those are replaced: every request gets its true       *)
(* client, the first route that fits, the CORS headers of its origin, its  *)
(* handlers in the order they were declared, and an answer.                *)
(***************************************************************************)
EXTENDS Router, SeqLemmas

(***************************************************************************)
(* What resolve() returns, for any width of addresses, any list of proxies *)
(* and whatever clients forge.                                             *)
(***************************************************************************)
\* A set of indices that is not empty has a largest one.
LEMMA LargestIndex ==
    ASSUME NEW n \in Nat, NEW T \in SUBSET (1 .. n), T # {}
    PROVE  \E i \in T : \A j \in T : j <= i
<1> DEFINE U == {n - i : i \in T}
<1>0. \A t \in T : t \in Int
  OBVIOUS
<1>1. U \subseteq Nat
  OBVIOUS
<1>2. U # {}
  <2>1. PICK i \in T : TRUE OBVIOUS
  <2>2. n - i \in U OBVIOUS
  <2> QED BY <2>2
<1> HIDE DEF U
<1>5. PICK x \in U : \A y \in U : x <= y
  BY <1>1, <1>2, LeastNumber
<1>6. PICK i \in T : x = n - i
  BY <1>5 DEF U
<1>7. ASSUME NEW j \in T PROVE j <= i
  <2>1. n - j \in U
    BY DEF U
  <2>2. x <= n - j
    BY <2>1, <1>5
  <2>3. i \in Int /\ j \in Int
    BY <1>0
  <2> QED BY <2>2, <2>3, <1>6
<1> QED BY <1>7

\* normalize() has nothing left to do the second time, so contains() says the same
\* of an address and of its normal form; only NoAddress is no address.
LEMMA NormalFacts ==
    /\ \A a \in Address : normalize(normalize(a)) = normalize(a)
    /\ \A a \in Address : \A list : contains(list, normalize(a)) = contains(list, a)
    /\ \A a \in Address : parseAddress(a) = normalize(a) /\ normalize(a) # NoAddress
<1>1. ASSUME NEW a \in Address PROVE normalize(normalize(a)) = normalize(a)
  <2>1. CASE a.v = 6 /\ a.bits \div 2 ^ Width4 = Mapped
    <3>1. normalize(a) = [v |-> 4, bits |-> a.bits % 2 ^ Width4]
      BY <2>1 DEF normalize
    <3>2. normalize(a).v # 6
      BY <3>1
    <3> QED BY <3>2 DEF normalize
  <2>2. CASE ~(a.v = 6 /\ a.bits \div 2 ^ Width4 = Mapped)
    <3>1. normalize(a) = a
      BY <2>2 DEF normalize
    <3> QED BY <3>1
  <2> QED BY <2>1, <2>2
<1>2. ASSUME NEW a \in Address, NEW list
      PROVE  contains(list, normalize(a)) = contains(list, a)
  BY <1>1, Zenon DEF contains
<1>3. ASSUME NEW a \in Address PROVE parseAddress(a) = normalize(a) /\ normalize(a) # NoAddress
  BY NoAddressAssumption, Zenon DEF parseAddress
<1> QED BY <1>1, <1>2, <1>3

\* The largest element is the one CHOOSE finds.
LEMMA TheLargest ==
    ASSUME NEW S \in SUBSET Int, NEW n \in S, \A j \in S : j <= n
    PROVE  n = CHOOSE i \in S : \A j \in S : j <= i
<1> DEFINE P(i) == \A j \in S : j <= i
<1>1. \A i \in S : P(i) => i = n
  OBVIOUS
<1>2. P(n)
  OBVIOUS
<1> HIDE DEF P
<1>3. n = CHOOSE i \in S : P(i)
  BY <1>1, <1>2
<1> QED BY <1>3 DEF P

\* X-Forwarded-For holds what the client forged, then what the proxies appended.
LEMMA Hops ==
    ASSUME NEW came \in Seq(Address), came # <<>>, NEW forged \in Seq(Text)
    PROVE  LET hops == appended(forged, came)
           IN  /\ Len(hops) = Len(forged) + Len(came) - 1
               /\ \A k \in 1 .. Len(came) - 1 : hops[Len(forged) + k] = came[k]
               /\ Len(came) > 1 => hops # <<>>
<1> DEFINE front == Front(came)
<1>1. /\ front \in Seq(Address) /\ Len(front) = Len(came) - 1
      /\ \A k \in 1 .. Len(came) - 1 : front[k] = came[k]
  <2>1. Len(came) \in Nat \ {0} /\ came \in [1 .. Len(came) -> Address]
    OBVIOUS
  <2>2. front = [k \in 1 .. Len(came) - 1 |-> came[k]]
    BY <2>1 DEF Front
  <2>3. front \in [1 .. Len(came) - 1 -> Address]
    BY <2>1, <2>2
  <2> HIDE DEF front
  <2>4. Len(came) - 1 \in Nat
    BY <2>1
  <2>5. front \in Seq(Address) /\ Len(front) = Len(came) - 1
    BY <2>3, <2>4
  <2> QED BY <2>2, <2>5
<1>2. Len(came) \in Nat /\ Len(forged) \in Nat /\ Address \subseteq Text
  BY DEF Text
<1>3. front \in Seq(Text)
  BY <1>1, <1>2
<1> HIDE DEF front
<1>4. /\ Len(forged \o front) = Len(forged) + Len(front)
      /\ \A k \in 1 .. Len(front) : (forged \o front)[Len(forged) + k] = front[k]
  BY <1>2, <1>3
<1>5. appended(forged, came) = forged \o front
  BY DEF appended, front
<1>6. Len(came) > 1 => Len(forged \o front) > 0
  BY <1>1, <1>2, <1>4
<1>7. Len(came) > 1 => forged \o front # <<>>
  BY <1>6
<1> QED BY <1>1, <1>2, <1>4, <1>5, <1>7

\* Nobody can forge a client IP: if the request passed anyone who is not a trusted
\* proxy, resolve() returns the one of them nearest to us, whatever was in
\* X-Forwarded-For before it came to that proxy and whatever X-Real-IP says.
THEOREM NobodyForges ==
    ASSUME NEW list, NEW real_ip,
           NEW came \in Seq(Address), came # <<>>, NEW forged \in Seq(Text),
           \E k \in DOMAIN came : ~contains(list, came[k])
    PROVE  resolve(list, Last(came), appended(forged, came), real_ip)
               = nearestUntrusted(list, came)
<1> DEFINE outside == {i \in 1 .. Len(came) : ~contains(list, came[i])}
           hops == appended(forged, came)
           peer == normalize(Last(came))
<1>1. /\ Len(came) \in Nat \ {0} /\ DOMAIN came = 1 .. Len(came)
      /\ \A k \in 1 .. Len(came) : came[k] \in Address
  OBVIOUS
<1>2. outside \in SUBSET (1 .. Len(came)) /\ outside # {}
  BY <1>1
<1>3. PICK n \in outside : \A j \in outside : j <= n
  BY <1>1, <1>2, LargestIndex
<1>4. nearestUntrusted(list, came) = normalize(came[n])
  <2>1. outside \in SUBSET Int
    BY <1>2
  <2>2. n = CHOOSE i \in outside : \A j \in outside : j <= i
    BY <1>3, <2>1, TheLargest
  <2> QED BY <2>2 DEF nearestUntrusted
<1>5. /\ Last(came) = came[Len(came)] /\ Last(came) \in Address
      /\ parseAddress(Last(came)) = peer /\ peer # NoAddress
      /\ contains(list, peer) = contains(list, came[Len(came)])
  BY <1>1, NormalFacts DEF Last
<1>6. CASE n = Len(came)
  <2>1. ~contains(list, peer)
    BY <1>3, <1>5, <1>6
  <2>2. resolve(list, Last(came), hops, real_ip) = peer
    BY <2>1, <1>5 DEF resolve
  <2> QED BY <2>2, <1>4, <1>5, <1>6
<1>7. CASE n # Len(came)
  <2>1. n \in 1 .. Len(came) - 1
    <3>1. n \in 1 .. Len(came)
      BY <1>2, <1>3
    <3>2. Len(came) \in Nat
      BY <1>1
    <3> HIDE DEF outside
    <3> QED BY <1>7, <3>1, <3>2
  <2>2. \A k \in 1 .. Len(came) : k > n => contains(list, came[k])
    BY <1>1, <1>3, <2>1
  <2>3. contains(list, peer) /\ list # {}
    <3>1. contains(list, peer)
      BY <1>1, <1>5, <2>1, <2>2
    <3> QED BY <3>1 DEF contains
  <2>4. /\ Len(hops) = Len(forged) + Len(came) - 1
        /\ \A k \in 1 .. Len(came) - 1 : hops[Len(forged) + k] = came[k]
        /\ hops # <<>> /\ Len(forged) \in Nat
    BY <1>1, <2>1, Hops
  <2> DEFINE s == Len(forged) + n
  <2> HIDE DEF hops, outside, peer
  <2>5. s \in 1 .. Len(hops) /\ hops[s] = came[n] /\ came[n] \in Address
    BY <1>1, <2>1, <2>4
  <2>6. s \in stops(list, hops)
    <3>1. ~contains(list, parseAddress(hops[s]))
      BY <1>3, <2>5, NormalFacts DEF outside
    <3> QED BY <3>1, <2>5 DEF stops
  <2>7. ASSUME NEW j \in stops(list, hops) PROVE j <= s
    <3>1. j \in 1 .. Len(hops)
      BY DEF stops
    <3>2. SUFFICES ASSUME j > s PROVE FALSE
      BY <3>1, <2>4, <2>1
    <3> DEFINE k == j - Len(forged)
    <3>3. k \in 1 .. Len(came) - 1 /\ k > n /\ j = Len(forged) + k
      BY <1>1, <2>1, <2>4, <3>1, <3>2
    <3>4. hops[j] = came[k] /\ came[k] \in Address /\ contains(list, came[k])
      BY <1>1, <2>2, <2>4, <3>3
    <3>5. parseAddress(hops[j]) # NoAddress /\ contains(list, parseAddress(hops[j]))
      BY <3>4, NormalFacts
    <3> QED BY <3>5 DEF stops
  <2>8. s = CHOOSE i \in stops(list, hops) \cup {0} :
                \A j \in stops(list, hops) : j <= i
    <3> DEFINE S == stops(list, hops) \cup {0}
               P(i) == \A j \in stops(list, hops) : j <= i
    <3>1. stops(list, hops) \subseteq Int /\ s \in Int /\ s > 0
      BY <2>1, <2>4 DEF stops
    <3>2. \A i \in S : P(i) => i = s
      BY <2>6, <2>7, <3>1
    <3>3. s \in S /\ P(s)
      BY <2>6, <2>7
    <3> HIDE DEF S, P, s
    <3>4. s = CHOOSE i \in S : P(i)
      BY <3>2, <3>3
    <3> QED BY <3>4 DEF S, P
  <2>9. parseAddress(hops[s]) = normalize(came[n]) /\ parseAddress(hops[s]) # NoAddress
    BY <2>5, NormalFacts
  <2>10. walk(list, peer, hops) = normalize(came[n])
    <3>1. s > 0 BY <2>5
    <3> HIDE DEF s
    <3> QED BY <2>8, <2>9, <3>1 DEF walk
  <2>11. resolve(list, Last(came), hops, real_ip) = walk(list, peer, hops)
    BY <1>5, <2>3, <2>4 DEF resolve
  <2> QED BY <1>4, <2>10, <2>11 DEF hops
<1> QED BY <1>6, <1>7

(***************************************************************************)
(* The inductive invariant.  TrueClient says of a list only that it is a   *)
(* whole one: what makes it so is that the list being built holds the      *)
(* networks of the CIDRs that are done, and that it is published when none *)
(* is left.                                                                *)
(***************************************************************************)
Cidrs == [text : Text, prefix : Nat \cup {NoPrefix}]

\* setTrustedProxies() added the first k of cidrs
Added(cidrs, k) ==
    /\ updater.todo \in Seq(Cidrs)
    /\ Len(updater.todo) = Len(cidrs) - k
    /\ \A j \in 1 .. Len(updater.todo) : updater.todo[j] = cidrs[k + j]
    /\ \A j \in 1 .. k : validCidr(cidrs[j])
    /\ updater.built = {network(cidrs[j]) : j \in 1 .. k}

Building ==
    updater.at = "adding" => \E cidrs \in Updates : \E k \in 0 .. Len(cidrs) : Added(cidrs, k)

Resolved ==
    at # "free" =>
        /\ req \in Requests
        /\ ip = resolve(used, Last(req.came), appended(req.forged, req.came), req.real_ip)

IInv ==
    /\ trusted_proxies_ \in Whole
    /\ used \in Whole
    /\ Building
    /\ Resolved

\* Before any request and any setTrustedProxies().
LEMMA IInvInit == Init => IInv
<1> SUFFICES ASSUME Init PROVE IInv
  OBVIOUS
<1>1. {} \in Whole
  BY DEF Whole
<1>2. Building /\ Resolved
  BY DEF Init, Building, Resolved
<1> QED BY <1>1, <1>2 DEF Init, IInv

\* What setTrustedProxies() is given is a list of CIDRs.
LEMMA UpdateType ==
    ASSUME NEW cidrs \in Updates
    PROVE  cidrs \in Seq(Cidrs) /\ Len(cidrs) \in Nat
<1>1. Updates \subseteq Seq(Cidrs)
  BY RouterAssumption, Zenon DEF Cidrs
<1>2. cidrs \in Seq(Cidrs)
  BY <1>1, Zenon
<1> QED BY <1>2

\* A list that was built to the end is a whole one.
LEMMA BuiltWhole ==
    ASSUME NEW cidrs \in Updates, \A j \in 1 .. Len(cidrs) : validCidr(cidrs[j])
    PROVE  {network(cidrs[j]) : j \in 1 .. Len(cidrs)} \in Whole
<1>1. DOMAIN cidrs = 1 .. Len(cidrs)
  BY RouterAssumption
<1> QED BY <1>1 DEF Whole

\* setTrustedProxies(), whose steps no request sees before the last one.
LEMMA UpdaterKeeps == IInv /\ Updater => IInv'
<1> SUFFICES ASSUME IInv, Updater PROVE IInv'
  OBVIOUS
<1>1. UNCHANGED <<used, ip, req, at>>
  BY DEF Updater, SetTrustedProxies, AddProxy, AddProxyThrows, PublishProxies,
         UpdaterFrame, whoVars
<1>2. used' \in Whole' /\ Resolved'
  BY <1>1 DEF IInv, Resolved, Whole
<1>3. Building' /\ trusted_proxies_' \in Whole
  <2>1. ASSUME NEW cidrs \in Updates, SetTrustedProxies(cidrs) PROVE Building'
    <3>1. cidrs \in Seq(Cidrs) /\ Len(cidrs) \in Nat
      BY UpdateType
    <3>2. updater'.todo = cidrs /\ updater'.built = {}
      BY <2>1 DEF SetTrustedProxies
    <3>3. Added(cidrs, 0)'
      BY <3>1, <3>2 DEF Added
    <3> QED BY <3>1, <3>3 DEF Building
  <2>2. ASSUME AddProxy PROVE Building'
    <3>1. updater.at = "adding" /\ updater.todo # <<>> /\ validCidr(Head(updater.todo))
      BY <2>2 DEF AddProxy
    <3>2. PICK cidrs \in Updates : \E k \in 0 .. Len(cidrs) : Added(cidrs, k)
      BY <3>1 DEF IInv, Building
    <3>3. PICK k \in 0 .. Len(cidrs) : Added(cidrs, k)
      BY <3>2
    <3>4. cidrs \in Seq(Cidrs) /\ Len(cidrs) \in Nat
      BY UpdateType
    <3> DEFINE todo == updater.todo
    <3>5. /\ todo \in Seq(Cidrs) /\ Len(todo) \in Nat \ {0} /\ Head(todo) = todo[1]
          /\ Tail(todo) \in Seq(Cidrs) /\ Len(Tail(todo)) = Len(todo) - 1
          /\ \A j \in 1 .. Len(todo) - 1 : Tail(todo)[j] = todo[j + 1]
      BY <3>1, <3>3 DEF Added
    <3>6. Len(todo) = Len(cidrs) - k /\ \A j \in 1 .. Len(todo) : todo[j] = cidrs[k + j]
      BY <3>3 DEF Added
    <3> HIDE DEF todo
    <3>7. Head(todo) = cidrs[k + 1] /\ k + 1 \in 0 .. Len(cidrs)
      BY <3>4, <3>5, <3>6
    <3>8. /\ Tail(todo) \in Seq(Cidrs) /\ Len(Tail(todo)) = Len(cidrs) - (k + 1)
          /\ \A j \in 1 .. Len(Tail(todo)) : Tail(todo)[j] = cidrs[k + 1 + j]
      BY <3>4, <3>5, <3>6
    <3>9. \A j \in 1 .. k + 1 : validCidr(cidrs[j])
      <4>1. validCidr(cidrs[k + 1]) BY <3>1, <3>7 DEF todo
      <4>2. \A j \in 1 .. k : validCidr(cidrs[j]) BY <3>3 DEF Added
      <4>3. \A j \in 1 .. k + 1 : j \in 1 .. k \/ j = k + 1 BY <3>4
      <4> QED BY <4>1, <4>2, <4>3
    <3>10. updater.built \cup {network(cidrs[k + 1])} = {network(cidrs[j]) : j \in 1 .. k + 1}
      <4>1. updater.built = {network(cidrs[j]) : j \in 1 .. k} BY <3>3 DEF Added
      <4>2. 1 .. k + 1 = (1 .. k) \cup {k + 1} BY <3>4
      <4> QED BY <4>1, <4>2, Zenon
    <3>11. updater'.todo = Tail(todo) /\ updater'.built = updater.built \cup {network(Head(todo))}
      BY <2>2 DEF AddProxy, todo
    <3>12. Added(cidrs, k + 1)'
      BY <3>7, <3>8, <3>9, <3>10, <3>11 DEF Added
    <3> QED BY <3>7, <3>12 DEF Building
  <2>3. ASSUME PublishProxies PROVE trusted_proxies_' \in Whole
    <3>1. updater.at = "adding" /\ updater.todo = <<>> /\ trusted_proxies_' = updater.built
      BY <2>3 DEF PublishProxies
    <3>2. PICK cidrs \in Updates : \E k \in 0 .. Len(cidrs) : Added(cidrs, k)
      BY <3>1 DEF IInv, Building
    <3>3. PICK k \in 0 .. Len(cidrs) : Added(cidrs, k)
      BY <3>2
    <3>4. Len(cidrs) \in Nat
      BY RouterAssumption
    <3>5. k = Len(cidrs)
      BY <3>1, <3>3, <3>4 DEF Added
    <3> QED BY <3>1, <3>3, <3>5, BuiltWhole DEF Added
  <2>4. AddProxyThrows \/ PublishProxies => Building'
    BY DEF AddProxyThrows, PublishProxies, Building
  <2>5. (\E cidrs \in Updates : SetTrustedProxies(cidrs)) \/ AddProxy \/ AddProxyThrows
            => trusted_proxies_' \in Whole
    BY DEF SetTrustedProxies, AddProxy, AddProxyThrows, IInv
  <2> QED BY <2>1, <2>2, <2>3, <2>4, <2>5 DEF Updater
<1> QED BY <1>2, <1>3 DEF IInv, Whole

\* route(), upgrade() and open() change nothing of who the client is.
LEMMA HandlingFrame == Handling => at # "free" /\ UNCHANGED <<proxyVars, whoVars>>
<1> USE DEF Frame
<1>1. ASSUME NEW o \in Outcomes, RunGlobal(o) \/ NoRoute(o) \/ WsNoRoute(o)
      PROVE  at # "free" /\ UNCHANGED <<proxyVars, whoVars>>
  BY <1>1 DEF RunGlobal, NoRoute, WsNoRoute
<1>2. ASSUME NEW o \in Outcomes, RunPre(o) \/ RunHandler(o) \/ RunPost(o)
      PROVE  at # "free" /\ UNCHANGED <<proxyVars, whoVars>>
  BY <1>2 DEF RunPre, RunHandler, RunPost, RunStep
<1>3. RunCors \/ ParseTarget \/ TryRoute \/ Unanswered
          => at # "free" /\ UNCHANGED <<proxyVars, whoVars>>
  BY DEF RunCors, ParseTarget, TryRoute, Unanswered
<1>4. WsParse \/ WsTryRoute \/ WsOpened \/ (\E next \in {"ws_open", "done"} : Handshake(next))
          => at # "free" /\ UNCHANGED <<proxyVars, whoVars>>
  BY DEF WsParse, WsTryRoute, WsOpened, Handshake
<1>5. ASSUME NEW o, RunWsPre(o) \/ RunWsHandler(o) \/ RunWsPost(o)
      PROVE  at # "free" /\ UNCHANGED <<proxyVars, whoVars>>
  BY <1>5 DEF RunWsPre, RunWsHandler, RunWsPost
<1> QED BY <1>1, <1>2, <1>3, <1>4, <1>5 DEF Handling

\* Every step keeps the invariant.
LEMMA IInvNext == IInv /\ [Next]_vars => IInv'
<1> SUFFICES ASSUME IInv, [Next]_vars PROVE IInv'
  OBVIOUS
<1>1. CASE Updater
  BY <1>1, UpdaterKeeps
<1>2. ASSUME NEW r \in Requests, Enter(r) PROVE IInv'
  <2>1. /\ used' = trusted_proxies_ /\ req' = r
        /\ ip' = resolve(used', Last(r.came), appended(r.forged, r.came), r.real_ip)
        /\ UNCHANGED <<trusted_proxies_, updater>>
    BY <1>2 DEF Enter, proxyVars
  <2>2. Resolved'
    BY <2>1 DEF Resolved
  <2>3. Building'
    BY <2>1 DEF IInv, Building, Added
  <2> QED BY <2>1, <2>2, <2>3 DEF IInv, Whole
<1>3. CASE Handling
  <2>1. at # "free" /\ UNCHANGED <<trusted_proxies_, updater, req, ip, used>>
    BY <1>3, HandlingFrame DEF proxyVars, whoVars
  <2>2. Resolved' /\ Building'
    BY <2>1 DEF IInv, Resolved, Building, Added
  <2> QED BY <2>1, <2>2 DEF IInv, Whole
<1>4. CASE Leave
  <2>1. at' = "free" /\ used' = {} /\ UNCHANGED <<trusted_proxies_, updater>>
    BY <1>4 DEF Leave, Continue, proxyVars
  <2>2. Resolved' /\ Building'
    BY <2>1 DEF IInv, Resolved, Building, Added
  <2>3. used' \in Whole
    BY <2>1 DEF Whole
  <2> QED BY <2>1, <2>2, <2>3 DEF IInv, Whole
<1>5. CASE UNCHANGED vars
  <2>1. UNCHANGED <<trusted_proxies_, updater, req, ip, used, at>>
    BY <1>5 DEF vars, proxyVars, whoVars
  <2>2. Resolved' /\ Building'
    BY <2>1 DEF IInv, Resolved, Building, Added
  <2> QED BY <2>1, <2>2 DEF IInv, Whole
<1> QED BY <1>1, <1>2, <1>3, <1>4, <1>5 DEF Next

\* Every request sees one whole list of trusted proxies, the old or the new one,
\* and none can forge its client (setTrustedProxies(), TrustedProxies::resolve()).
THEOREM ClientsAreTrue == Spec => []TrueClient
<1>1. IInv => TrueClient
  <2> SUFFICES ASSUME IInv PROVE TrueClient
    OBVIOUS
  <2>1. ASSUME at # "free", \E k \in DOMAIN req.came : ~contains(used, req.came[k])
        PROVE  ip = nearestUntrusted(used, req.came)
    <3>1. /\ req.came \in Seq(Address) /\ req.came # <<>> /\ req.forged \in Seq(Text)
          /\ ip = resolve(used, Last(req.came), appended(req.forged, req.came), req.real_ip)
      BY <2>1, RouterAssumption DEF IInv, Resolved
    <3> QED BY <2>1, <3>1, NobodyForges
  <2> QED BY <2>1 DEF TrueClient, IInv
<1> QED BY <1>1, IInvInit, IInvNext, PTL DEF Spec

(***************************************************************************)
(* The search for the route.  RightRoute speaks of routes that were        *)
(* refused: the invariant says what the search knows of those behind it.   *)
(***************************************************************************)
Responses ==
    [status : Nat, allow_origin : {"none", "origin", "*"}, credentials : BOOLEAN,
     expose : BOOLEAN, preflight : BOOLEAN, vary : {"none", "Origin", "all"}]

Serving == {"pre", "post", "ws_pre", "ws_open", "ws_post"}

Shape ==
    /\ routes_ \in Tables
    /\ policy.any_origin \in BOOLEAN /\ policy.exposed \in BOOLEAN /\ policy.credentials \in BOOLEAN
    /\ res \in Responses
    /\ index \in Nat \ {0}
    /\ route \in 0 .. Len(routes_)
    /\ ran \in Seq(STRING)
    /\ at \in Serving => route # 0

\* Up to the place in the search nothing fits, and an answer ends the request
Searching ==
    /\ at = "free" => ran = <<>>
    /\ at \in {"free", "global", "ws_parse"} => route = 0 /\ path_matched = FALSE
    /\ at = "global" => ~req.upgrade
    /\ at = "ws_parse" => req.upgrade
    /\ at = "match" =>
           /\ ~req.upgrade /\ route = 0 /\ req.target # NoTarget
           /\ \A k \in 1 .. Len(routes_) : k < index => ~Fits(k)
           /\ path_matched <=> \E k \in 1 .. Len(routes_) : k < index /\ Knows(k)
    /\ at = "ws_match" =>
           /\ req.upgrade /\ route = 0 /\ req.target # NoTarget
           /\ \A k \in 1 .. Len(routes_) : k < index => ~Knows(k)
    /\ at \notin {"done", "closed", "escaped"} => res.status = 0

\* The answer to a preflight request
Preflighted == isPreflight(req) /\ req.origin # NoOrigin
AllowedOrigin == req.origin # NoOrigin /\ allows(policy, req.origin)

CorsFacts ==
    /\ (res.allow_origin # "none") = AllowedOrigin
    /\ res.credentials => res.allow_origin = "origin"
    /\ varies(policy) => res.vary # "none"
    /\ Preflighted => /\ at = "done" /\ Last(ran) = "cors"
                      /\ res.status = IF AllowedOrigin THEN 204 ELSE 403

CorsHeaders ==
    IF "cors" \in Range(ran) THEN CorsFacts
    ELSE res.allow_origin = "none" /\ res.credentials = FALSE

RInv == Shape /\ Searching /\ RightRoute /\ CorsHeaders

\* Routes are numbered from 1.
LEMMA RouteTypes ==
    ASSUME routes_ \in Tables
    PROVE  /\ Len(routes_) \in Nat /\ DOMAIN routes_ = 1 .. Len(routes_)
           /\ \A k \in 1 .. Len(routes_) :
                 /\ routes_[k].handler \in Names /\ routes_[k].kind \in {"http", "ws"}
                 /\ \A list \in {routes_[k].pre, routes_[k].post} :
                       own(routes_[k], list)
                           \in Seq([name : Names, kind : {routes_[k].kind}])
<1>1. routes_ \in Seq(Range(routes_))
  BY RouterAssumption
<1>2. Len(routes_) \in Nat /\ DOMAIN routes_ = 1 .. Len(routes_)
  BY <1>1
<1>3. \A k \in 1 .. Len(routes_) : routes_[k] \in Range(routes_)
  BY <1>2 DEF Range
<1> QED BY <1>2, <1>3, RouterAssumption

\* send() sets the status and nothing else.
LEMMA SendFacts ==
    ASSUME NEW r \in Responses, NEW n \in Nat
    PROVE  /\ send(r, n) \in Responses
           /\ send(r, n).status = n
           /\ send(r, n).allow_origin = r.allow_origin
           /\ send(r, n).credentials = r.credentials
           /\ send(r, n).vary = r.vary
  BY DEF send, Responses

\* What a response of the application is, after an error too.
Answers(o) == IF threw(o) THEN error500(after(o)) ELSE after(o)

\* It has the headers it had, and a status of the handler's or 500.
LEMMA AnswerFacts ==
    ASSUME res \in Responses, res.status = 0, NEW o \in Outcomes
    PROVE  /\ Answers(o) \in Responses
           /\ Answers(o).status \in {0, 200, 500}
           /\ Answers(o).allow_origin = res.allow_origin
           /\ Answers(o).credentials = res.credentials
           /\ Answers(o).vary = res.vary
<1>1. /\ after(o) \in Responses /\ after(o).status \in {0, 200}
      /\ after(o).allow_origin = res.allow_origin
      /\ after(o).credentials = res.credentials /\ after(o).vary = res.vary
  <2>1. after(o) = res \/ after(o) = send(res, 200)
    BY DEF after
  <2> QED BY <2>1, SendFacts
<1> HIDE DEF after
<1>2. Answers(o) = after(o) \/ Answers(o) = send(after(o), 500)
  BY DEF Answers, error500
<1> QED BY <1>1, <1>2, SendFacts

\* A handler that ran is the last one.
LEMMA RanFacts ==
    ASSUME NEW S, NEW s \in Seq(S), NEW n \in S
    PROVE  /\ Append(s, n) \in Seq(S) /\ Range(Append(s, n)) = Range(s) \cup {n}
           /\ Last(Append(s, n)) = n
<1>1. Append(s, n) \in Seq(S) /\ Len(Append(s, n)) = Len(s) + 1 /\ Append(s, n)[Len(s) + 1] = n
  OBVIOUS
<1>2. ToSet(Append(s, n)) = ToSet(s) \cup {n}
  BY AppendFacts
<1>3. Range(Append(s, n)) = ToSet(Append(s, n)) /\ Range(s) = ToSet(s)
  BY Zenon DEF ToSet, Range
<1>4. Last(Append(s, n)) = n
  BY <1>1, Zenon DEF Last
<1> QED BY <1>1, <1>2, <1>3, <1>4

SameHeaders ==
    /\ res'.allow_origin = res.allow_origin
    /\ res'.credentials = res.credentials
    /\ res'.vary = res.vary

RanAnother == ran' = ran \/ \E n \in Names : ran' = Append(ran, n)

\* Steps that are not those of the CORS middleware leave its headers alone.
LEMMA CorsKept ==
    ASSUME RInv, UNCHANGED <<policy, req>>, at # "done", SameHeaders, RanAnother
    PROVE  CorsHeaders'
<1>1. "cors" \in Range(ran') <=> "cors" \in Range(ran)
  <2>1. CASE ran' = ran BY <2>1
  <2>2. ASSUME NEW n \in Names, ran' = Append(ran, n)
        PROVE  "cors" \in Range(ran') <=> "cors" \in Range(ran)
    <3>1. ran \in Seq(STRING) /\ n \in STRING /\ n # "cors"
      BY DEF RInv, Shape, Names
    <3>2. Range(ran') = Range(ran) \cup {n}
      BY <2>2, <3>1, RanFacts
    <3> QED BY <3>1, <3>2
  <2> QED BY <2>1, <2>2 DEF RanAnother
<1>2. CASE "cors" \in Range(ran)
  <2>1. CorsFacts BY <1>2 DEF RInv, CorsHeaders
  <2>2. ~Preflighted BY <2>1 DEF CorsFacts
  <2>3. ~Preflighted' BY <2>2 DEF Preflighted, isPreflight
  <2>4. AllowedOrigin' = AllowedOrigin BY DEF AllowedOrigin, allows, isSubdomain
  <2>5. varies(policy)' = varies(policy) BY DEF varies
  <2>6. /\ (res'.allow_origin # "none") = AllowedOrigin'
        /\ res'.credentials => res'.allow_origin = "origin"
        /\ varies(policy)' => res'.vary # "none"
    BY <2>1, <2>4, <2>5, Zenon DEF CorsFacts, SameHeaders
  <2> QED BY <1>1, <1>2, <2>3, <2>6, Zenon DEF CorsHeaders, CorsFacts
<1>3. CASE "cors" \notin Range(ran)
  BY <1>1, <1>3, Zenon DEF RInv, CorsHeaders, SameHeaders
<1> QED BY <1>2, <1>3

\* What fits is the same for the same request and the same routes.
LEMMA FitsKept ==
    ASSUME UNCHANGED <<routes_, req>>
    PROVE  \A k : Knows(k)' = Knows(k) /\ Fits(k)' = Fits(k)
  BY DEF Knows, Fits, isWebSocket, pathMatch

\* Steps that match no route and do not answer 404 or 405.
LEMMA RightKept ==
    ASSUME RInv, UNCHANGED <<routes_, req, route, params>>,
           res'.status = res.status \/ res'.status \notin {404, 405}
    PROVE  RightRoute'
<1>0. RightRoute BY DEF RInv
<1>1. route' # 0 => /\ Fits(route)' /\ \A k \in 1 .. route' - 1 : ~Fits(k)'
                    /\ params' = captures(routes_'[route'], req'.target)
  <2>1. CASE route = 0 BY <2>1
  <2>2. CASE route # 0
    <3>1. /\ Fits(route) /\ \A k \in 1 .. route - 1 : ~Fits(k)
          /\ params = captures(routes_[route], req.target)
      BY <1>0, <2>2 DEF RightRoute
    <3>2. Fits(route)' /\ \A k \in 1 .. route - 1 : ~Fits(k)'
      BY <3>1 DEF Knows, Fits, isWebSocket, pathMatch
    <3> QED BY <3>1, <3>2
  <2> QED BY <2>1, <2>2
<1>2. res'.status = 405 => /\ \E k \in DOMAIN routes_ : Knows(k)'
                           /\ \A k \in DOMAIN routes_ : ~Fits(k)'
  BY <1>0, FitsKept DEF RightRoute
<1>3. res'.status = 404 => \A k \in DOMAIN routes_ : ~Knows(k)'
  BY <1>0, FitsKept DEF RightRoute
<1> QED BY <1>1, <1>2, <1>3 DEF RightRoute

\* Where a request goes on from where it is
Onwards ==
    \/ at' \in {"done", "closed"}
    \/ /\ res'.status = 0
       /\ \/ at \in Serving /\ at' \in Serving
          \/ at = "global" /\ at' = "global"
          \/ at = "global" /\ at' = "match" /\ index' = 1 /\ req.target # NoTarget
          \/ at = "ws_parse" /\ at' = "ws_match" /\ index' = 1 /\ req.target # NoTarget

Plain ==
    /\ UNCHANGED <<routes_, policy, req, path_matched, params, route>>
    /\ at \notin {"free", "done", "closed", "escaped"}
    /\ res' \in Responses /\ res'.status \notin {404, 405}
    /\ SameHeaders /\ RanAnother
    /\ index' \in Nat \ {0}
    /\ Onwards

\* Such steps keep the invariant.
LEMMA PlainKeeps ==
    ASSUME RInv, Plain
    PROVE  RInv'
<1>0. Shape /\ Searching
  BY DEF RInv
<1>1. CorsHeaders'
  BY CorsKept DEF Plain
<1>2. RightRoute'
  BY RightKept DEF Plain
<1>3. Shape'
  <2>1. ran' \in Seq(STRING)
    <3>1. CASE ran' = ran BY <1>0, <3>1 DEF Shape
    <3>2. ASSUME NEW n \in Names, ran' = Append(ran, n) PROVE ran' \in Seq(STRING)
      BY <1>0, <3>2, RanFacts DEF Shape, Names
    <3> QED BY <3>1, <3>2 DEF Plain, RanAnother
  <2>2. at' \in Serving => at \in Serving
    BY DEF Plain, Onwards, Serving
  <2> QED BY <1>0, <2>1, <2>2 DEF Shape, Plain
<1>4. Searching'
  <2>1. at' # "free" /\ at' # "ws_parse"
    BY DEF Plain, Onwards, Serving
  <2>2. at' = "global" => route' = 0 /\ path_matched' = FALSE /\ ~req'.upgrade
    <3>1. at' = "global" => at = "global" BY DEF Plain, Onwards, Serving
    <3> QED BY <1>0, <3>1, Zenon DEF Searching, Plain
  <2>3. ASSUME at' = "match"
        PROVE  /\ ~req'.upgrade /\ route' = 0 /\ req'.target # NoTarget
               /\ \A k \in 1 .. Len(routes_') : k < index' => ~Fits(k)'
               /\ path_matched' <=> \E k \in 1 .. Len(routes_') : k < index' /\ Knows(k)'
    <3>1. at = "global" /\ index' = 1 /\ req.target # NoTarget
      BY <2>3 DEF Plain, Onwards, Serving
    <3>2. \A k \in 1 .. Len(routes_') : ~(k < 1) BY <1>0, RouteTypes DEF Shape, Plain
    <3>3. path_matched' = FALSE /\ ~req'.upgrade /\ route' = 0 /\ req' = req
      BY <1>0, <3>1, Zenon DEF Searching, Plain
    <3> QED BY <3>1, <3>2, <3>3
  <2>4. ASSUME at' = "ws_match"
        PROVE  /\ req'.upgrade /\ route' = 0 /\ req'.target # NoTarget
               /\ \A k \in 1 .. Len(routes_') : k < index' => ~Knows(k)'
    <3>1. at = "ws_parse" /\ index' = 1 /\ req.target # NoTarget
      BY <2>4 DEF Plain, Onwards, Serving
    <3>2. \A k \in 1 .. Len(routes_') : ~(k < 1) BY <1>0, RouteTypes DEF Shape, Plain
    <3>3. req'.upgrade /\ route' = 0 /\ req' = req
      BY <1>0, <3>1, Zenon DEF Searching, Plain
    <3> QED BY <3>1, <3>2, <3>3
  <2>5. at' \notin {"done", "closed", "escaped"} => res'.status = 0
    BY DEF Plain, Onwards
  <2> QED BY <2>1, <2>2, <2>3, <2>4, <2>5, Zenon DEF Searching
<1> QED BY <1>1, <1>2, <1>3, <1>4 DEF RInv

\* The handlers of the route.
LEMMA HandlerNames ==
    ASSUME Shape, at \in Serving
    PROVE  /\ routes_[route].handler \in Names
           /\ \A k \in 1 .. Len(pre_middlewares) : pre_middlewares[k].name \in Names
           /\ \A k \in 1 .. Len(post_middlewares) : post_middlewares[k].name \in Names
<1>1. routes_ \in Tables /\ route \in 1 .. Len(routes_)
  BY DEF Shape
<1>2. /\ pre_middlewares \in Seq([name : Names, kind : {routes_[route].kind}])
      /\ post_middlewares \in Seq([name : Names, kind : {routes_[route].kind}])
  BY <1>1, RouteTypes DEF pre_middlewares, post_middlewares
<1>3. ASSUME NEW K, NEW q \in Seq([name : Names, kind : K]), NEW k \in 1 .. Len(q)
      PROVE  q[k].name \in Names
  <2> DEFINE M == [name : Names, kind : K]
  <2>1. q \in Seq(M) OBVIOUS
  <2>2. q[k] \in M
    <3> HIDE DEF M
    <3> QED BY <2>1
  <2> QED BY <2>2
<1> QED BY <1>1, <1>2, <1>3, RouteTypes

\* A handler of an HTTP request ran: what it did to the response.
LEMMA RunPlain ==
    ASSUME RInv, Frame, UNCHANGED matchVars,
           at \in {"global", "pre", "post"}, NEW o \in Outcomes,
           NEW n \in Names, ran' = Append(ran, n), res' = Answers(o),
           NEW next, NEW k \in Nat \ {0},
           IF hasResponse(res') THEN Done ELSE Continue(next, k),
           \/ next = "global" /\ at = "global"
           \/ next \in Serving /\ at \in Serving
    PROVE  Plain
<1>1. res \in Responses /\ res.status = 0
  BY DEF RInv, Shape, Searching
<1>2. res' \in Responses /\ res'.status \in {0, 200, 500} /\ SameHeaders
  BY <1>1, AnswerFacts DEF SameHeaders
<1>3. /\ UNCHANGED <<routes_, policy, req>>
      /\ UNCHANGED <<path_matched, params, route>>
  BY DEF Frame, setupVars, whoVars, matchVars
<1>4. Onwards /\ index' \in Nat \ {0}
  <2>1. CASE res'.status # 0
    BY <2>1 DEF hasResponse, Done, Continue, Onwards
  <2>2. CASE res'.status = 0
    <3>1. at' = next /\ index' = k
      BY <2>2 DEF hasResponse, Continue
    <3> QED BY <2>2, <3>1 DEF Onwards
  <2> QED BY <2>1, <2>2
<1>5. RanAnother
  BY DEF RanAnother
<1> QED BY <1>2, <1>3, <1>4, <1>5 DEF Plain

\* The steps of an HTTP request that run something or give up.
LEMMA HttpPlain ==
    ASSUME RInv,
           \/ \E o \in Outcomes : RunGlobal(o) \/ RunPre(o) \/ RunHandler(o) \/ RunPost(o)
           \/ ParseTarget \/ Unanswered
    PROVE  Plain
<1>0. Shape /\ Searching /\ index \in Nat \ {0} /\ index + 1 \in Nat \ {0} /\ res \in Responses
  BY DEF RInv, Shape
<1>1. ASSUME NEW o \in Outcomes, RunGlobal(o) PROVE Plain
  <2>1. /\ at = "global" /\ index <= Len(Globals) /\ Globals[index] # "cors"
        /\ ran' = Append(ran, Globals[index]) /\ res' = Answers(o)
        /\ IF hasResponse(res') THEN Done ELSE Continue("global", index + 1)
        /\ UNCHANGED matchVars /\ Frame
    BY <1>1 DEF RunGlobal, Answers
  <2>2. Globals[index] \in Names
    <3>1. Globals \in Seq(STRING) BY RouterAssumption
    <3>2. \A S : \A q \in Seq(S), k \in Nat \ {0} : k <= Len(q) => q[k] \in S OBVIOUS
    <3>3. Globals[index] \in STRING BY <1>0, <2>1, <3>1, <3>2
    <3> QED BY <2>1, <3>3 DEF Names
  <2> QED BY <1>0, <2>1, <2>2, RunPlain
<1>2. ASSUME NEW o \in Outcomes, RunPre(o) PROVE Plain
  <2>1. /\ at = "pre" /\ index <= Len(pre_middlewares)
        /\ ran' = Append(ran, pre_middlewares[index].name) /\ res' = Answers(o)
        /\ IF hasResponse(res') THEN Done ELSE Continue("pre", index + 1)
        /\ UNCHANGED matchVars /\ Frame
    BY <1>2 DEF RunPre, RunStep, Answers
  <2>2. pre_middlewares[index].name \in Names
    <3>1. Len(pre_middlewares) \in Nat
      BY <1>0, <2>1, RouteTypes DEF Shape, Serving, pre_middlewares
    <3>2. index \in 1 .. Len(pre_middlewares) BY <1>0, <2>1, <3>1
    <3> QED BY <1>0, <2>1, <3>2, HandlerNames DEF Serving
  <2> QED BY <1>0, <2>1, <2>2, RunPlain DEF Serving
<1>3. ASSUME NEW o \in Outcomes, RunHandler(o) PROVE Plain
  <2>1. /\ at = "pre" /\ ran' = Append(ran, routes_[route].handler) /\ res' = Answers(o)
        /\ IF hasResponse(res') THEN Done ELSE Continue("post", 1)
        /\ UNCHANGED matchVars /\ Frame
    BY <1>3 DEF RunHandler, RunStep, Answers
  <2>2. routes_[route].handler \in Names
    BY <1>0, <2>1, HandlerNames DEF Serving
  <2> QED BY <1>0, <2>1, <2>2, RunPlain DEF Serving
<1>4. ASSUME NEW o \in Outcomes, RunPost(o) PROVE Plain
  <2>1. /\ at = "post" /\ index <= Len(post_middlewares)
        /\ ran' = Append(ran, post_middlewares[index].name) /\ res' = Answers(o)
        /\ IF hasResponse(res') THEN Done ELSE Continue("post", index + 1)
        /\ UNCHANGED matchVars /\ Frame
    BY <1>4 DEF RunPost, RunStep, Answers
  <2>2. post_middlewares[index].name \in Names
    <3>1. Len(post_middlewares) \in Nat
      BY <1>0, <2>1, RouteTypes DEF Shape, Serving, post_middlewares
    <3>2. index \in 1 .. Len(post_middlewares) BY <1>0, <2>1, <3>1
    <3> QED BY <1>0, <2>1, <3>2, HandlerNames DEF Serving
  <2> QED BY <1>0, <2>1, <2>2, RunPlain DEF Serving
<1>5. CASE ParseTarget \/ Unanswered
  <2>1. /\ UNCHANGED <<routes_, policy, req, path_matched, params, route, ran>>
        /\ at \in {"global", "post"} /\ index' = 1
        /\ \/ res' = send(res, 500) /\ at' = "done"
           \/ res' = res /\ at = "global" /\ at' = "match" /\ req.target # NoTarget
    BY <1>5 DEF ParseTarget, Unanswered, Frame, setupVars, whoVars, matchVars, Continue, Done,
                error500
  <2>2. res' \in Responses /\ res'.status \in {0, 500} /\ SameHeaders
    BY <1>0, <2>1, SendFacts, SMTT(30) DEF Searching, SameHeaders
  <2>3. Onwards
    BY <1>0, <2>1 DEF Onwards, Searching
  <2> QED BY <2>1, <2>2, <2>3 DEF Plain, RanAnother
<1> QED BY <1>1, <1>2, <1>3, <1>4, <1>5

\* The steps of an upgrade that run something or give up.
LEMMA WsPlain ==
    ASSUME RInv,
           \/ WsParse \/ WsOpened
           \/ \E next \in {"ws_open", "done"} : Handshake(next)
           \/ \E o \in {"true", "false", "reject", "throw"} :
                 RunWsPre(o) \/ RunWsHandler(o) \/ RunWsPost(o)
    PROVE  Plain
<1>0. Shape /\ Searching /\ index \in Nat \ {0} /\ index + 1 \in Nat \ {0} /\ res \in Responses
  BY DEF RInv, Shape
<1>1. CASE WsParse
  <2>1. /\ UNCHANGED <<routes_, policy, req, path_matched, params, route, ran>>
        /\ at = "ws_parse" /\ index' = 1
        /\ \/ res' = send(res, 500) /\ at' = "done"
           \/ res' = res /\ at' = "ws_match" /\ req.target # NoTarget
    BY <1>1 DEF WsParse, Frame, setupVars, whoVars, matchVars, Continue, Done, error500
  <2>2. res' \in Responses /\ res'.status \in {0, 500} /\ SameHeaders
    BY <1>0, <2>1, SendFacts DEF Searching, SameHeaders
  <2>3. Onwards
    BY <1>0, <2>1 DEF Onwards, Searching
  <2> QED BY <2>1, <2>2, <2>3 DEF Plain, RanAnother
<1>2. CASE WsOpened \/ \E next \in {"ws_open", "done"} : Handshake(next)
  <2>1. /\ UNCHANGED <<routes_, policy, req, path_matched, params, route, ran, res>>
        /\ at \in {"ws_pre", "ws_post"} /\ index' = 1 /\ at' \in {"ws_open", "done"}
    BY <1>2 DEF WsOpened, Handshake, Frame, setupVars, whoVars, matchVars, Continue, Done
  <2>2. res'.status = 0 /\ SameHeaders
    BY <1>0, <2>1 DEF Searching, SameHeaders
  <2>3. Onwards
    BY <2>1, <2>2 DEF Onwards, Serving
  <2> QED BY <1>0, <2>1, <2>2, <2>3 DEF Plain, RanAnother
<1>3. ASSUME NEW o \in {"true", "false", "reject", "throw"}, RunWsPre(o) PROVE Plain
  <2>1. /\ UNCHANGED <<routes_, policy, req, path_matched, params, route>>
        /\ at = "ws_pre" /\ index <= Len(pre_middlewares)
        /\ ran' = Append(ran, pre_middlewares[index].name)
        /\ index' \in {1, index + 1}
    BY <1>3 DEF RunWsPre, Frame, setupVars, whoVars, matchVars, Continue, Done
  <2>2. \/ res' = res /\ at' = "ws_pre"
        \/ at' = "done" /\ \E n \in {403, 401, 500} : res' = send(res, n)
    BY <1>3 DEF RunWsPre, Continue, Done, error500
  <2>3. pre_middlewares[index].name \in Names
    <3>1. Len(pre_middlewares) \in Nat
      BY <1>0, <2>1, RouteTypes DEF Shape, Serving, pre_middlewares
    <3>2. index \in 1 .. Len(pre_middlewares) BY <1>0, <2>1, <3>1
    <3> QED BY <1>0, <2>1, <3>2, HandlerNames DEF Serving
  <2>4. res' \in Responses /\ res'.status \in {0, 401, 403, 500} /\ SameHeaders
    <3>1. CASE res' = res BY <1>0, <2>1, <3>1 DEF Searching, SameHeaders
    <3>2. ASSUME NEW n \in {403, 401, 500}, res' = send(res, n)
          PROVE  res' \in Responses /\ res'.status = n /\ SameHeaders
      BY <1>0, <3>2, SendFacts DEF SameHeaders
    <3> QED BY <2>2, <3>1, <3>2
  <2>5. Onwards
    BY <1>0, <2>1, <2>2 DEF Onwards, Searching, Serving
  <2> QED BY <1>0, <2>1, <2>3, <2>4, <2>5 DEF Plain, RanAnother
<1>4. ASSUME NEW o, RunWsHandler(o) \/ RunWsPost(o) PROVE Plain
  <2>1. /\ UNCHANGED <<routes_, policy, req, path_matched, params, route, res>>
        /\ at \in {"ws_open", "ws_post"} /\ at' \in {"ws_post", "done", "closed"}
        /\ index' \in {1, index + 1}
    BY <1>4 DEF RunWsHandler, RunWsPost, Frame, setupVars, whoVars, matchVars, Continue, Done
  <2>2. RanAnother
    <3>1. CASE RunWsHandler(o)
      BY <1>0, <3>1, HandlerNames DEF RunWsHandler, RanAnother, Serving
    <3>2. CASE RunWsPost(o)
      <4>1. at = "ws_post" /\ index <= Len(post_middlewares)
            /\ ran' = Append(ran, post_middlewares[index].name)
        BY <3>2 DEF RunWsPost
      <4>2. Len(post_middlewares) \in Nat
        BY <1>0, <4>1, RouteTypes DEF Shape, Serving, post_middlewares
      <4>3. index \in 1 .. Len(post_middlewares) BY <1>0, <4>1, <4>2
      <4>4. post_middlewares[index].name \in Names
        BY <1>0, <4>1, <4>3, HandlerNames DEF Serving
      <4> QED BY <4>1, <4>4 DEF RanAnother
    <3> QED BY <1>4, <3>1, <3>2
  <2>3. res'.status = 0 /\ SameHeaders
    BY <1>0, <2>1 DEF Searching, SameHeaders
  <2>4. Onwards
    BY <2>1, <2>3 DEF Onwards, Serving
  <2> QED BY <1>0, <2>1, <2>2, <2>3, <2>4 DEF Plain
<1> QED BY <1>1, <1>2, <1>3, <1>4

\* route() and upgrade() look at the next route.
LEMMA TryKeeps ==
    ASSUME RInv, req \in Requests, TryRoute \/ WsTryRoute
    PROVE  RInv'
<1>0. /\ Shape /\ Searching /\ RightRoute
      /\ routes_ \in Tables /\ index \in Nat \ {0} /\ res \in Responses
      /\ Len(routes_) \in Nat
  BY RouteTypes DEF RInv, Shape
<1> DEFINE r == routes_[index]
<1>1. /\ UNCHANGED <<routes_, policy, req, res, ran>>
      /\ at \in {"match", "ws_match"} /\ index \in 1 .. Len(routes_)
      /\ (at = "match" <=> TryRoute) /\ (at = "ws_match" <=> WsTryRoute)
  BY <1>0 DEF TryRoute, WsTryRoute, Frame, setupVars, whoVars
<1>2. /\ route = 0 /\ res.status = 0 /\ res'.status = 0
      /\ req.target # NoTarget
  BY <1>0, <1>1 DEF Searching
<1>3. CorsHeaders'
  BY <1>1, CorsKept DEF SameHeaders, RanAnother
<1>4. \A k : Knows(k)' = Knows(k) /\ Fits(k)' = Fits(k)
  BY <1>1, FitsKept
<1>5. req.upgrade \in BOOLEAN
  BY RouterAssumption
<1>6. CASE TryRoute
  <2>1. ~req.upgrade /\ \A k \in 1 .. Len(routes_) : k < index => ~Fits(k)
    BY <1>0, <1>1, <1>6 DEF Searching
  <2> DEFINE tried == ~isWebSocket(r) /\ pathMatch(r, req.target)
  <2>2. /\ Knows(index) <=> tried
        /\ Fits(index) <=> tried /\ req.method \in r.methods
    BY <1>5, <2>1 DEF Knows, Fits, isWebSocket
  <2>3. /\ params' = IF isWebSocket(r) THEN params ELSE matched(r, req.target)
        /\ path_matched' = (path_matched \/ tried)
        /\ IF tried /\ req.method \in r.methods
           THEN route' = index /\ at' = "pre" /\ index' = 1
           ELSE route' = route /\ at' = "match" /\ index' = index + 1
    BY <1>6, Zenon DEF TryRoute, Continue
  <2> HIDE DEF tried
  <2>4. CASE Fits(index)
    <3>1. route' = index /\ at' = "pre" /\ index' = 1
      BY <2>2, <2>3, <2>4
    <3>2. params' = captures(r, req.target)
      <4>1. params' = matched(r, req.target)
        BY <2>2, <2>3, <2>4, Zenon DEF tried
      <4> QED BY <2>2, <2>4, <4>1, Zenon DEF matched, tried
    <3>3. RightRoute'
      <4>1. Fits(route)'
        BY <1>1, <2>4, <3>1 DEF Fits, Knows, isWebSocket, pathMatch
      <4>2. \A k \in 1 .. route' - 1 : ~Fits(k)'
        <5>1. \A k \in 1 .. index - 1 : k \in 1 .. Len(routes_) /\ k < index
          BY <1>0, <1>1
        <5> QED BY <1>4, <2>1, <3>1, <5>1
      <4> QED BY <1>1, <1>2, <3>1, <3>2, <4>1, <4>2 DEF RightRoute
    <3>4. Shape'
      BY <1>0, <1>1, <3>1 DEF Shape
    <3>5. Searching'
      BY <1>2, <3>1 DEF Searching
    <3> QED BY <1>3, <3>3, <3>4, <3>5 DEF RInv
  <2>5. CASE ~Fits(index)
    <3>1. route' = 0 /\ at' = "match" /\ index' = index + 1
      BY <1>2, <2>2, <2>3, <2>5
    <3>2. RightRoute'
      BY <1>2, <3>1 DEF RightRoute
    <3>3. Shape'
      BY <1>0, <1>1, <3>1 DEF Shape, Serving
    <3>4. \A k \in 1 .. Len(routes_) : k < index + 1 <=> k < index \/ k = index
      BY <1>0
    <3>5. \A k \in 1 .. Len(routes_') : k < index' => ~Fits(k)'
      BY <1>1, <1>4, <2>1, <2>5, <3>1, <3>4
    <3>6. path_matched' <=> \E k \in 1 .. Len(routes_') : k < index' /\ Knows(k)'
      <4>1. path_matched <=> \E k \in 1 .. Len(routes_) : k < index /\ Knows(k)
        BY <1>0, <1>1, <1>6, Zenon DEF Searching
      <4>2. path_matched' <=> path_matched \/ Knows(index)
        BY <2>2, <2>3, Zenon
      <4>3. (\E k \in 1 .. Len(routes_) : k < index + 1 /\ Knows(k))
                <=> (\E k \in 1 .. Len(routes_) : k < index /\ Knows(k)) \/ Knows(index)
        BY <1>1, <3>4
      <4>4. (\E k \in 1 .. Len(routes_') : k < index' /\ Knows(k)')
                <=> (\E k \in 1 .. Len(routes_) : k < index + 1 /\ Knows(k))
        BY <1>1, <1>4, <3>1
      <4> QED BY <4>1, <4>2, <4>3, <4>4, Zenon
    <3>7. Searching'
      BY <1>1, <1>2, <2>1, <3>1, <3>5, <3>6, Zenon DEF Searching
    <3> QED BY <1>3, <3>2, <3>3, <3>7 DEF RInv
  <2> QED BY <2>4, <2>5
<1>7. CASE WsTryRoute
  <2>1. req.upgrade /\ \A k \in 1 .. Len(routes_) : k < index => ~Knows(k)
    BY <1>0, <1>1, <1>7 DEF Searching
  <2>2. Knows(index) <=> isWebSocket(r) /\ pathMatch(r, req.target)
    BY <1>5, <2>1 DEF Knows, isWebSocket
  <2>3. \A k : Fits(k) <=> Knows(k)
    BY <2>1 DEF Fits
  <2>4. CASE Knows(index)
    <3>1. route' = index /\ at' = "ws_pre" /\ index' = 1 /\ params' = captures(r, req.target)
      BY <1>7, <2>2, <2>4, Zenon DEF WsTryRoute, Continue, matched
    <3>2. RightRoute'
      <4>1. Fits(route)'
        BY <1>1, <2>3, <2>4, <3>1 DEF Fits, Knows, isWebSocket, pathMatch
      <4>2. \A k \in 1 .. route' - 1 : ~Fits(k)'
        <5>1. \A k \in 1 .. index - 1 : k \in 1 .. Len(routes_) /\ k < index
          BY <1>0, <1>1
        <5> QED BY <1>4, <2>1, <2>3, <3>1, <5>1
      <4> QED BY <1>1, <1>2, <3>1, <4>1, <4>2 DEF RightRoute
    <3>3. Shape'
      BY <1>0, <1>1, <3>1 DEF Shape
    <3>4. Searching'
      BY <1>2, <3>1 DEF Searching
    <3> QED BY <1>3, <3>2, <3>3, <3>4 DEF RInv
  <2>5. CASE ~Knows(index)
    <3>1. route' = 0 /\ at' = "ws_match" /\ index' = index + 1 /\ path_matched' = path_matched
      BY <1>2, <1>7, <2>2, <2>5, Zenon DEF WsTryRoute, Continue
    <3>2. RightRoute'
      BY <1>2, <3>1 DEF RightRoute
    <3>3. Shape'
      BY <1>0, <1>1, <3>1 DEF Shape, Serving
    <3>4. \A k \in 1 .. Len(routes_) : k < index + 1 <=> k < index \/ k = index
      BY <1>0
    <3>5. \A k \in 1 .. Len(routes_') : k < index' => ~Knows(k)'
      BY <1>1, <1>4, <2>1, <2>5, <3>1, <3>4
    <3>6. Searching'
      BY <1>1, <1>2, <2>1, <3>1, <3>5, Zenon DEF Searching
    <3> QED BY <1>3, <3>2, <3>3, <3>6 DEF RInv
  <2> QED BY <2>4, <2>5
<1> QED BY <1>6, <1>7

\* No route: 404 or 405, or what the replaced handler makes of it.
LEMMA NoRouteKeeps ==
    ASSUME RInv, NEW o \in Outcomes, NoRoute(o) \/ WsNoRoute(o)
    PROVE  RInv'
<1>0. /\ Shape /\ Searching /\ RightRoute
      /\ routes_ \in Tables /\ index \in Nat \ {0} /\ res \in Responses
      /\ Len(routes_) \in Nat /\ DOMAIN routes_ = 1 .. Len(routes_)
  BY RouteTypes DEF RInv, Shape
<1>1. /\ UNCHANGED <<routes_, policy, req, ran, path_matched, params, route>>
      /\ at \in {"match", "ws_match"} /\ index > Len(routes_)
      /\ at' \in {"done", "escaped"} /\ index' = 1
  BY DEF NoRoute, WsNoRoute, Frame, setupVars, whoVars, matchVars, Continue, Done
<1>2. \A k \in DOMAIN routes_ : k < index
  BY <1>0, <1>1
<1>3. /\ res' \in Responses /\ SameHeaders
      /\ \/ res'.status = 0
         \/ res'.status = 405 /\ at = "match" /\ path_matched
         \/ res'.status = 404 /\ at = "match" /\ ~path_matched
         \/ res'.status = 404 /\ at = "ws_match"
  <2>1. \/ res' = res
        \/ res' = send(res, 405) /\ at = "match" /\ path_matched
        \/ res' = send(res, 404) /\ at = "match" /\ ~path_matched
        \/ res' = send(res, 404) /\ at = "ws_match"
    BY Zenon DEF NoRoute, WsNoRoute
  <2>2. res.status = 0
    BY <1>0, <1>1 DEF Searching
  <2>3. ASSUME NEW n \in {404, 405}, res' = send(res, n)
        PROVE  res' \in Responses /\ SameHeaders /\ res'.status = n
    <3> QED BY <1>0, <2>3 DEF SameHeaders, send, Responses
  <2>4. CASE res' = res BY <1>0, <2>2, <2>4 DEF SameHeaders
  <2>5. CASE res' = send(res, 405) /\ at = "match" /\ path_matched BY <2>3, <2>5
  <2>6. CASE res' = send(res, 404) /\ at = "match" /\ ~path_matched BY <2>3, <2>6
  <2>7. CASE res' = send(res, 404) /\ at = "ws_match" BY <2>3, <2>7
  <2> QED BY <2>1, <2>4, <2>5, <2>6, <2>7
<1>4. CorsHeaders'
  BY <1>1, <1>3, CorsKept DEF RanAnother
<1>5. Shape'
  BY <1>0, <1>1, <1>3 DEF Shape, Serving
<1>6. Searching'
  BY <1>1 DEF Searching
<1>7. RightRoute'
  <2>1. \A k : Knows(k)' = Knows(k) /\ Fits(k)' = Fits(k)
    BY <1>1, FitsKept
  <2>2. route' = 0
    BY <1>0, <1>1 DEF Searching
  <2>3. ASSUME res'.status = 405
        PROVE  (\E k \in DOMAIN routes_ : Knows(k)) /\ \A k \in DOMAIN routes_ : ~Fits(k)
    <3>1. at = "match" /\ path_matched BY <1>3, <2>3
    <3>2. /\ \A k \in 1 .. Len(routes_) : k < index => ~Fits(k)
          /\ \E k \in 1 .. Len(routes_) : k < index /\ Knows(k)
      BY <1>0, <3>1, Zenon DEF Searching
    <3> QED BY <1>0, <1>2, <3>2
  <2>4. ASSUME res'.status = 404 PROVE \A k \in DOMAIN routes_ : ~Knows(k)
    <3>1. CASE at = "match" /\ ~path_matched
      <4>1. ~\E k \in 1 .. Len(routes_) : k < index /\ Knows(k)
        BY <1>0, <3>1, Zenon DEF Searching
      <4> QED BY <1>0, <1>2, <4>1
    <3>2. CASE at = "ws_match"
      <4>1. \A k \in 1 .. Len(routes_) : k < index => ~Knows(k)
        BY <1>0, <3>2, Zenon DEF Searching
      <4> QED BY <1>0, <1>2, <4>1
    <3> QED BY <1>3, <2>4, <3>1, <3>2
  <2> QED BY <1>1, <2>1, <2>2, <2>3, <2>4 DEF RightRoute
<1> QED BY <1>4, <1>5, <1>6, <1>7 DEF RInv

\* What the CORS middleware does to a response.
LEMMA CorsResult ==
    ASSUME Shape, NEW r \in Responses, r.status = 0,
           r.allow_origin = "none" \/ (r.allow_origin # "none") = AllowedOrigin,
           r.credentials => r.allow_origin = "origin"
    PROVE  LET a == cors(policy, req, r) IN
           /\ a \in Responses
           /\ (a.allow_origin # "none") = AllowedOrigin
           /\ a.credentials => a.allow_origin = "origin"
           /\ varies(policy) => a.vary # "none"
           /\ Preflighted => a.status = IF AllowedOrigin THEN 204 ELSE 403
           /\ ~Preflighted => a.status = 0
<1> DEFINE a == cors(policy, req, r)
           base == varied(policy, r)
           open == allowed(policy, base)
<1>0. policy.any_origin \in BOOLEAN /\ policy.exposed \in BOOLEAN /\ policy.credentials \in BOOLEAN
  BY DEF Shape
<1>1. /\ base \in Responses /\ base.status = 0 /\ base.allow_origin = r.allow_origin
      /\ base.credentials = r.credentials
      /\ varies(policy) => base.vary # "none"
  BY DEF varied, Responses
<1>2. /\ open \in Responses /\ open.status = 0 /\ open.vary = base.vary
      /\ open.allow_origin # "none"
      /\ open.credentials => open.allow_origin = "origin"
  <2>1. open.allow_origin = (IF varies(policy) THEN "origin" ELSE "*")
        /\ open.credentials = policy.credentials
    BY <1>1 DEF allowed, Responses
  <2>2. policy.credentials => varies(policy)
    BY DEF varies
  <2>3. open \in Responses /\ open.status = 0 /\ open.vary = base.vary
    BY <1>0, <1>1 DEF allowed, Responses
  <2> QED BY <2>1, <2>2, <2>3
<1>3. a = IF req.origin = NoOrigin THEN base
          ELSE IF ~allows(policy, req.origin)
               THEN IF isPreflight(req) THEN send(base, 403) ELSE base
          ELSE IF ~isPreflight(req)
               THEN [open EXCEPT !.expose = policy.exposed]
          ELSE send([open EXCEPT !.preflight = TRUE, !.vary = "all"], 204)
  BY DEF cors
<1> HIDE DEF a, base, open
<1>4. CASE ~AllowedOrigin
  <2>1. \/ a = base /\ ~Preflighted
        \/ a = send(base, 403) /\ Preflighted
    BY <1>3, <1>4, Zenon DEF AllowedOrigin, Preflighted
  <2>2. /\ base.allow_origin = "none"
        /\ ~base.credentials
    BY <1>1, <1>4
  <2>3. /\ a \in Responses /\ a.allow_origin = "none" /\ ~a.credentials
        /\ a.vary = base.vary
        /\ Preflighted => a.status = 403
        /\ ~Preflighted => a.status = 0
    <3>1. CASE a = base /\ ~Preflighted
      BY <1>1, <2>2, <3>1, Zenon
    <3>2. CASE a = send(base, 403) /\ Preflighted
      <4>1. /\ a \in Responses /\ a.status = 403 /\ a.allow_origin = base.allow_origin
            /\ a.credentials = base.credentials /\ a.vary = base.vary
        BY <1>1, <3>2 DEF send, Responses
      <4>2. a.allow_origin = "none" /\ ~a.credentials
        BY <2>2, <4>1
      <4> QED BY <3>2, <4>1, <4>2
    <3> QED BY <2>1, <3>1, <3>2
  <2>4. (a.allow_origin # "none") = AllowedOrigin
    BY <1>4, <2>3 DEF AllowedOrigin
  <2> QED BY <1>1, <1>4, <2>3, <2>4, Zenon DEF a
<1>5. CASE AllowedOrigin
  <2>1. \/ a = [open EXCEPT !.expose = policy.exposed] /\ ~Preflighted
        \/ a = send([open EXCEPT !.preflight = TRUE, !.vary = "all"], 204) /\ Preflighted
    BY <1>3, <1>5, Zenon DEF AllowedOrigin, Preflighted
  <2>2. CASE a = [open EXCEPT !.expose = policy.exposed] /\ ~Preflighted
    <3>1. /\ a \in Responses /\ a.status = 0 /\ a.vary = open.vary
          /\ a.allow_origin = open.allow_origin /\ a.credentials = open.credentials
      BY <1>0, <1>2, <2>2 DEF Responses
    <3> QED BY <1>1, <1>2, <1>5, <2>2, <3>1 DEF a
  <2>3. CASE a = send([open EXCEPT !.preflight = TRUE, !.vary = "all"], 204) /\ Preflighted
    <3> DEFINE q == [open EXCEPT !.preflight = TRUE, !.vary = "all"]
    <3>1. /\ q \in Responses /\ q.vary = "all"
          /\ q.allow_origin = open.allow_origin /\ q.credentials = open.credentials
      BY <1>2 DEF Responses
    <3>2. a = send(q, 204) BY <2>3
    <3> HIDE DEF q
    <3>3. /\ a \in Responses /\ a.status = 204 /\ a.vary = "all"
          /\ a.allow_origin = open.allow_origin /\ a.credentials = open.credentials
      BY <3>1, <3>2, SendFacts
    <3> QED BY <1>2, <1>5, <2>3, <3>3 DEF a
  <2> QED BY <2>1, <2>2, <2>3
<1> QED BY <1>4, <1>5 DEF a

\* The CORS middleware itself, also when it was registered twice.
LEMMA RunCorsKeeps ==
    ASSUME RInv, RunCors
    PROVE  RInv'
<1>0. /\ Shape /\ Searching /\ CorsHeaders /\ index \in Nat \ {0} /\ res \in Responses
      /\ ran \in Seq(STRING)
  BY DEF RInv, Shape
<1>1. /\ at = "global" /\ ran' = Append(ran, "cors") /\ res' = cors(policy, req, res)
      /\ IF hasResponse(res') THEN Done ELSE Continue("global", index + 1)
      /\ UNCHANGED <<routes_, policy, req>> /\ UNCHANGED <<path_matched, params, route>>
  BY DEF RunCors, Frame, setupVars, whoVars, matchVars
<1>2. res.status = 0
  BY <1>0, <1>1 DEF Searching
<1>3. /\ res.allow_origin = "none" \/ (res.allow_origin # "none") = AllowedOrigin
      /\ res.credentials => res.allow_origin = "origin"
  BY <1>0, Zenon DEF CorsHeaders, CorsFacts
<1>4. /\ res' \in Responses
      /\ (res'.allow_origin # "none") = AllowedOrigin
      /\ res'.credentials => res'.allow_origin = "origin"
      /\ varies(policy) => res'.vary # "none"
      /\ Preflighted => res'.status = IF AllowedOrigin THEN 204 ELSE 403
      /\ ~Preflighted => res'.status = 0
  <2> DEFINE a == cors(policy, req, res)
  <2>1. /\ a \in Responses
        /\ (a.allow_origin # "none") = AllowedOrigin
        /\ a.credentials => a.allow_origin = "origin"
        /\ varies(policy) => a.vary # "none"
        /\ Preflighted => a.status = IF AllowedOrigin THEN 204 ELSE 403
        /\ ~Preflighted => a.status = 0
    BY <1>0, <1>2, <1>3, CorsResult
  <2>2. res' = a BY <1>1
  <2> HIDE DEF a
  <2> QED BY <2>1, <2>2, Zenon
<1>5. ran' \in Seq(STRING) /\ "cors" \in Range(ran') /\ Last(ran') = "cors"
  <2>1. "cors" \in STRING
    <3>1. index <= Len(Globals) /\ Globals[index] = "cors" BY DEF RunCors
    <3>2. Globals \in Seq(STRING) BY RouterAssumption
    <3>3. \A S : \A q \in Seq(S), k \in Nat \ {0} : k <= Len(q) => q[k] \in S OBVIOUS
    <3>4. Globals[index] \in STRING BY <1>0, <3>1, <3>2, <3>3
    <3> QED BY <3>1, <3>4
  <2>2. /\ Append(ran, "cors") \in Seq(STRING) /\ Last(Append(ran, "cors")) = "cors"
        /\ Range(Append(ran, "cors")) = Range(ran) \cup {"cors"}
    BY <1>0, <2>1, RanFacts
  <2> QED BY <1>1, <2>2
<1>6. res'.status \in {0, 204, 403}
  BY <1>4
<1>7. /\ index' \in Nat \ {0}
      /\ \/ at' = "done"
         \/ at' = "global" /\ res'.status = 0
      /\ res'.status # 0 => at' = "done"
  BY <1>0, <1>1 DEF hasResponse, Done, Continue
<1>8. CorsHeaders'
  <2>1. /\ Preflighted' = Preflighted /\ AllowedOrigin' = AllowedOrigin
        /\ varies(policy)' = varies(policy)
    BY <1>1 DEF Preflighted, AllowedOrigin, isPreflight, allows, isSubdomain, varies
  <2>2. Preflighted => at' = "done"
    BY <1>4, <1>7
  <2> QED BY <1>4, <1>5, <2>1, <2>2, Zenon DEF CorsHeaders, CorsFacts
<1>9. RightRoute'
  BY <1>1, <1>6, RightKept
<1>10. Shape'
  BY <1>0, <1>1, <1>4, <1>5, <1>7 DEF Shape, Serving
<1>11. Searching'
  <2>1. route' = 0 /\ path_matched' = FALSE /\ ~req'.upgrade
    BY <1>0, <1>1, Zenon DEF Searching
  <2> QED BY <1>7, <2>1, Zenon DEF Searching
<1> QED BY <1>8, <1>9, <1>10, <1>11 DEF RInv

\* No request yet, or no step of it
Fresh ==
    /\ res = NewResponse /\ route = 0 /\ path_matched = FALSE /\ ran = <<>>
    /\ index = 1

\* Between two requests, and before the first.
LEMMA FreshInv ==
    ASSUME Fresh, routes_ \in Tables,
           policy.any_origin \in BOOLEAN /\ policy.exposed \in BOOLEAN /\ policy.credentials \in BOOLEAN,
           \/ at = "free"
           \/ at = "global" /\ ~req.upgrade
           \/ at = "ws_parse" /\ req.upgrade
    PROVE  RInv
<1>1. res \in Responses /\ res.status = 0 /\ res.allow_origin = "none" /\ res.credentials = FALSE
  BY DEF Fresh, NewResponse, Responses
<1>2. Len(routes_) \in Nat
  BY RouteTypes
<1>3. "cors" \notin Range(ran)
  BY DEF Fresh, Range
<1>4. Shape
  BY <1>1, <1>2 DEF Shape, Fresh, Serving
<1>5. Searching
  BY <1>1, Zenon DEF Searching, Fresh
<1>6. RightRoute
  BY <1>1 DEF RightRoute, Fresh
<1>7. CorsHeaders
  BY <1>1, <1>3, Zenon DEF CorsHeaders
<1> QED BY <1>4, <1>5, <1>6, <1>7 DEF RInv

\* After setup.
LEMMA RInvInit == Init => RInv
<1> SUFFICES ASSUME Init PROVE RInv
  OBVIOUS
<1>1. PICK o \in Options : policy = compile(o)
  BY DEF Init
<1>2. policy.any_origin \in BOOLEAN /\ policy.exposed \in BOOLEAN /\ policy.credentials \in BOOLEAN
  BY <1>1, RouterAssumption DEF compile
<1>3. Fresh /\ routes_ \in Tables /\ at = "free"
  BY DEF Init, Fresh
<1> QED BY <1>2, <1>3, FreshInv

\* setTrustedProxies() and stuttering: nothing of the request changes.
LEMMA SameKeeps ==
    ASSUME RInv,
           UNCHANGED <<routes_, policy, at, index, req, res, path_matched, params, route, ran>>
    PROVE  RInv'
<1>1. \A k : Knows(k)' = Knows(k) /\ Fits(k)' = Fits(k)
  BY FitsKept
<1>2. Shape'
  BY DEF RInv, Shape
<1>3. Searching'
  BY <1>1, Zenon DEF RInv, Searching, Knows, Fits, isWebSocket, pathMatch
<1>4. RightRoute'
  BY RightKept
<1>5. CorsHeaders'
  <2>1. /\ Preflighted' = Preflighted /\ AllowedOrigin' = AllowedOrigin
        /\ varies(policy)' = varies(policy)
    BY DEF Preflighted, AllowedOrigin, isPreflight, allows, isSubdomain, varies
  <2> QED BY <2>1, Zenon DEF RInv, CorsHeaders, CorsFacts
<1> QED BY <1>2, <1>3, <1>4, <1>5 DEF RInv

\* Every step keeps the invariant.
LEMMA RInvNext == IInv /\ RInv /\ [Next]_vars => RInv'
<1> SUFFICES ASSUME IInv, RInv, [Next]_vars PROVE RInv'
  OBVIOUS
<1>0. Shape /\ Searching
  BY DEF RInv
<1>1. CASE Updater
  <2>1. UNCHANGED <<routes_, policy, at, index, req, res, path_matched, params, route, ran>>
    BY <1>1, Zenon DEF Updater, SetTrustedProxies, AddProxy, AddProxyThrows, PublishProxies,
                UpdaterFrame, setupVars, whoVars, matchVars
  <2> QED BY <2>1, SameKeeps
<1>2. ASSUME NEW r \in Requests, Enter(r) PROVE RInv'
  <2>1. /\ at = "free" /\ req' = r /\ index' = 1
        /\ at' = IF r.upgrade THEN "ws_parse" ELSE "global"
        /\ UNCHANGED <<routes_, policy, res>> /\ UNCHANGED <<path_matched, params, route, ran>>
    BY <1>2, Zenon DEF Enter, Continue, setupVars, matchVars
  <2>2. route = 0 /\ path_matched = FALSE /\ ran = <<>> /\ res.status = 0
    BY <1>0, <2>1, Zenon DEF Searching
  <2>3. \/ at' = "global" /\ ~req'.upgrade
        \/ at' = "ws_parse" /\ req'.upgrade
    BY <2>1
  <2>4. Shape'
    BY <1>0, <2>1, <2>3 DEF Shape, Serving
  <2>5. Searching'
    BY <2>1, <2>2, <2>3, Zenon DEF Searching
  <2>6. RightRoute'
    BY <2>1, <2>2 DEF RightRoute
  <2>7. CorsHeaders'
    <3>1. "cors" \notin Range(ran)
      BY <2>2 DEF Range
    <3> QED BY <2>1, <3>1, Zenon DEF RInv, CorsHeaders
  <2> QED BY <2>4, <2>5, <2>6, <2>7 DEF RInv
<1>3. CASE Handling
  <2>1. req \in Requests
    BY <1>3, HandlingFrame DEF IInv, Resolved
  <2>2. CASE TryRoute \/ WsTryRoute
    BY <2>1, <2>2, TryKeeps
  <2>3. ASSUME NEW o \in Outcomes, NoRoute(o) \/ WsNoRoute(o) PROVE RInv'
    BY <2>3, NoRouteKeeps
  <2>4. CASE RunCors
    BY <2>4, RunCorsKeeps
  <2>5. CASE \/ \E o \in Outcomes : RunGlobal(o) \/ RunPre(o) \/ RunHandler(o) \/ RunPost(o)
             \/ ParseTarget \/ Unanswered
    BY <2>5, HttpPlain, PlainKeeps
  <2>6. CASE \/ WsParse \/ WsOpened
             \/ \E next \in {"ws_open", "done"} : Handshake(next)
             \/ \E o \in {"true", "false", "reject", "throw"} :
                   RunWsPre(o) \/ RunWsHandler(o) \/ RunWsPost(o)
    BY <2>6, WsPlain, PlainKeeps
  <2> QED BY <1>3, <2>2, <2>3, <2>4, <2>5, <2>6, Zenon DEF Handling
<1>4. CASE Leave
  <2>1. /\ at' = "free" /\ Fresh' /\ UNCHANGED <<routes_, policy>>
    BY <1>4, Zenon DEF Leave, Continue, Fresh, setupVars
  <2>2. Shape'
    <3>1. res' \in Responses
      BY <2>1 DEF Fresh, NewResponse, Responses
    <3>2. Len(routes_) \in Nat
      BY <1>0, RouteTypes DEF Shape
    <3> QED BY <1>0, <2>1, <3>1, <3>2 DEF Shape, Fresh, Serving
  <2>3. res'.status = 0 /\ res'.allow_origin = "none" /\ res'.credentials = FALSE
    BY <2>1 DEF Fresh, NewResponse
  <2>4. Searching'
    BY <2>1, <2>3, Zenon DEF Searching, Fresh
  <2>5. RightRoute'
    BY <2>1, <2>3 DEF RightRoute, Fresh
  <2>6. CorsHeaders'
    <3>1. "cors" \notin Range(ran')
      BY <2>1 DEF Range, Fresh
    <3> QED BY <2>3, <3>1, Zenon DEF CorsHeaders
  <2> QED BY <2>2, <2>4, <2>5, <2>6 DEF RInv
<1>5. CASE UNCHANGED vars
  <2>1. UNCHANGED <<routes_, policy, at, index, req, res, path_matched, params, route, ran>>
    BY <1>5, Zenon DEF vars, setupVars, whoVars, matchVars
  <2> QED BY <2>1, SameKeeps
<1> QED BY <1>1, <1>2, <1>3, <1>4, <1>5 DEF Next

\* The first registered route that matches kind, path and method is served with its
\* own parameters, and 405 and 404 are given for what they mean (route(), upgrade()).
THEOREM RightRouteServed == Spec => []RightRoute
<1>1. RInv => RightRoute
  BY DEF RInv
<1> QED BY <1>1, IInvInit, IInvNext, RInvInit, RInvNext, PTL DEF Spec

\* A policy of "*" without credentials gives every origin the same answer.
LEMMA SameForAll ==
    ASSUME req \in Requests, ~varies(policy), NEW o, o # NoOrigin
    PROVE  AllowOrigin(o) = <<"*", NoOrigin>>
<1> DEFINE q == [req EXCEPT !.origin = o]
           a == cors(policy, q, NewResponse)
           open == allowed(policy, varied(policy, NewResponse))
<1>1. q.origin = o
  BY RouterAssumption
<1>2. policy.any_origin
  BY DEF varies
<1>3. allows(policy, o)
  BY <1>2 DEF allows
<1>4. open.allow_origin = "*" /\ "allow_origin" \in DOMAIN open
  BY DEF allowed, varied, NewResponse
<1>5. \/ a = [open EXCEPT !.expose = policy.exposed]
      \/ a = send([open EXCEPT !.preflight = TRUE, !.vary = "all"], 204)
  <2> HIDE DEF q
  <2> QED BY <1>1, <1>3 DEF cors
<1> HIDE DEF open
<1>6. a.allow_origin = "*"
  <2> HIDE DEF a
  <2> QED BY <1>4, <1>5 DEF send
<1> HIDE DEF a
<1>7. AllowOrigin(o) = <<a.allow_origin, IF a.allow_origin = "origin" THEN o ELSE NoOrigin>>
  BY Zenon DEF AllowOrigin, a
<1> QED BY <1>6, <1>7

\* Whoever answers, the headers are those of the request's origin; "*" never comes
\* with credentials, and answers that differ say so (cors(), HttpResponse::send()).
THEOREM CorsHeadersRight == Spec => []CorsAnswer
<1>1. IInv /\ RInv => CorsAnswer
  <2> SUFFICES ASSUME IInv, RInv, at = "done", "cors" \in Range(ran)
               PROVE  CorsAnswer
    BY Zenon DEF CorsAnswer
  <2>1. CorsFacts
    BY DEF RInv, CorsHeaders
  <2>2. req \in Requests
    BY DEF IInv, Resolved
  <2> DEFINE origins == {r.origin : r \in Requests} \ {NoOrigin}
  <2>3. ASSUME NEW o \in origins, NEW p \in origins, AllowOrigin(o) # AllowOrigin(p)
        PROVE  res.vary # "none"
    <3>1. CASE varies(policy) BY <2>1, <3>1 DEF CorsFacts
    <3>2. CASE ~varies(policy) BY <2>2, <2>3, <3>2, SameForAll
    <3> QED BY <3>1, <3>2
  <2> HIDE DEF origins
  <2>4. /\ (res.allow_origin # "none") = (req.origin # NoOrigin /\ allows(policy, req.origin))
        /\ res.credentials => res.allow_origin = "origin"
        /\ isPreflight(req) /\ req.origin # NoOrigin =>
               /\ res.status = IF req.origin # NoOrigin /\ allows(policy, req.origin) THEN 204 ELSE 403
               /\ Last(ran) = "cors"
    BY <2>1, Zenon DEF CorsFacts, Preflighted, AllowedOrigin
  <2> QED BY <2>3, <2>4, Zenon DEF CorsAnswer, origins
<1> QED BY <1>1, IInvInit, IInvNext, RInvInit, RInvNext, PTL DEF Spec

(***************************************************************************)
(* The order of handlers.  Around says what was declared around a handler; *)
(* that group() made it the middleware of the route is the hypothesis of   *)
(* the theorems below, which are about how requests run it.                *)
(***************************************************************************)
Named(names, middleware) ==
    /\ names \in Seq(STRING) /\ Len(names) = Len(middleware)
    /\ \A k \in 1 .. Len(names) : names[k] = middleware[k].name

Declared ==
    \A t \in Tables : \A r \in Range(t) :
        /\ Named(Around[r.handler].pre, own(r, r.pre))
        /\ Named(Around[r.handler].post, own(r, r.post))

Before == IF req.upgrade THEN <<>> ELSE Globals
Pre == Around[routes_[route].handler].pre
Post == Around[routes_[route].handler].post

\* The handlers that ran are the first ones of s
Began(s) == Len(ran) <= Len(s) /\ \A k \in 1 .. Len(ran) : ran[k] = s[k]

\* How many have run says where the request is, and the other way around
Turn ==
    /\ at = "global" => Began(Globals) /\ Len(ran) = index - 1
    /\ at = "match" => Began(Globals) /\ Len(ran) = Len(Globals)
    /\ at \in {"ws_parse", "ws_match"} => Len(ran) = 0
    /\ route # 0 => Began(Chain)
    /\ at \in {"ws_pre", "ws_open", "ws_post"} => req.upgrade
    /\ at \in {"pre", "ws_pre"} =>
           index <= Len(Pre) + 1 /\ Len(ran) = Len(Before) + index - 1
    /\ at = "ws_open" => Len(ran) = Len(Before) + Len(Pre)
    /\ at \in {"post", "ws_post"} => Len(ran) = Len(Before) + Len(Pre) + index

\* The application replaced the handler for requests without a route
Replaced == Custom /\ req.target # NoTarget /\ \A k \in DOMAIN routes_ : ~Fits(k)

\* A request that ended without a response
Ended ==
    /\ at = "escaped" => Replaced
    /\ at = "done" /\ res.status = 0 =>
           \/ req.upgrade /\ route # 0 /\ Len(Before) + Len(Pre) <= Len(ran)
           \/ Replaced

OInv == Turn /\ Ended

\* What begins like a sequence, no longer than it, is a prefix of it.
LEMMA PrefixFacts ==
    ASSUME NEW S, NEW s \in Seq(S), NEW t \in Seq(S), Len(s) <= Len(t),
           \A k \in 1 .. Len(s) : s[k] = t[k]
    PROVE  IsPrefix(s, t)
<1>1. Len(s) \in Nat /\ Len(t) \in Nat
  OBVIOUS
<1> DEFINE a == SubSeq(s, 1, Len(s))
           b == SubSeq(t, 1, Len(s))
<1>2. a \in Seq(S) /\ Len(a) = Len(s) /\ \A k \in 1 .. Len(s) : a[k] = s[k]
  BY <1>1
<1>3. b \in Seq(S) /\ Len(b) = Len(s) /\ \A k \in 1 .. Len(s) : b[k] = t[k]
  BY <1>1
<1> HIDE DEF a, b
<1>4. a = b
  BY <1>1, <1>2, <1>3
<1> QED BY <1>4 DEF IsPrefix, a, b

Joined(d, g, p, h, q) ==
    /\ Len(d) = Len(g) + Len(p) + 1 + Len(q)
    /\ \A k \in 1 .. Len(g) : d[k] = g[k]
    /\ \A k \in 1 .. Len(p) : d[Len(g) + k] = p[k]
    /\ d[Len(g) + Len(p) + 1] = h
    /\ \A k \in 1 .. Len(q) : d[Len(g) + Len(p) + 1 + k] = q[k]

\* Where the four parts of a chain are.
LEMMA Parts ==
    ASSUME NEW S, NEW g \in Seq(S), NEW p \in Seq(S), NEW h \in S, NEW q \in Seq(S),
           NEW d, d = g \o p \o <<h>> \o q
    PROVE  d \in Seq(S) /\ Joined(d, g, p, h, q)
<1> DEFINE a == g \o p
           one == <<h>>
           b == a \o one
           c == b \o q
<1>0. Len(g) \in Nat /\ Len(p) \in Nat /\ Len(q) \in Nat
  OBVIOUS
<1>1. /\ a \in Seq(S) /\ Len(a) = Len(g) + Len(p)
      /\ \A k \in 1 .. Len(g) : a[k] = g[k]
      /\ \A k \in 1 .. Len(p) : a[Len(g) + k] = p[k]
  BY <1>0
<1> HIDE DEF a
<1>2. /\ b \in Seq(S) /\ Len(b) = Len(a) + 1
      /\ \A k \in 1 .. Len(a) : b[k] = a[k]
      /\ b[Len(a) + 1] = h
  <2>1. one \in Seq(S) /\ Len(one) = 1 /\ one[1] = h /\ 1 \in 1 .. Len(one)
    OBVIOUS
  <2> HIDE DEF one
  <2>2. /\ b \in Seq(S) /\ Len(b) = Len(a) + Len(one)
        /\ \A k \in 1 .. Len(a) : b[k] = a[k]
        /\ \A k \in 1 .. Len(one) : b[Len(a) + k] = one[k]
    <3>1. Len(a) \in Nat /\ Len(one) \in Nat /\ a \in Seq(S) /\ one \in Seq(S)
      BY <1>1, <2>1
    <3> QED BY <3>1
  <2> HIDE DEF b
  <2> QED BY <2>1, <2>2
<1> HIDE DEF b
<1>3. /\ c \in Seq(S) /\ Len(c) = Len(b) + Len(q)
      /\ \A k \in 1 .. Len(b) : c[k] = b[k]
      /\ \A k \in 1 .. Len(q) : c[Len(b) + k] = q[k]
  <2>1. Len(b) \in Nat /\ Len(q) \in Nat /\ b \in Seq(S)
    BY <1>2
  <2> QED BY <2>1
<1> HIDE DEF c
<1>4. \A k \in 1 .. Len(g) : c[k] = g[k]
  BY <1>0, <1>1, <1>2, <1>3
<1>5. \A k \in 1 .. Len(p) : c[Len(g) + k] = p[k]
  <2>1. ASSUME NEW k \in 1 .. Len(p) PROVE c[Len(g) + k] = p[k]
    <3>1. Len(g) + k \in 1 .. Len(a) /\ Len(g) + k \in 1 .. Len(b)
      BY <1>0, <1>1, <1>2
    <3> QED BY <1>1, <1>2, <1>3, <3>1
  <2> QED BY <2>1
<1>6. c[Len(g) + Len(p) + 1] = h
  BY <1>0, <1>1, <1>2, <1>3
<1>7. \A k \in 1 .. Len(q) : c[Len(g) + Len(p) + 1 + k] = q[k]
  BY <1>0, <1>1, <1>2, <1>3
<1>8. c \in Seq(S) /\ Len(c) = Len(g) + Len(p) + 1 + Len(q)
  BY <1>0, <1>1, <1>2, <1>3
<1>9. d = c
  BY Zenon DEF a, b, c, one
<1> QED BY <1>4, <1>5, <1>6, <1>7, <1>8, <1>9 DEF Joined

\* The chain of the route that matched.
LEMMA ChainFacts ==
    ASSUME Declared, Shape, route # 0
    PROVE  /\ Before \in Seq(STRING) /\ Pre \in Seq(STRING) /\ Post \in Seq(STRING)
           /\ Chain \in Seq(STRING) /\ Len(Chain) = Len(Before) + Len(Pre) + 1 + Len(Post)
           /\ Len(Before) \in Nat /\ Len(Pre) \in Nat /\ Len(Post) \in Nat
           /\ Len(Pre) = Len(pre_middlewares) /\ Len(Post) = Len(post_middlewares)
           /\ \A k \in 1 .. Len(Before) : Chain[k] = Before[k]
           /\ \A k \in 1 .. Len(Pre) : Chain[Len(Before) + k] = pre_middlewares[k].name
           /\ Chain[Len(Before) + Len(Pre) + 1] = routes_[route].handler
           /\ \A k \in 1 .. Len(Post) :
                  Chain[Len(Before) + Len(Pre) + 1 + k] = post_middlewares[k].name
<1> DEFINE r == routes_[route]
           h == r.handler
<1>1. routes_ \in Tables /\ route \in 1 .. Len(routes_) /\ DOMAIN routes_ = 1 .. Len(routes_)
  BY RouteTypes DEF Shape
<1>2. r \in Range(routes_) /\ h \in STRING
  BY <1>1, RouteTypes DEF Range, Names
<1>3. Named(Pre, pre_middlewares) /\ Named(Post, post_middlewares)
  BY <1>1, <1>2 DEF Declared, Pre, Post, pre_middlewares, post_middlewares
<1>4. Before \in Seq(STRING)
  <2>1. <<>> \in Seq(STRING) /\ Globals \in Seq(STRING)
    BY RouterAssumption
  <2> QED BY <2>1, Zenon DEF Before
<1>5. Chain = Before \o Pre \o <<h>> \o Post
  BY Zenon DEF Chain, Before, Pre, Post
<1> HIDE DEF h, r
<1>6. Pre \in Seq(STRING) /\ Post \in Seq(STRING)
  BY <1>3 DEF Named
<1>7. /\ Chain \in Seq(STRING) /\ Len(Chain) = Len(Before) + Len(Pre) + 1 + Len(Post)
      /\ \A k \in 1 .. Len(Before) : Chain[k] = Before[k]
      /\ \A k \in 1 .. Len(Pre) : Chain[Len(Before) + k] = Pre[k]
      /\ Chain[Len(Before) + Len(Pre) + 1] = h
      /\ \A k \in 1 .. Len(Post) : Chain[Len(Before) + Len(Pre) + 1 + k] = Post[k]
  <2>1. Chain \in Seq(STRING) /\ Joined(Chain, Before, Pre, h, Post)
    BY <1>2, <1>4, <1>5, <1>6, Parts, Zenon
  <2> QED BY <2>1, Zenon DEF Joined
<1>8. Len(Before) \in Nat /\ Len(Pre) \in Nat /\ Len(Post) \in Nat
  BY <1>4, <1>6
<1>9. /\ Len(Pre) = Len(pre_middlewares) /\ Len(Post) = Len(post_middlewares)
      /\ \A k \in 1 .. Len(Pre) : Pre[k] = pre_middlewares[k].name
      /\ \A k \in 1 .. Len(Post) : Post[k] = post_middlewares[k].name
  BY <1>3, Zenon DEF Named
<1> QED BY <1>4, <1>6, <1>7, <1>8, <1>9, Zenon DEF h, r

\* The same route of the same request has the same chain.
LEMMA SameChain ==
    ASSUME UNCHANGED <<routes_, req, route>>
    PROVE  /\ Chain' = Chain /\ Before' = Before /\ Pre' = Pre /\ Post' = Post
           /\ pre_middlewares' = pre_middlewares /\ post_middlewares' = post_middlewares
           /\ Replaced' = Replaced
<1>1. \A k : Fits(k)' = Fits(k)
  BY FitsKept
<1>2. UNCHANGED routes_ /\ UNCHANGED req /\ UNCHANGED route
  OBVIOUS
<1>3. Replaced' = Replaced
  BY <1>1, <1>2 DEF Replaced
<1>4. Chain' = Chain
  BY <1>2 DEF Chain
<1>5. pre_middlewares' = pre_middlewares /\ post_middlewares' = post_middlewares
  BY <1>2, Zenon DEF pre_middlewares, post_middlewares
<1> QED BY <1>2, <1>3, <1>4, <1>5 DEF Before, Pre, Post

\* One more handler, the next one of s, ran.
LEMMA OneMore ==
    ASSUME ran \in Seq(STRING), NEW s \in Seq(STRING), Began(s), Len(ran) < Len(s),
           NEW n, n = s[Len(ran) + 1], ran' = Append(ran, n)
    PROVE  /\ Len(ran') = Len(ran) + 1 /\ Len(ran') <= Len(s)
           /\ \A k \in 1 .. Len(ran') : ran'[k] = s[k]
<1>1. Len(ran) \in Nat /\ Len(s) \in Nat /\ n \in STRING
  OBVIOUS
<1>2. /\ Len(ran') = Len(ran) + 1 /\ ran'[Len(ran) + 1] = n
      /\ \A k \in 1 .. Len(ran) : ran'[k] = ran[k]
  BY <1>1
<1> QED BY <1>1, <1>2 DEF Began

\* A handler of the route that runs is the next one of its chain.
LEMMA InTurn ==
    ASSUME Declared, Shape, Turn, route # 0, UNCHANGED <<routes_, req, route>>,
           \/ /\ at \in {"pre", "ws_pre"} /\ index <= Len(pre_middlewares)
              /\ ran' = Append(ran, pre_middlewares[index].name)
           \/ /\ at = "pre" /\ index > Len(pre_middlewares)
              /\ ran' = Append(ran, routes_[route].handler)
           \/ /\ at = "ws_open"
              /\ ran' = Append(ran, routes_[route].handler)
           \/ /\ at \in {"post", "ws_post"} /\ index <= Len(post_middlewares)
              /\ ran' = Append(ran, post_middlewares[index].name)
    PROVE  Began(Chain)' /\ Len(ran') = Len(ran) + 1
<1>1. /\ Chain \in Seq(STRING) /\ Len(Chain) = Len(Before) + Len(Pre) + 1 + Len(Post)
      /\ Len(Before) \in Nat /\ Len(Pre) \in Nat /\ Len(Post) \in Nat
      /\ Len(Pre) = Len(pre_middlewares) /\ Len(Post) = Len(post_middlewares)
      /\ \A k \in 1 .. Len(Pre) : Chain[Len(Before) + k] = pre_middlewares[k].name
      /\ Chain[Len(Before) + Len(Pre) + 1] = routes_[route].handler
      /\ \A k \in 1 .. Len(Post) :
             Chain[Len(Before) + Len(Pre) + 1 + k] = post_middlewares[k].name
  BY ChainFacts
<1>2. ran \in Seq(STRING) /\ Len(ran) \in Nat /\ index \in Nat \ {0} /\ Began(Chain)
  BY DEF Shape, Turn
<1>3. PICK n : n = Chain[Len(ran) + 1] /\ ran' = Append(ran, n) /\ Len(ran) < Len(Chain)
  <2>1. CASE /\ at \in {"pre", "ws_pre"} /\ index <= Len(pre_middlewares)
             /\ ran' = Append(ran, pre_middlewares[index].name)
    <3>1. Len(ran) = Len(Before) + index - 1
      BY <2>1 DEF Turn
    <3>2. index \in 1 .. Len(Pre) /\ Len(ran) + 1 = Len(Before) + index
      BY <1>1, <1>2, <2>1, <3>1
    <3>3. Len(ran) < Len(Chain)
      BY <1>1, <1>2, <3>2
    <3>4. Chain[Len(ran) + 1] = pre_middlewares[index].name
      BY <1>1, <3>2, Zenon
    <3> QED BY <2>1, <3>3, <3>4
  <2>2. CASE /\ at \in {"pre", "ws_open"} /\ (at = "pre" => index > Len(pre_middlewares))
             /\ ran' = Append(ran, routes_[route].handler)
    <3>1. Len(ran) = Len(Before) + Len(Pre)
      <4>1. CASE at = "ws_open"
        BY <4>1 DEF Turn
      <4>2. CASE at = "pre"
        <5>1. index <= Len(Pre) + 1 /\ Len(ran) = Len(Before) + index - 1
          BY <4>2 DEF Turn
        <5>2. index = Len(Pre) + 1
          BY <1>1, <1>2, <2>2, <4>2, <5>1
        <5> QED BY <1>1, <1>2, <5>1, <5>2
      <4> QED BY <2>2, <4>1, <4>2
    <3>2. Len(ran) + 1 = Len(Before) + Len(Pre) + 1 /\ Len(ran) < Len(Chain)
      BY <1>1, <1>2, <3>1
    <3>3. Chain[Len(ran) + 1] = routes_[route].handler
      BY <1>1, <3>2, Zenon
    <3> QED BY <2>2, <3>2, <3>3
  <2>3. CASE /\ at \in {"post", "ws_post"} /\ index <= Len(post_middlewares)
             /\ ran' = Append(ran, post_middlewares[index].name)
    <3>1. Len(ran) = Len(Before) + Len(Pre) + index
      BY <2>3 DEF Turn
    <3>2. index \in 1 .. Len(Post) /\ Len(ran) + 1 = Len(Before) + Len(Pre) + 1 + index
      BY <1>1, <1>2, <2>3, <3>1
    <3>3. Len(ran) < Len(Chain)
      BY <1>1, <1>2, <3>2
    <3>4. Chain[Len(ran) + 1] = post_middlewares[index].name
      BY <1>1, <3>2, Zenon
    <3> QED BY <2>3, <3>3, <3>4
  <2> QED BY <2>1, <2>2, <2>3
<1>4. /\ Len(ran') = Len(ran) + 1 /\ Len(ran') <= Len(Chain)
      /\ \A k \in 1 .. Len(ran') : ran'[k] = Chain[k]
  BY <1>1, <1>2, <1>3, OneMore, Zenon
<1>5. Chain' = Chain
  BY SameChain
<1> QED BY <1>4, <1>5, Zenon DEF Began

\* What Route::operator(), Route::upgrade() and Route::open() do to the request: a
\* handler ran in its turn, or none did
Served ==
    /\ UNCHANGED <<routes_, req, route>> /\ at \in Serving
    /\ at' = "done" /\ res'.status = 0 => at \notin {"pre", "post"}
    /\ \/ /\ at \in {"pre", "ws_pre"} /\ index <= Len(pre_middlewares)
          /\ ran' = Append(ran, pre_middlewares[index].name)
          /\ at' \in {at, "done"} /\ (at' = at => index' = index + 1)
          /\ at' = "done" => res'.status # 0
       \/ /\ at = "pre" /\ index > Len(pre_middlewares)
          /\ ran' = Append(ran, routes_[route].handler)
          /\ at' \in {"post", "done"} /\ index' = 1
       \/ /\ at = "ws_open"
          /\ ran' = Append(ran, routes_[route].handler)
          /\ at' \in {"ws_post", "done", "closed"} /\ index' = 1
       \/ /\ at \in {"post", "ws_post"} /\ index <= Len(post_middlewares)
          /\ ran' = Append(ran, post_middlewares[index].name)
          /\ at' \in {at, "done", "closed"} /\ (at' = at => index' = index + 1)
       \/ /\ at = "ws_pre" /\ index > Len(pre_middlewares) /\ ran' = ran
          /\ at' \in {"ws_open", "done"}
       \/ at \in {"post", "ws_post"} /\ ran' = ran /\ at' = "done"

\* Such steps keep the turns.
LEMMA ServedKeeps ==
    ASSUME Declared, Shape, OInv, Served
    PROVE  OInv'
<1>0. Turn /\ UNCHANGED <<routes_, req, route>> /\ at \in Serving
  BY DEF OInv, Served
<1>1. /\ route # 0 /\ ran \in Seq(STRING) /\ Len(ran) \in Nat /\ index \in Nat \ {0}
  BY <1>0 DEF Shape
<1>2. /\ Chain' = Chain /\ Before' = Before /\ Pre' = Pre /\ route' = route /\ req' = req
  BY <1>0, SameChain
<1>3. /\ Len(Before) \in Nat /\ Len(Pre) \in Nat /\ Len(Post) \in Nat
      /\ Len(Pre) = Len(pre_middlewares) /\ Len(Post) = Len(post_middlewares)
  BY <1>1, ChainFacts
<1>4. /\ Began(Chain)'
      /\ ran' = ran \/ Len(ran') = Len(ran) + 1
  <2>1. CASE ran' = ran
    <3>1. Began(Chain)
      BY <1>0, <1>1 DEF Turn
    <3> QED BY <1>2, <2>1, <3>1 DEF Began
  <2>2. CASE ran' # ran
    BY <1>0, <1>1, <2>2, InTurn DEF Served
  <2> QED BY <2>1, <2>2
<1>5. at \in {"pre", "ws_pre"} => index <= Len(Pre) + 1 /\ Len(ran) = Len(Before) + index - 1
  BY <1>0 DEF Turn
<1>6. at = "ws_open" => Len(ran) = Len(Before) + Len(Pre)
  BY <1>0 DEF Turn
<1>7. at \in {"post", "ws_post"} => Len(ran) = Len(Before) + Len(Pre) + index
  BY <1>0 DEF Turn
<1>8. at \in {"ws_pre", "ws_open", "ws_post"} => req.upgrade
  BY <1>0 DEF Turn
<1>9. Len(ran') = Len(ran) + 1 \/ (ran' = ran /\ Len(ran') = Len(ran))
  BY <1>4
<1>10. CASE at \in {"pre", "ws_pre"} /\ index <= Len(pre_middlewares)
  <2>1. /\ at' \in {at, "done"} /\ (at' = "done" => res'.status # 0)
        /\ at' = at => index' = index + 1
        /\ ran' = Append(ran, pre_middlewares[index].name)
    BY <1>1, <1>3, <1>10 DEF Served
  <2>2. Len(ran') = Len(ran) + 1
    BY <1>1, <2>1
  <2>3. at' = at => index' <= Len(Pre) + 1 /\ Len(ran') = Len(Before) + index' - 1
    BY <1>1, <1>3, <1>5, <1>10, <2>1, <2>2
  <2> QED BY <1>2, <1>4, <1>8, <1>10, <2>1, <2>3 DEF OInv, Turn, Ended
<1>11. CASE at = "pre" /\ index > Len(pre_middlewares)
  <2>1. /\ at' \in {"post", "done"} /\ (at' = "done" => res'.status # 0) /\ index' = 1
        /\ ran' = Append(ran, routes_[route].handler)
    BY <1>1, <1>3, <1>11 DEF Served
  <2>2. Len(ran') = Len(ran) + 1
    BY <1>1, <2>1
  <2>3. Len(ran') = Len(Before) + Len(Pre) + index'
    <3>1. index = Len(Pre) + 1 /\ Len(ran) = Len(Before) + index - 1 /\ index' = 1
      BY <1>1, <1>3, <1>5, <1>11, <2>1
    <3> QED BY <1>1, <1>3, <2>2, <3>1
  <2> QED BY <1>2, <1>4, <2>1, <2>3 DEF OInv, Turn, Ended
<1>12. CASE at = "ws_pre" /\ index > Len(pre_middlewares)
  <2>1. at' \in {"ws_open", "done"} /\ ran' = ran
    BY <1>1, <1>3, <1>12 DEF Served
  <2>2. Len(ran') = Len(Before) + Len(Pre)
    BY <1>1, <1>3, <1>5, <1>12, <2>1
  <2> QED BY <1>1, <1>2, <1>3, <1>4, <1>8, <1>12, <2>1, <2>2 DEF OInv, Turn, Ended
<1>13. CASE at = "ws_open"
  <2>1. at' \in {"ws_post", "done", "closed"} /\ index' = 1
        /\ ran' = Append(ran, routes_[route].handler)
    BY <1>13 DEF Served
  <2>2. Len(ran') = Len(ran) + 1
    BY <1>1, <2>1
  <2>3. Len(ran') = Len(Before) + Len(Pre) + index' /\ Len(Before) + Len(Pre) <= Len(ran')
    BY <1>1, <1>3, <1>6, <1>13, <2>1, <2>2
  <2> QED BY <1>1, <1>2, <1>4, <1>8, <1>13, <2>1, <2>3 DEF OInv, Turn, Ended
<1>14. CASE at \in {"post", "ws_post"}
  <2>1. \/ /\ ran' = Append(ran, post_middlewares[index].name)
           /\ at' \in {at, "done", "closed"}
           /\ at' = at => index' = index + 1
        \/ ran' = ran /\ at' = "done"
    BY <1>14 DEF Served
  <2>2. /\ at' = "done" /\ res'.status = 0 => at = "ws_post"
    BY <1>14 DEF Served
  <2>3. Len(ran') \in {Len(ran), Len(ran) + 1} /\ (at' = at => Len(ran') = Len(ran) + 1)
    BY <1>1, <1>14, <2>1
  <2>4. /\ at' = at => Len(ran') = Len(Before) + Len(Pre) + index'
        /\ Len(Before) + Len(Pre) <= Len(ran')
    BY <1>1, <1>3, <1>7, <1>14, <2>1, <2>3
  <2> QED BY <1>1, <1>2, <1>4, <1>8, <1>14, <2>1, <2>2, <2>4 DEF OInv, Turn, Ended
<1> QED BY <1>0, <1>1, <1>3, <1>10, <1>11, <1>12, <1>13, <1>14 DEF Serving

\* The handlers of an HTTP route run in turn.
LEMMA HttpServed ==
    ASSUME RInv, \/ \E o \in Outcomes : RunPre(o) \/ RunHandler(o) \/ RunPost(o)
                 \/ Unanswered
    PROVE  Served
<1>0. res \in Responses /\ Searching
  BY DEF RInv, Shape
<1>1. ASSUME NEW o \in Outcomes, RunPre(o) PROVE Served
  <2>1. /\ at = "pre" /\ index <= Len(pre_middlewares)
        /\ ran' = Append(ran, pre_middlewares[index].name)
        /\ \/ at' = "done" /\ res'.status # 0
           \/ at' = "pre" /\ index' = index + 1
        /\ UNCHANGED <<routes_, req, route>>
    BY <1>1 DEF RunPre, RunStep, hasResponse, Done, Continue, Frame, setupVars, whoVars, matchVars
  <2> QED BY <2>1 DEF Served, Serving
<1>2. ASSUME NEW o \in Outcomes, RunHandler(o) PROVE Served
  <2>1. /\ at = "pre" /\ index > Len(pre_middlewares)
        /\ ran' = Append(ran, routes_[route].handler)
        /\ \/ at' = "done" /\ res'.status # 0
           \/ at' = "post"
        /\ index' = 1
        /\ UNCHANGED <<routes_, req, route>>
    BY <1>2 DEF RunHandler, RunStep, hasResponse, Done, Continue, Frame, setupVars, whoVars, matchVars
  <2> QED BY <2>1 DEF Served, Serving
<1>3. ASSUME NEW o \in Outcomes, RunPost(o) PROVE Served
  <2>1. /\ at = "post" /\ index <= Len(post_middlewares)
        /\ ran' = Append(ran, post_middlewares[index].name)
        /\ \/ at' = "done" /\ res'.status # 0
           \/ at' = "post" /\ index' = index + 1
        /\ UNCHANGED <<routes_, req, route>>
    BY <1>3 DEF RunPost, RunStep, hasResponse, Done, Continue, Frame, setupVars, whoVars, matchVars
  <2> QED BY <2>1 DEF Served, Serving
<1>4. CASE Unanswered
  <2>1. /\ at = "post" /\ ran' = ran /\ at' = "done" /\ res' = send(res, 500)
        /\ UNCHANGED <<routes_, req, route>>
    BY <1>4 DEF Unanswered, error500, Done, Continue, Frame, setupVars, whoVars, matchVars
  <2>2. res'.status = 500
    BY <1>0, <2>1, SendFacts
  <2> QED BY <2>1, <2>2 DEF Served, Serving
<1> QED BY <1>1, <1>2, <1>3, <1>4

\* So do those of a WebSocket route, before and behind the handshake.
LEMMA WsServed ==
    ASSUME RInv,
           \/ WsOpened
           \/ \E next \in {"ws_open", "done"} : Handshake(next)
           \/ \E o \in {"true", "false", "reject", "throw"} :
                 RunWsPre(o) \/ RunWsHandler(o) \/ RunWsPost(o)
    PROVE  Served
<1>0. res \in Responses /\ Searching
  BY DEF RInv, Shape
<1>1. CASE WsOpened
  <2>1. /\ at = "ws_post" /\ ran' = ran /\ at' = "done"
        /\ UNCHANGED <<routes_, req, route>>
    BY <1>1 DEF WsOpened, Done, Continue, Frame, setupVars, whoVars, matchVars
  <2> QED BY <2>1 DEF Served, Serving
<1>2. ASSUME NEW next \in {"ws_open", "done"}, Handshake(next) PROVE Served
  <2>1. /\ at = "ws_pre" /\ index > Len(pre_middlewares) /\ ran' = ran
        /\ at' \in {"ws_open", "done"}
        /\ UNCHANGED <<routes_, req, route>>
    BY <1>2 DEF Handshake, Continue, Frame, setupVars, whoVars, matchVars
  <2> QED BY <2>1 DEF Served, Serving
<1>3. ASSUME NEW o \in {"true", "false", "reject", "throw"}, RunWsPre(o) PROVE Served
  <2>1. /\ at = "ws_pre" /\ index <= Len(pre_middlewares)
        /\ ran' = Append(ran, pre_middlewares[index].name)
        /\ UNCHANGED <<routes_, req, route>>
    BY <1>3 DEF RunWsPre, Frame, setupVars, whoVars, matchVars
  <2>2. \/ at' = "ws_pre" /\ index' = index + 1
        \/ at' = "done" /\ \E n \in {403, 401, 500} : res' = send(res, n)
    BY <1>3 DEF RunWsPre, Continue, Done, error500
  <2>3. at' = "done" => res'.status # 0
    <3>1. ASSUME NEW n \in {403, 401, 500}, res' = send(res, n) PROVE res'.status # 0
      BY <1>0, <3>1, SendFacts
    <3> QED BY <2>2, <3>1
  <2> QED BY <2>1, <2>2, <2>3 DEF Served, Serving
<1>4. ASSUME NEW o, RunWsHandler(o) PROVE Served
  <2>1. /\ at = "ws_open" /\ ran' = Append(ran, routes_[route].handler)
        /\ at' \in {"ws_post", "done", "closed"} /\ index' = 1
        /\ UNCHANGED <<routes_, req, route>>
    BY <1>4 DEF RunWsHandler, Continue, Frame, setupVars, whoVars, matchVars
  <2> QED BY <2>1 DEF Served, Serving
<1>5. ASSUME NEW o, RunWsPost(o) PROVE Served
  <2>1. /\ at = "ws_post" /\ index <= Len(post_middlewares)
        /\ ran' = Append(ran, post_middlewares[index].name)
        /\ UNCHANGED <<routes_, req, route>>
    BY <1>5 DEF RunWsPost, Frame, setupVars, whoVars, matchVars
  <2>2. \/ at' = "ws_post" /\ index' = index + 1
        \/ at' \in {"done", "closed"}
    BY <1>5 DEF RunWsPost, Continue, Done
  <2> QED BY <2>1, <2>2 DEF Served, Serving
<1> QED BY <1>1, <1>2, <1>3, <1>4, <1>5

\* The middleware of use() runs in turn too, with no route so far.
LEMMA GlobalTurn ==
    ASSUME RInv, OInv, RunCors \/ \E o \in Outcomes : RunGlobal(o)
    PROVE  OInv'
<1>1. /\ at = "global" /\ index <= Len(Globals) /\ ran' = Append(ran, Globals[index])
      /\ \/ at' = "done" /\ res'.status # 0
         \/ at' = "global" /\ index' = index + 1
      /\ UNCHANGED <<routes_, req, route>>
  BY DEF RunCors, RunGlobal, hasResponse, Done, Continue, Frame, setupVars, whoVars, matchVars
<1>2. /\ ran \in Seq(STRING) /\ Len(ran) \in Nat /\ index \in Nat \ {0} /\ route' = 0
      /\ Globals \in Seq(STRING) /\ Len(Globals) \in Nat
  BY <1>1, RouterAssumption DEF RInv, Shape, Searching
<1>3. Began(Globals) /\ Len(ran) = index - 1
  BY <1>1 DEF OInv, Turn
<1>4. Globals[index] = Globals[Len(ran) + 1] /\ Len(ran) < Len(Globals)
  BY <1>1, <1>2, <1>3
<1>5. /\ Len(ran') = Len(ran) + 1 /\ Len(ran') <= Len(Globals)
      /\ \A k \in 1 .. Len(ran') : ran'[k] = Globals[k]
  BY <1>1, <1>2, <1>3, <1>4, OneMore, Zenon
<1>6. at' = "global" => Began(Globals)' /\ Len(ran') = index' - 1
  <2>1. Began(Globals)'
    BY <1>5 DEF Began
  <2> QED BY <1>1, <1>2, <1>3, <1>5, <2>1
<1> QED BY <1>1, <1>2, <1>6 DEF OInv, Turn, Ended

\* The target is parsed when all of that ran, or none for an upgrade.
LEMMA ParseTurn ==
    ASSUME RInv, OInv, ParseTarget \/ WsParse
    PROVE  OInv'
<1>1. /\ ran' = ran /\ UNCHANGED <<routes_, req, route>>
      /\ \/ at' = "done" /\ res' = send(res, 500)
         \/ at = "global" /\ index > Len(Globals) /\ at' = "match"
         \/ at = "ws_parse" /\ at' = "ws_match"
      /\ at \in {"global", "ws_parse"}
  BY DEF ParseTarget, WsParse, error500, Done, Continue, Frame, setupVars, whoVars, matchVars
<1>2. /\ ran \in Seq(STRING) /\ Len(ran) \in Nat /\ index \in Nat \ {0} /\ route' = 0
      /\ Globals \in Seq(STRING) /\ Len(Globals) \in Nat /\ res \in Responses
  BY <1>1, RouterAssumption DEF RInv, Shape, Searching
<1>3. at' = "done" => res'.status # 0
  <2>1. send(res, 500).status = 500
    BY <1>2, SendFacts
  <2>2. at' = "done" => res' = send(res, 500)
    BY <1>1
  <2> QED BY <2>1, <2>2
<1>4. at' = "match" => Began(Globals)' /\ Len(ran') = Len(Globals)
  <2> SUFFICES ASSUME at' = "match" PROVE Began(Globals)' /\ Len(ran') = Len(Globals)
    OBVIOUS
  <2>1. at = "global" /\ index > Len(Globals)
    BY <1>1
  <2>2. Began(Globals) /\ Len(ran) = index - 1
    BY <2>1 DEF OInv, Turn
  <2>3. Len(ran) <= Len(Globals)
    BY <2>2 DEF Began
  <2>4. Len(ran') = Len(Globals)
    BY <1>1, <1>2, <2>1, <2>2, <2>3
  <2> QED BY <1>1, <2>2, <2>4 DEF Began
<1>5. at' = "ws_match" => Len(ran') = 0
  BY <1>1 DEF OInv, Turn
<1> QED BY <1>1, <1>2, <1>3, <1>4, <1>5 DEF OInv, Turn, Ended

\* The chain of a route starts with what ran before it matched.
LEMMA TryTurn ==
    ASSUME Declared, RInv, OInv, TryRoute \/ WsTryRoute
    PROVE  OInv'
<1>0. /\ routes_ \in Tables /\ index \in Nat \ {0} /\ Len(routes_) \in Nat /\ route = 0
      /\ DOMAIN routes_ = 1 .. Len(routes_) /\ ran \in Seq(STRING) /\ Len(ran) \in Nat
      /\ Globals \in Seq(STRING)
  BY RouteTypes, RouterAssumption DEF RInv, Shape, Searching, TryRoute, WsTryRoute
<1>1. /\ ran' = ran /\ routes_' = routes_ /\ req' = req /\ index \in 1 .. Len(routes_)
      /\ \/ at = "match" /\ at' = "pre"
         \/ at = "match" /\ at' = "match"
         \/ at = "ws_match" /\ at' = "ws_pre"
         \/ at = "ws_match" /\ at' = "ws_match"
      /\ at' \in {"pre", "ws_pre"} => route' = index /\ index' = 1
      /\ at' \in {"match", "ws_match"} => route' = route
  BY <1>0 DEF TryRoute, WsTryRoute, Continue, Frame, setupVars, whoVars
<1>2. CASE at' \in {"match", "ws_match"}
  <2>1. /\ at = "match" => Began(Globals) /\ Len(ran) = Len(Globals)
        /\ at = "ws_match" => Len(ran) = 0
    BY DEF OInv, Turn
  <2>2. Began(Globals)' = Began(Globals)
    BY <1>1 DEF Began
  <2> QED BY <1>0, <1>1, <1>2, <2>1, <2>2 DEF OInv, Turn, Ended
<1>3. CASE at' \in {"pre", "ws_pre"}
  <2> DEFINE h == routes_[index].handler
             g == IF req.upgrade THEN <<>> ELSE Globals
             p == Around[h].pre
             q == Around[h].post
  <2>1. h \in STRING /\ routes_[index] \in Range(routes_)
    BY <1>0, <1>1, RouteTypes DEF Names, Range
  <2>2. p \in Seq(STRING) /\ q \in Seq(STRING)
    <3>1. Named(p, own(routes_[index], routes_[index].pre))
          /\ Named(q, own(routes_[index], routes_[index].post))
      BY <1>0, <2>1 DEF Declared
    <3> QED BY <3>1 DEF Named
  <2>3. g \in Seq(STRING)
    <3>1. <<>> \in Seq(STRING)
      OBVIOUS
    <3> QED BY <1>0, <3>1, Zenon
  <2>4. at' = "ws_pre" => req.upgrade
    <3>1. at' = "ws_pre" => at = "ws_match"
      BY <1>1
    <3> QED BY <3>1, Zenon DEF RInv, Searching
  <2>5. Len(ran) = Len(g) /\ \A k \in 1 .. Len(ran) : ran[k] = g[k]
    <3>1. CASE at = "match"
      <4>1. ~req.upgrade
        BY <3>1, Zenon DEF RInv, Searching
      <4>2. g = Globals
        BY <4>1, Zenon
      <4>3. Began(Globals) /\ Len(ran) = Len(Globals)
        BY <3>1 DEF OInv, Turn
      <4> QED BY <4>2, <4>3, Zenon DEF Began
    <3>2. CASE at = "ws_match"
      <4>1. req.upgrade
        BY <3>2, Zenon DEF RInv, Searching
      <4>2. g = <<>>
        BY <4>1, Zenon
      <4>3. Len(ran) = 0
        BY <3>2 DEF OInv, Turn
      <4> HIDE DEF g
      <4> QED BY <4>2, <4>3
    <3> QED BY <1>1, <3>1, <3>2
  <2>6. Chain' = g \o p \o <<h>> \o q /\ Before' = g /\ Pre' = p /\ route' = index
    <3>1. route' = index /\ routes_' = routes_ /\ req' = req
      BY <1>1, <1>3
    <3> QED BY <3>1, Zenon DEF Chain, Before, Pre
  <2> HIDE DEF h, g, p, q
  <2>7. Joined(Chain', g, p, h, q)
    BY <2>1, <2>2, <2>3, <2>6, Parts, Zenon
  <2>8. Len(g) \in Nat /\ Len(p) \in Nat /\ Len(q) \in Nat
    BY <2>2, <2>3
  <2>9. Began(Chain)'
    <3>1. Len(Chain') = Len(g) + Len(p) + 1 + Len(q) /\ \A k \in 1 .. Len(g) : Chain'[k] = g[k]
      BY <2>7, Zenon DEF Joined
    <3>2. Len(ran') <= Len(Chain')
      BY <1>1, <2>5, <2>8, <3>1
    <3>3. \A k \in 1 .. Len(ran') : ran'[k] = Chain'[k]
      BY <1>1, <2>5, <3>1
    <3> QED BY <3>2, <3>3, Zenon DEF Began
  <2>10. index' <= Len(Pre') + 1 /\ Len(ran') = Len(Before') + index' - 1
    <3>1. index' = 1 /\ ran' = ran /\ Before' = g /\ Pre' = p
      BY <1>1, <1>3, <2>6
    <3> QED BY <2>5, <2>8, <3>1
  <2> QED BY <1>1, <1>3, <2>4, <2>9, <2>10 DEF OInv, Turn, Ended
<1> QED BY <1>1, <1>2, <1>3

\* Without a route only a handler of the application leaves the request unanswered.
LEMMA NoRouteTurn ==
    ASSUME RInv, OInv, NEW o \in Outcomes, NoRoute(o) \/ WsNoRoute(o)
    PROVE  OInv'
<1>0. /\ routes_ \in Tables /\ index \in Nat \ {0} /\ Len(routes_) \in Nat
      /\ DOMAIN routes_ = 1 .. Len(routes_) /\ res \in Responses /\ Searching
  BY RouteTypes DEF RInv, Shape
<1>1. /\ UNCHANGED <<routes_, req, route>>
      /\ at \in {"match", "ws_match"} /\ index > Len(routes_)
      /\ at' \in {"done", "escaped"}
  BY DEF NoRoute, WsNoRoute, Frame, setupVars, whoVars, matchVars, Continue, Done
<1>2. route' = 0 /\ req.target # NoTarget
  BY <1>0, <1>1 DEF Searching
<1>3. \A k \in DOMAIN routes_ : ~Fits(k)
  <2>1. \A k \in 1 .. Len(routes_) : k < index
    BY <1>0, <1>1
  <2>2. CASE at = "match"
    BY <1>0, <2>1, <2>2 DEF Searching
  <2>3. CASE at = "ws_match"
    <3>1. \A k \in 1 .. Len(routes_) : ~Knows(k)
      BY <1>0, <2>1, <2>3 DEF Searching
    <3> QED BY <1>0, <3>1 DEF Fits
  <2> QED BY <1>1, <2>2, <2>3
<1>4. at' = "escaped" => o # "send"
  BY DEF NoRoute, WsNoRoute, threw, Continue, Done
<1>5. res'.status = 0 => o # "send"
  <2>1. o = "send" => res' = send(res, 404) \/ res' = send(res, 405)
    BY Zenon DEF NoRoute, WsNoRoute
  <2>2. send(res, 404).status = 404 /\ send(res, 405).status = 405
    BY <1>0, SendFacts
  <2> QED BY <2>1, <2>2
<1>6. Custom \/ o = "send"
  BY Zenon DEF NoRoute, WsNoRoute
<1>7. o # "send" => Replaced
  BY <1>2, <1>3, <1>6, Zenon DEF Replaced
<1>8. Replaced' = Replaced
  BY <1>1, SameChain
<1>9. at' = "escaped" \/ res'.status = 0 => Replaced'
  BY <1>4, <1>5, <1>7, <1>8, Zenon
<1> QED BY <1>1, <1>2, <1>9 DEF OInv, Turn, Ended

\* Every step keeps the turns.
LEMMA OInvNext == Declared /\ IInv /\ RInv /\ OInv /\ [Next]_vars => OInv'
<1> SUFFICES ASSUME Declared, IInv, RInv, OInv, [Next]_vars PROVE OInv'
  OBVIOUS
<1>0. Shape /\ Searching
  BY DEF RInv
<1>1. ASSUME UNCHANGED <<routes_, at, index, req, res, route, ran>> PROVE OInv'
  <2>1. Chain' = Chain /\ Before' = Before /\ Pre' = Pre /\ Replaced' = Replaced
    BY <1>1, SameChain
  <2>2. Began(Chain)' = Began(Chain) /\ Began(Globals)' = Began(Globals)
    BY <1>1, <2>1 DEF Began
  <2>3. Turn'
    BY <1>1, <2>1, <2>2 DEF OInv, Turn
  <2>4. Ended'
    BY <1>1, <2>1, Zenon DEF OInv, Ended
  <2> QED BY <2>3, <2>4 DEF OInv
<1>2. CASE Updater
  <2>1. UNCHANGED <<routes_, at, index, req, res, route, ran>>
    BY <1>2, Zenon DEF Updater, SetTrustedProxies, AddProxy, AddProxyThrows, PublishProxies,
                UpdaterFrame, setupVars, whoVars, matchVars
  <2> QED BY <1>1, <2>1
<1>3. ASSUME NEW r \in Requests, Enter(r) PROVE OInv'
  <2>1. /\ at = "free" /\ index' = 1 /\ at' \in {"global", "ws_parse"}
        /\ route' = route /\ ran' = ran
    BY <1>3, Zenon DEF Enter, Continue, matchVars
  <2>2. route' = 0 /\ ran' = <<>>
    BY <1>0, <2>1 DEF Searching
  <2>3. Len(ran') = 0 /\ Len(Globals) \in Nat
    BY <2>2, RouterAssumption
  <2>4. Began(Globals)'
    BY <2>3 DEF Began
  <2> QED BY <2>1, <2>2, <2>3, <2>4 DEF OInv, Turn, Ended
<1>4. CASE Handling
  <2>1. CASE RunCors \/ \E o \in Outcomes : RunGlobal(o)
    BY <2>1, GlobalTurn
  <2>2. CASE ParseTarget \/ WsParse
    BY <2>2, ParseTurn
  <2>3. CASE TryRoute \/ WsTryRoute
    BY <2>3, TryTurn
  <2>4. ASSUME NEW o \in Outcomes, NoRoute(o) \/ WsNoRoute(o) PROVE OInv'
    BY <2>4, NoRouteTurn
  <2>5. CASE \/ \E o \in Outcomes : RunPre(o) \/ RunHandler(o) \/ RunPost(o)
             \/ Unanswered
    BY <1>0, <2>5, HttpServed, ServedKeeps
  <2>6. CASE \/ WsOpened
             \/ \E next \in {"ws_open", "done"} : Handshake(next)
             \/ \E o \in {"true", "false", "reject", "throw"} :
                   RunWsPre(o) \/ RunWsHandler(o) \/ RunWsPost(o)
    BY <1>0, <2>6, WsServed, ServedKeeps
  <2> QED BY <1>4, <2>1, <2>2, <2>3, <2>4, <2>5, <2>6, Zenon DEF Handling
<1>5. CASE Leave
  <2>1. at' = "free" /\ route' = 0
    BY <1>5, Zenon DEF Leave, Continue
  <2> QED BY <2>1 DEF OInv, Turn, Ended
<1>6. CASE UNCHANGED vars
  <2>1. UNCHANGED <<routes_, at, index, req, res, route, ran>>
    BY <1>6, Zenon DEF vars, setupVars, whoVars, matchVars
  <2> QED BY <1>1, <2>1
<1> QED BY <1>2, <1>3, <1>4, <1>5, <1>6 DEF Next

\* Nothing ran yet.
LEMMA OInvInit == Init => OInv
  BY DEF Init, OInv, Turn, Ended

\* What ran begins the chain, in the terms of InOrder and Answered.
LEMMA RanPrefix ==
    ASSUME Declared, Shape, Turn, route # 0
    PROVE  /\ IsPrefix(ran, Chain)
           /\ req.upgrade /\ Len(Before) + Len(Pre) <= Len(ran) => IsPrefix(Pre, ran)
<1>1. /\ Chain \in Seq(STRING) /\ Pre \in Seq(STRING) /\ Len(Pre) \in Nat
      /\ Before \in Seq(STRING) /\ Len(Before) \in Nat
  BY ChainFacts, Zenon
<1>2. ran \in Seq(STRING) /\ Began(Chain) /\ Len(ran) \in Nat
  BY DEF Shape, Turn
<1>3. IsPrefix(ran, Chain)
  BY <1>1, <1>2, PrefixFacts DEF Began
<1>4. ASSUME req.upgrade, Len(Before) + Len(Pre) <= Len(ran) PROVE IsPrefix(Pre, ran)
  <2>1. Before = <<>>
    BY <1>4, Zenon DEF Before
  <2>2. Len(Before) = 0
    BY <2>1
  <2>3. routes_ \in Tables /\ route \in 1 .. Len(routes_) /\ DOMAIN routes_ = 1 .. Len(routes_)
    BY RouteTypes DEF Shape
  <2>4. Named(Pre, pre_middlewares)
    <3>1. routes_[route] \in Range(routes_)
      BY <2>3 DEF Range
    <3> QED BY <2>3, <3>1 DEF Declared, Pre, pre_middlewares
  <2>5. \A k \in 1 .. Len(Pre) : Pre[k] = pre_middlewares[k].name
    BY <2>4, Zenon DEF Named
  <2>6. \A k \in 1 .. Len(Pre) : Chain[Len(Before) + k] = pre_middlewares[k].name
    BY ChainFacts, Zenon
  <2>7. \A k \in 1 .. Len(Pre) : Len(Before) + k = k
    BY <1>1, <2>2
  <2>8. \A k \in 1 .. Len(Pre) : Chain[k] = Pre[k]
    BY <2>5, <2>6, <2>7, Zenon
  <2>9. Len(Pre) <= Len(ran)
    BY <1>1, <1>2, <1>4, <2>2
  <2>10. \A k \in 1 .. Len(Pre) : k \in 1 .. Len(ran)
    BY <1>1, <1>2, <2>9
  <2>11. \A k \in 1 .. Len(Pre) : Pre[k] = ran[k]
    BY <1>2, <2>8, <2>10, Zenon DEF Began
  <2> HIDE DEF Pre
  <2> QED BY <1>1, <1>2, <2>9, <2>11, PrefixFacts
<1> QED BY <1>3, <1>4

\* Every HTTP request is answered and what handlers throw is caught, an upgrade
\* without an answer passed all its middleware; but for replaced handlers of
\* requests without a route (route(), upgrade()).
THEOREM EveryoneIsAnswered ==
    ASSUME Declared
    PROVE  Spec => []Answered
<1>1. IInv /\ RInv /\ OInv => Answered
  <2> SUFFICES ASSUME IInv, RInv, OInv PROVE Answered
    OBVIOUS
  <2>1. Shape /\ Turn /\ Ended
    BY DEF RInv, OInv
  <2>2. at = "escaped" => Replaced
    BY <2>1, Zenon DEF Ended
  <2>3. ASSUME at = "done", ~hasResponse(res)
        PROVE  \/ req.upgrade /\ route # 0 /\ IsPrefix(Pre, ran)
               \/ Replaced
    <3>1. res.status = 0
      BY <2>3 DEF hasResponse
    <3>2. \/ req.upgrade /\ route # 0 /\ Len(Before) + Len(Pre) <= Len(ran)
          \/ Replaced
      BY <2>1, <2>3, <3>1, Zenon DEF Ended
    <3>3. ASSUME req.upgrade, route # 0, Len(Before) + Len(Pre) <= Len(ran)
          PROVE  IsPrefix(Pre, ran)
      BY <2>1, <3>3, RanPrefix, Zenon
    <3> QED BY <3>2, <3>3, Zenon
  <2> QED BY <2>2, <2>3, Zenon DEF Answered, Replaced, Pre
<1>2. Init => OInv
  BY OInvInit
<1>3. IInv /\ RInv /\ OInv /\ [Next]_vars => OInv'
  BY OInvNext
<1> QED BY <1>1, <1>2, <1>3, IInvInit, IInvNext, RInvInit, RInvNext, PTL DEF Spec

\* Handlers run in the order they were declared, and none once there is a response
\* (group(), Route::operator(), Route::upgrade(), Route::open()).
THEOREM HandlersInOrder ==
    ASSUME Declared
    PROVE  Spec => InOrder
<1>1. ASSUME RInv, OInv PROVE route # 0 => IsPrefix(ran, Chain)
  BY <1>1, RanPrefix DEF RInv, OInv
<1>2. ASSUME RInv, [Next]_vars
      PROVE  at' # "free" /\ hasResponse(res) => ran' = ran
  <2> SUFFICES ASSUME at' # "free", hasResponse(res) PROVE ran' = ran
    OBVIOUS
  <2>1. at \in {"done", "closed", "escaped"}
    BY <1>2 DEF RInv, Searching, hasResponse
  <2>2. CASE Updater
    BY <2>2, Zenon DEF Updater, SetTrustedProxies, AddProxy, AddProxyThrows, PublishProxies,
                UpdaterFrame
  <2>3. ASSUME NEW r \in Requests, Enter(r) PROVE FALSE
    BY <2>1, <2>3 DEF Enter
  <2>4. CASE Handling
    BY <2>1, <2>4 DEF Handling, RunGlobal, NoRoute, WsNoRoute, RunPre, RunHandler, RunPost,
              RunCors, ParseTarget, TryRoute, Unanswered, WsParse, WsTryRoute, WsOpened,
              Handshake, RunWsPre, RunWsHandler, RunWsPost
  <2>5. CASE Leave
    BY <2>5 DEF Leave, Continue
  <2>6. CASE UNCHANGED vars
    BY <2>6 DEF vars
  <2> QED BY <1>2, <2>2, <2>3, <2>4, <2>5, <2>6 DEF Next
<1>3. Init => OInv
  BY OInvInit
<1>4. IInv /\ RInv /\ OInv /\ [Next]_vars => OInv'
  BY OInvNext
<1> DEFINE Orderly == route # 0 => IsPrefix(ran, Chain)
           Quiet == at' # "free" /\ hasResponse(res) => ran' = ran
<1>5. RInv /\ OInv => Orderly
  BY <1>1
<1>6. RInv /\ [Next]_vars => Quiet
  BY <1>2
<1>7. Orderly' /\ Quiet => [/\ route' # 0 => IsPrefix(ran', Chain')
                            /\ at' # "free" /\ hasResponse(res) => ran' = ran]_vars
  OBVIOUS
<1> HIDE DEF Orderly, Quiet
<1> QED BY <1>3, <1>4, <1>5, <1>6, <1>7, IInvInit, IInvNext, RInvInit, RInvNext, PTL
        DEF Spec, InOrder

=============================================================================
