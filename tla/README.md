# cppgate: TLA+ models and proofs

cppgate is a C++20 library for HTTP and WebSocket servers and clients on
Boost.Beast, with a connection pool and a lock-free ring buffer. This directory
models its components, above all those whose correctness depends on the order of
events on several threads, strands and connections, checks them with TLC on small
instances, and proves their safety properties with TLAPS for every instance: of the
connection pool, the ring buffer, the server with its sessions, both clients, the
router and the client IP behind proxies; what must eventually happen is left to TLC.
`PROJECT.json` lists components, runs, the source lines behind each definition,
hazards, findings and theorems.

## The system

| component | source | state | operations | interacts with |
| --- | --- | --- | --- | --- |
| Connection pool | `ConnectionPool.h` | `idle_`, `waiters_`, `open_`, `closed_`, one `Waiter` per waiting thread | `acquire`, `warmUp`, `release`, `discard`, `close` | the application's threads, factory and validate functions, called outside the lock |
| Ring buffer | `RingBuffer.h` | `head`, `tail`, a sequence number and an item per slot | `push`, `pop` | any number of threads, no lock |
| Listener | `Listener.h` | acceptor, retry timer | `run`, `stop` | launches HTTP sessions; `stop` runs on any thread |
| Session registry | `SessionRegistry.h` | weak references to live sessions, `stopping_` | `add`, `remove`, `stopAll` | Listener and all sessions |
| HTTP session | `HttpSession.h`, `detail/TlsStream.h` | parser, response queue, `waiting_`, `linger_`, `lingering_`, the stream (plain or TLS) with its deadline | one handler per completion, `stop` | router; hands an upgrade to a WebSocket session |
| WebSocket session | `WebSocketSession.h`, `WebSocketContext.h` | write queue, `pending_`, `closing_`, `closed_`, callbacks | handlers, `send*`, `close`, `stop` from any thread | router (`upgrade`, `open`), application callbacks |
| Router | `Router.h`, `Router.cpp` | routes, middleware and replaced handlers, fixed after start; the list of trusted proxies, replaced at run time | `add`, `group`, `use`, `setTrustedProxies`, `route`, `upgrade`, `open` | sessions, the application's handlers, which answer, pass or throw |
| Trusted proxies | `TrustedProxies.cpp` | a list of networks | `add`, `contains`, `resolve` | router, once per request |
| CORS middleware | `Cors.cpp` | the compiled policy | `compile`, the middleware | a global middleware of the router |
| HTTP client | `HttpClient.cpp`, `ClientCommon.cpp` | kept alive connections per host, requests in flight, `closed`; per call a strand, its one operation, a deadline, `reused`, `retried` | `send`, `cancel`, `wait`, destructor | its own io threads; callbacks that send again |
| WebSocket client | `WebSocketClient.cpp` | attempt generation, retry timer, send queue, state | `connect`, `send`, `close`, destructor | same |
| Logging, CA bundle, examples, build | | | | not modelled: output, data, packaging |

What is hard here:

* A strand runs one handler at a time, but `stop()`, `send*()` and `close()` come
  from other threads and only *post*: what they want happens later, behind
  tasks already queued. Cancelling an operation has no effect on a completion
  that is already in the queue.
* The pool calls the factory, the validate function and destructors outside its
  lock, with a slot reserved, and values read under the lock are used after it.
* A waiter can time out at the moment it is served.
* The ring buffer has no lock at all.
* Deadlines belong to the stream, not to an operation.
* A kept alive connection may be closed by the server at any time: the HTTP
  client must retry what is safe to retry, once, and nothing else; and it must
  not reuse a connection on which an answer is still owed.
* Destructors race with callbacks that start new work.
* A handler may throw after it answered, or never answer; headers set early must
  survive whatever answers late.
* `X-Forwarded-For` is written partly by our proxies and partly by anyone.

## Modules

| module | models | instances |
| --- | --- | --- |
| `ConnectionPool` | `ConnectionPool.h`: one action per section under the mutex or per call outside it | `MCConnectionPool` |
| `FairSemaphore` | what the pool promises about waiting: a closable, first come first served semaphore | through `ConnectionPool` (`Sem`) |
| `SeqLemmas` | lemmas on sequences, on counting tasks in one and on a strand that holds one task of interest; induction on natural numbers, as a fact about sets of them | |
| `WebSocketSession` | one WebSocket connection, its callbacks, and the registry as it meets it | `MCWebSocketSession` |
| `HttpSession` | HTTP connections: one action per handler and outcome; the registry's state | through `Listener` |
| `Listener` | the server: extends `HttpSession` with the acceptor's strand and the thread in `stop()` | `MCListener` |
| `WebSocketClient` | one client connection over all its attempts, the threads that send, the handle, the client's destructor | `MCWebSocketClient` |
| `RingBuffer` | `RingBuffer.h` at the grain of its atomic accesses | `MCRingBuffer` |
| `HttpClient` | the calls of one client to one host, the connections they share, `cancel()`, the destructor | `MCHttpClient` |
| `TrustedProxies` | addresses, CIDRs and `resolve()` as operators | through `Router` |
| `Cors` | the policy and the middleware as operators on a response | through `Router` |
| `Router` | composes both: a request or an upgrade through middleware, routes and handlers, while another thread replaces the list of proxies | `MCRouter` |
| `ConnectionPoolProofs`, `RingBufferProofs`, `WebSocketSessionProofs`, `ListenerProofs`, `HttpClientProofs`, `WebSocketClientProofs`, `RouterProofs` | theorems about the module each is named for; `ListenerProofs` also about `HttpSession`, `RouterProofs` also about `Cors` and `TrustedProxies` | |

Variables carry the names of the members they model (`idle_`, `waiting_`,
`pending_`); ghost variables are commented as such. A strand is a sequence of
tasks; an action named like a handler runs the task at its head. Actions
under a heading "external" are Beast, Asio and the peer, modelled by what the
code relies on. The *faulty variants* in each module are slips a programmer
could make in one definition; they are not part of any specification and show
that the properties can fail.

### Abstractions

* Pool: connections are identities; how long one was idle is chosen when
  `checkOut()` reads the clock; a timeout may fire whenever the thread waits.
  Handles may be released by any thread, so `Release`, `Discard` and `Close`
  do not belong to a member of `Threads`.
* WebSocket session: a message is its number in the order of posting; close
  codes are the four the code uses; the close handshake is "the stream ends".
* HTTP session: the bytes of a request are not modelled, the parser's outcomes
  are (more, complete, refused, end, error). A read of the TLS stream completes
  with data of the request. Data in `buffer_` (after the TLS detection, or
  pipelined) is "none", "part" or "whole" of a header. The deadline of
  `expires_after()` is armed, passed or closed: a passed deadline makes the
  pending or the next operation fail and closes the stream, as Beast documents.
  `stream_.emplace` is two steps, since `stop()` reads `stream_` without a lock.
  A connection handed to a WebSocket session lives until it ends by itself or
  was told to stop; `WebSocketSession` (`EndsReported`) justifies the latter.
* WebSocket client: the operations outstanding are a bag of kinds with the
  generation their handler captured; a cancelled resolve fails, a step that
  completed before stays completed. A message is the generation its `send()`
  loaded. Delays are numbers without jitter, the timer may expire at any time.
  Left out: the code given to `onClose`, `Callbacks::executor` (a callback runs
  within the handler that emits it), `protocol()` and `upgradeStatus()`.
* Ring buffer: sequentially consistent interleavings of the atomic accesses; the
  acquire/release pairs order the accesses to `data`, whose value is `Torn` while
  it is written. Positions do not wrap (2^64 pushes).
* HTTP client: a call is a record in `call`, with its strand, its operation and
  its connection; a connection is owned by one call or by `idle`, as its
  `unique_ptr` is, and carries the calls whose requests it took and whose answers
  it still owes. Header and body are one write and one read that may take several
  steps; `send()` is two steps, under the mutex (`Register`) and after it
  (`Dispatch`). A finished call keeps only what its callback sees. `cancel()` is
  called at most once per call.
* Router: a path is a sequence of segments and a pattern a sequence of the
  segments it accepts, so a trailing slash and the regular expressions RE2 builds
  are left out; a pattern RE2 refuses is a flag of the route. A handler is its
  name and what it may do: `send`, `pass`, `throw`, `send_throw` (for WebSockets
  what it returns). Requests share nothing but the list of proxies, so one is
  followed at a time; `Leave` drops it.
* Trusted proxies: addresses keep their arithmetic (masks, normalization of
  IPv4-mapped ones) at the widths `Width4` and `Width6`; the spelling is left out,
  a text is its address or `NoAddress`.
* CORS: an origin is a scheme, the labels of its host and a port; header values
  that depend on the options alone are flags.

## Runs

Every passing run checks safety and, where the specification is fair, liveness.

### Connection pool

`pool` (three threads, two slots, three connections, `min_size` 1, with `max_idle`
and a validate function): slots are counted exactly (`SlotsAccounted`), no more
than `max_size` connections are ever open, those being closed included
(`LiveBounded`), a connection has one owner (`OneOwner`), nobody waits while
something is available (`WaitersMeanFull`), a closed pool keeps nothing
(`ClosedIsEmpty`). A waiting thread is served even if its timeout never fires
and `close()` drains the pool for good (`ServedOrDrained`); the pool
implements `FairSemaphore` (`ServesInOrder`). Handles outlive the calls that
returned them, so all three threads can wait at once; the third connection
exists only if the pool opens too many. The theorems lift the safety part to
every instance. Fairness: a thread inside a call runs on, handles are released
at some time, destructors return. Nothing is assumed of timeouts or of `close()`.

`pool_expiry` (violated): two threads can both expire a connection on the same
`above_min` and leave fewer than `min_size`. Its specification leaves out every
other way to close a connection.

### WebSocket session

`websocket` (queue limit 2, three sends, a message, an application close, one
stop): `pendingMessages()` is exact on every path (`PendingExact`), one write and
one read at a time and messages written in order (`OneLoopEach`), callbacks in
the documented order with `onClose` last and once (`CallbackOrder`); `onClose` is
reported however the connection ends, a stop is never lost and a slow consumer
is disconnected (`EndsReported`). Three sends overflow a queue of two while a
write is outstanding; each bound is the smallest at which its interleavings
occur. Fairness: the io_context runs the strand; a handshake and a close
handshake end within Beast's timeouts; operations on an ended stream complete.
An open connection may stay open and a write may never complete.

`websocket_gap` (violated): after the queue refused a message, a later one can
be delivered before the posted close takes effect.

### Server

`server` (one connection; plain, TLS and mixed listeners; two calls of `stop()`):
the handlers of a connection are one chain (`OneContinuation`), the accept loop
neither ends nor doubles until it is closed (`AcceptLoop`), `stop()` ends
everything whatever the client does (`ServerStops`). Fairness: queued handlers
run, a deadline that was set passes and fails its operation, `stop()` runs to its
end. Nothing is assumed of clients.

`server_pair` (two connections, one `stop()`; the constraint `Pair` leaves out
failing accepts and expired deadlines, which `server` has): every registered
connection is told to stop or held to be told (`StopMissesNone`), `stop()` cuts no
request short and a stopping server writes at most one more response per
connection (`StopSparesRequests`), and a keep-alive connection between two requests is closed by `stop()` itself (`KeepAliveClosed`).

`server_idle` (violated): see the findings.

### WebSocket client

`wsclient` (one retry per failure; three events, at most two of them accepted
handshakes and the others messages sent or read; one `close()` or dropped
handle; the destructor at any time): a connection that is not
stopped waits for exactly one event that takes it further (`OneContinuation`); `pendingMessages()` is exact although threads are inside
`send()` and connections come and go (`PendingExact`); one write at a time
and no message reaches a later connection (`OneWriteLoop`), which needs the
generation in `send()` because loading it and posting are two steps; each
`onOpen` has its one `onClose`, and retries are counted, delayed and given up as
documented (`CallbackOrder`); nothing is tried after a close took effect, a
dropped handle stops the connection, and the destructor returns and leaves a
stopped connection (`CloseIsFinal`). The server accepts no third handshake, so
`max_attempts` ends every behaviour that nobody else ends; the second one is what
messages and completions of the first can disturb. Requests: reconnecting
without TLS, TLS without reconnecting, an invalid URL; TLS adds one step to an
attempt. Fairness: handlers run; resolving, connecting and handshakes end (all but
the resolve by a timeout the code sets); operations on an ended stream complete;
timers expire; `send()` and the destructor run on. An open connection may stay
quiet, and nobody has to close it.

### HTTP client

`httpclient` (two calls, a `get` the application may cancel and a `post` or a call
with a bad URL, TLS, one kept alive connection, the destructor at any time):
a call waits for exactly one event and its deadline bounds it, also after a retry
(`OneContinuation`); a `post` is never sent completely twice, however the server
closes a kept alive connection (`AtMostOnce`); a call gets its own answer, and the
connections kept are open, owe nothing, are `max_idle_per_host` at most and none
once the client is closed (`OwnAnswer`); every call completes, and the destructor
returns even if callbacks send again while it runs (`Completes`). Two calls are
enough for one to leave its connection to the other, in either order, and for one
to be sent from the callback of the other; `retry()` makes a third attempt on its
own. Without TLS an attempt has one step less. Fairness: threads run and
callbacks return, the resolver answers, connecting ends by `connect_timeout`,
operations on a closed socket fail, the deadline passes. A server may stay silent
for ever.

### Router

`router` (three routes from two nested groups, a route RE2 refuses and one without
group, three global middlewares with CORS as the second, replaced 404 and 405
handlers; four CORS policies, three lists of proxies): every handler may answer,
pass or throw at its place. The first route that fits serves, with its own
parameters, and 404 and 405 tell what they should (`RightRoute`); handlers run in
the order of their groups and none once there is an answer (`InOrder`, against the
nesting written down in `Around`); every request is answered, but for what the
replaced handlers leave out (`Answered`); CORS headers are on the answer for allowed
origins only, survive a 404 or a 500 and vary where they must (`CorsAnswer`); a
client IP is worked out with one whole list and cannot be forged (`TrueClient`).
The requests ask everything from one place and come from every place with one
question: the client IP does not depend on what is asked, nor the route on the
client. Two bits of IPv4 inside three of IPv6 have a mapped and an unmapped half
and prefixes of 0 to 3; the theorems lift this to all widths.

### Ring buffer

`ring` (two producers, two consumers, two slots, five pushes: slots are lapped
twice): a slot has one user and every item comes out once, whole, in order
(`PoppedAsPushed`), `pop()` reports empty only when the next item is not there
(`FalseIsEmpty`), every call returns (`CallsReturn`), if the application keeps
calling `pop()` and `compare_exchange_weak` does not fail forever.

`ring_one_slot` (violated): a buffer of one slot overwrites unread items.

## Findings

1. `ConnectionPool.h:262`: `above_min` is stale when used; expiry can go below
   `min_size` (`pool_expiry`).
2. `WebSocketSession.h:297`: between the refusal of a message and the posted
   close, later messages are still accepted (`websocket_gap`).
3. `HttpSession.h:196`: a stop between `add()` and `on_run()`, or one that finds
   its completion already queued, is lost; the idle connection waits for
   `http_timeout` (`server_idle`).
4. `RingBuffer.h:50`: one slot is too few for the sequence numbers
   (`ring_one_slot`).

Noticed while modelling, without a run of its own:

* `HttpSession.h:162`: `stop()` reads the variant `stream_` on its thread while
  `on_ssl_session()` replaces it on the strand, a data race. `ServerStops` allows for
  its outcomes.
* `WebSocketClient.cpp:399`: a close in the connecting phase drops its code, so a
  destructor that meets a resolve which has just succeeded closes with 1000 where
  `WebSocketClient.h:154` says 1001.
* `connect_timeout` covers neither client's resolve, although
  `WebSocketClient.h:64` ("DNS + TCP + TLS + WebSocket upgrade of one attempt") and
  `HttpClient.h:88` name DNS; the WebSocket upgrade gets a timeout of its own.
* The deadline `do_read()` sets (`HttpSession.h:328`), documented as the time to read a
  request, still runs while the response is written.
* `cancel()` that comes after the last completion was queued yields the response.
* A replaced 404 or 405 handler that throws leaves `route()`, and one that does not
  answer leaves status 0, where `README.md:99` promises 500. `Answered` states the
  exception.
* `use()` and replaced handlers given to the subrouter within `group()` are dropped;
  capture groups in a custom expression shift the parameters behind it; an
  invalid `{...}` truncates its pattern.
* `compile()` accepts `https://*.example.com/` with its slash, which matches nothing.

## Proofs

`ConnectionPoolProofs` proves, for any finite sets of threads and connections
and any `min_size <= max_size` (`PoolAssumption`, the constructor's check, and
enough identities for `max_size` connections), that every behaviour of the pool
satisfies `TypeOK`, `SlotsAccounted`, `OneOwner`, `WaitersMeanFull`,
`ClosedIsEmpty` and `LiveBounded`, and that the pool implements `FairSemaphore`.

None of these is inductive alone. That `open_` stays in `0 .. max_size` needs the
accounting of slots; the accounting needs that a connection handed over is not
also counted elsewhere (`OneOwner`) and that a thread's `Waiter`, its place in the
queue and its program counter agree (`Shape`); that a slot is free when one is
reserved needs the relation between waiters, idle connections and `open_`
(`Capacity`). The inductive invariant is their conjunction

    IInv == Types /\ Shape /\ OneOwner /\ SlotsAccounted /\ Capacity

each conjunct proved preserved action by action, with one lemma each for what
`giveBack()` and `dropped()` do to it. `LiveBounded` follows from it and from
the fact that connections being closed outside the lock after `close()` still fit
under `max_size`; the refinement maps `free` to unused plus idle slots and every
action to one of the semaphore's or to a stutter (`StepRefines`). `SeqLemmas`
holds the facts about `Append`, `Tail`, `Front` and `RemoveAt` they rest on.

`RouterProofs` proves first `NobodyForges`, about `TrustedProxies`: for any widths of addresses, any list
of networks, any way `came` that a request took and anything its client wrote
itself, `resolve()` returns the address nearest to us that is no proxy of ours, if
there is one on the way at all. If it is the peer, `contains()` of it is false and
the headers are not read. Otherwise the walk from the right meets what our
proxies appended before anything forged, and the nearest untrusted hop is the
largest index at which it can stop (`Hops`); `normalize()` being idempotent makes
`contains()` say the same of an address and of its normal form (`NormalFacts`).
Assumed: the widths are ordered, `Mapped` fits (`WidthAssumption`), and `NoAddress` is
none (`NoAddressAssumption`).

From there on it proves `TrueClient`, `RightRoute`, `CorsAnswer`, `Answered` and
`InOrder` of every behaviour of `Router`, for any routes, requests, policies and updates that are typed
(`RouterAssumption`, which also keeps the name `"cors"` for the CORS middleware).
`TrueClient` says only that the list a request used is a whole one; the inductive
invariant adds why:

    IInv == trusted_proxies_ \in Whole /\ used \in Whole /\ Building /\ Resolved

`Building`: the list under construction holds the networks of exactly the CIDRs
that are done, all of them valid, so that it is whole when none is left and
`PublishProxies` makes it visible. `Resolved`: the client IP of the request in hand
is what `resolve()` gave with that list. The rest is `NobodyForges`. Routing and CORS
need, besides,

    RInv == Shape /\ Searching /\ RightRoute /\ CorsHeaders

`Searching`: no route behind the index fits, and `path_matched` says whether one of
them would have with another method. `CorsHeaders`: until the CORS middleware ran there
are no such headers; afterwards they are those of `cors()` for this request, whatever
answers or throws, and a preflight request was answered by it.

`Answered` and `InOrder` compare what ran with the nesting of groups that `Around`
writes down. That the table holds the middleware as declared is what `group()` does
when the server is set up; it is a hypothesis of the two theorems (`Declared`), true of
the table `MCRouter` builds with `group()`, and the run with a faulty `group()` shows
that `InOrder` depends on it. The rest is the invariant

    OInv == Turn /\ Ended

`Turn`: how many handlers ran says at which one the request is, and they are the first
ones of its chain; so the next one to run is the next of the chain, the handler of the
route comes when all its middleware ran, and an upgrade opens behind all of its own.
`Ended`: who ends a request without an answer, or with an exception that `route()`
does not catch.

`RingBufferProofs` proves `TypeOK`, `PoppedAsPushed` and `FalseIsEmpty` for any number
of producers and consumers and any `Size > 1`. The hypothesis is in the theorems, not
in the model: with one slot the sequence number of a full slot is the one of a free
slot of the next lap, and `PoppedAsPushed` fails (finding 4). The inductive
invariant

    IInv == TypeOK /\ Cycle /\ Producing /\ Consuming /\ Popping

says that every slot is on its way from one position to the next, at most a lap
ahead of `tail`, to be pushed or to be popped (`Cycle`); that threads which touch a slot's
data hold different positions, the ones whose turn `sequence` announces (`Producing`,
`Consuming`); and that the items popped and those being read are as many as `tail`
positions taken (`Popping`), so that none is missing.

`WebSocketSessionProofs` proves `TypeOK`, `PendingExact`, `OneLoopEach` and
`CallbackOrder` for any queue limit and any number of sends, messages and closes.

    IInv == Types /\ Flags /\ Counting /\ WriteLoop /\ ReadLoop /\ Callbacks /\ Numbered

`WriteLoop`: a write or its completion is outstanding exactly while the queue is not
empty. `ReadLoop`: the handshake turns into the read, so there is at most one of
accept, read and their handlers. `Counting`: a message is being posted, on the
strand or queued, which bounds `pending_` from both sides. `Callbacks`: `onClose` was called
only if `closed_` is set. `Numbered`: what was written, is queued and is on the
strand is numbered upwards in this order.

`ListenerProofs` proves all six safety properties of the server, `TypeOK`,
`OneContinuation`, `StopSparesRequests`, `StopMissesNone`, `AcceptLoop` and
`KeepAliveClosed`, for any set of connections and any number of calls of `stop()`;
assumed is only that the placeholder `NoConnection` is no connection
(`ListenerAssumption`).

    IInv == Sessions /\ Registry /\ Loop /\ Typed

`Sessions`: a connection has not run yet, waits for one operation, has one task among
any number of `on_stop()`, replaces its stream, or is at its end; `Stage` says for each
handler it may come to next what its members are then (no response queued unless it is
about to be written, not waiting while it writes, at most one response after the
stop and none but the linger or the shutdown behind it, an aborted operation is none of a request
that began). `Heard`, part of it: a kept alive connection that was told waits for its
client only if an `on_stop()` is ahead on its strand. `Registry`: what is launched and
not gone is registered, and what is registered while `stopAll()` tells is told or to be
told. `Loop`: one accept, one wait, one task or one session being launched, or the
acceptor is closed. Each handler is shown to keep `Sessions` of its own connection
whatever the others do; registry and loop follow from what it changes outside.

`HttpClientProofs` proves `TypeOK`, `AtMostOnce`, `OwnAnswer` and `OneContinuation` for
any finite set of calls, any requests, any `max_idle_per_host` and both schemes
(`HttpClientAssumption`; the placeholder `NoConn` is no connection). The invariant
says of each call (`CallInv`) that it has not started, waits for one operation, has one
task among any number of aborts, or is finished; `Stage` says what its connection
owes (its own answer from the complete request to the complete response, nothing
else), which answer it has read, and how often it was sent: by this attempt once at
most, and before it only if it is idempotent and this is the retry. `Bounded`: its
deadline, an abort or one on its strand ends what it waits for. `Kept`: connections are
open and owe nothing when they come into `idle`, which is why the next call cannot read an
answer that is not its own.

`WebSocketClientProofs` proves `TypeOK`, `OneContinuation`, `PendingExact`,
`OneWriteLoop`, `CallbackOrder` and `ClosedForGood`, the safety part of `CloseIsFinal`,
for any finite set of sending threads, any limits and delays and any requests
(`ClientAssumption`: these are natural numbers and records of flags).

    IInv == /\ StrandOK /\ OpsOK /\ Types /\ Flags /\ Flow /\ Retrying /\ Writing
            /\ Pending /\ Limits /\ Bounded /\ Callbacks /\ Closing

Completions of earlier attempts stay on the strand or outstanding for as long as they
like, so everything is said of the current generation: `In(op)` counts an operation of
this attempt, outstanding or completed and waiting for its handler. `StrandOK` and
`OpsOK`: nothing carries a generation that is still to come, which is why a new
attempt begins with all of these counts at 0. `Flow`: in every state but `waiting` and
`stopped` exactly one thing of the attempt is in flight (the start, a step of
connecting, the read, or in `closing` what `read_done` and `close_done` lack). `Retrying`:
in `waiting` it is the timer or its expiry; one that expired before a close finds
the connection stopped. `Writing`: a write is in flight while the queue of an open
connection holds messages, all of this generation. `Pending`: messages are inside
`send()`, on the strand or in the queue. `Bounded`: attempts are counted against
handshakes and `failures`. `Callbacks`: `CallbackOrder` of the callbacks so far, with
`failures` as the number of retries among them, and nobody gave up unless the
connection is stopped; `RetriesDouble` derives from the delay of each retry, which
the code works out from the attempt number alone, that each is twice the one before.
`Closing`: a close that took effect set `stop_requested`, which `attempt()` looks at.

For the server and the HTTP client the strand is treated alike: `AllIn` and `OneBut`
of `SeqLemmas` say that it holds nothing, or exactly one task, besides those that may
come at any time, and `PostAside`, `PostMain` and `PopOne` what posting and running a
task make of it. The WebSocket client, where several operations of several attempts
are in flight, counts them instead (`Places`, and `Copies` in a bag).

TLC confirms the inductive invariants of these modules on their instances (that
of the ring buffer with `Nat` in `Cycle` bounded), which is no part of the runs.

Only model-checked: what must eventually happen (`Completes`, `CallsReturn`,
`CloseIsFinal` beyond its first part and the like), since fairness and ENABLED are
beyond the prover; and that `group()` makes of a nesting what was declared, a fold over
the routes of a group whose value takes an induction of its own.

## What would come next

1. A small life-cycle specification (trying, up, over) that `WebSocketClient`
   refines.
2. `Declared` from `group()` itself, by induction on the routes of a group.

## Not modelled

Logging (output only), the CA bundle and its generator (data), TLS itself, the
parsing and formatting of HTTP, URLs and addresses, examples, build files and
packaging: no state that these properties depend on, or data rather than control.
Of the modelled components these parts are left out: `Callbacks::executor` and the
progress callbacks of the clients, `wait()` (it only waits for a call to
complete), a client destroyed from its own callback (the thread is detached),
several hosts in one HTTP client (their lists are independent), capture groups in
custom expressions, and the getters.
