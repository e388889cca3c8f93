------------------------------- MODULE Router -------------------------------
(***************************************************************************)
(* Routing: sources/Core/Router.cpp with its middleware, the client IP and *)
(* the HTTP or WebSocket handlers of the application.                      *)
(*                                                                         *)
(* Requests share nothing but the list of trusted proxies, which           *)
(* setTrustedProxies() may replace at any time from another thread: one    *)
(* request is followed at a time, one action per handler it runs.  What a  *)
(* handler does is the application's choice.                               *)
(*                                                                         *)
(* A path is the sequence of its segments, a pattern a sequence of         *)
(* elements: the segments each accepts, and the name of the parameter or   *)
(* "" for fixed text.  A custom expression is taken to hold no capture     *)
(* group of its own.                                                       *)
(***************************************************************************)
EXTENDS TrustedProxies, Cors

CONSTANTS
    Tables,         \* routes_ to consider, built with add() and group()
    Globals,        \* global_middlewares_, "cors" is the one of Cors
    Options,        \* CorsOptions to consider
    Custom,         \* BOOLEAN: setNotFoundHandler(), setMethodNotAllowedHandler()
    Requests,       \* what is asked: [target, method, origin, asks_method, upgrade],
                    \* and how it came: came, forged, real_ip, see TrustedProxies
    Updates,        \* lists of CIDRs given to setTrustedProxies()
    Around,         \* declared around each handler: [pre, post], see InOrder
    NoTarget,       \* a target that is no URL
    NoRequest       \* between two requests

VARIABLES
    routes_, policy,
    trusted_proxies_,
    updater,        \* setTrustedProxies(): [at, todo, built]
    at,             \* where the request is
    index,          \* the next middleware or route to look at
    req, ip,
    res,            \* HttpResponse
    path_matched, params,
    route,          \* index of the route that matched, 0 before
    used,           \* ghost: the list that ip was worked out with
    ran             \* ghost: handlers run for the request, in order

setupVars == <<routes_, policy>>
proxyVars == <<trusted_proxies_, updater>>
whoVars == <<req, ip, used>>
matchVars == <<path_matched, params, route>>
vars == <<setupVars, proxyVars, at, index, whoVars, res, matchVars, ran>>

(***************************************************************************)
(* Setup: routes and their patterns                                        *)
(***************************************************************************)
\* createRegexPattern() leaves the route out when RE2 refuses a pattern
add(routes, r) == IF r.ok THEN Append(routes, r) ELSE routes

\* Faulty variant: group() that puts its middleware behind that of the routes
groupBehind(routes, prefix, pre, post, sub) ==
    FoldLeft(LAMBDA acc, r : add(acc, [r EXCEPT !.path = prefix \o @, !.pre = @ \o pre,
                                                !.post = @ \o post]),
             routes, sub)

\* group(): its middleware comes before that of the routes, pre and post
group(routes, prefix, pre, post, sub) ==
    FoldLeft(LAMBDA acc, r : add(acc, [r EXCEPT !.path = prefix \o @, !.pre = pre \o @,
                                                !.post = post \o @]),
             routes, sub)

\* pathMatch(): a trailing slash is no segment
pathMatch(r, path) ==
    /\ Len(path) = Len(r.path)
    /\ \A k \in 1 .. Len(path) : path[k] \in r.path[k].values

\* ... and the parameters it captures, in the order of their names
captures(r, path) ==
    SelectSeq([k \in 1 .. Len(path) |-> [name |-> r.path[k].name, value |-> path[k]]],
              LAMBDA p : p.name # "")

\* Faulty variant: pathMatch() that does not reset the parameters
matchedAppends(r, path) ==
    IF pathMatch(r, path) THEN params \o captures(r, path) ELSE params

\* pathMatch(): params after the call
matched(r, path) == IF pathMatch(r, path) THEN captures(r, path) ELSE <<>>

isWebSocket(r) == r.kind = "ws"

\* The middleware of the route's own kind
own(r, middleware) == SelectSeq(middleware, LAMBDA m : m.kind = r.kind)
pre_middlewares == own(routes_[route], routes_[route].pre)
post_middlewares == own(routes_[route], routes_[route].post)

(***************************************************************************)
(* What requests, routes and options are.  "cors" names the middleware of  *)
(* Cors, and nothing else.                                                 *)
(***************************************************************************)
Names == STRING \ {"cors"}

ASSUME RouterAssumption ==
    /\ \A r \in Requests : /\ r.came \in Seq(Address) /\ r.came # <<>>
                           /\ r.forged \in Seq(Text)
                           /\ r.upgrade \in BOOLEAN /\ r.asks_method \in BOOLEAN
                           /\ "origin" \in DOMAIN r
    /\ Updates \subseteq Seq([text : Text, prefix : Nat \cup {NoPrefix}])
    /\ Globals \in Seq(STRING)
    /\ \A o \in Options : o.exposed \in BOOLEAN /\ o.allow_credentials \in BOOLEAN
    /\ \A t \in Tables :
           /\ t \in Seq(Range(t))
           /\ \A r \in Range(t) : /\ r.kind \in {"http", "ws"} /\ r.handler \in Names
                                  /\ \A list \in {r.pre, r.post} :
                                         own(r, list) \in Seq([name : Names, kind : {r.kind}])

Init ==
    /\ routes_ \in Tables
    /\ policy \in {compile(o) : o \in
                      {p \in Options : \A q \in p.allowed_origins : ~malformed(q)}}
    /\ trusted_proxies_ = {}
    /\ updater = [at |-> "idle", todo |-> <<>>, built |-> {}]
    /\ at = "free" /\ index = 1
    /\ req = NoRequest
    /\ ip = NoAddress /\ used = {}
    /\ res = NewResponse
    /\ path_matched = FALSE /\ params = <<>> /\ route = 0
    /\ ran = <<>>

(***************************************************************************)
(* setTrustedProxies()                                                     *)
(***************************************************************************)
UpdaterFrame == UNCHANGED <<setupVars, at, index, whoVars, res, matchVars, ran>>

SetTrustedProxies(cidrs) ==
    /\ updater.at = "idle"
    /\ updater' = [at |-> "adding", todo |-> cidrs, built |-> {}]
    /\ UNCHANGED trusted_proxies_
    /\ UpdaterFrame

\* Faulty variant: the list is filled while requests read it
AddProxyShared ==
    /\ updater.at = "adding" /\ updater.todo # <<>>
    /\ validCidr(Head(updater.todo))
    /\ updater' = [at |-> "adding", todo |-> Tail(updater.todo),
                   built |-> updater.built \cup {network(Head(updater.todo))}]
    /\ trusted_proxies_' = updater'.built
    /\ UpdaterFrame

AddProxy ==
    /\ updater.at = "adding" /\ updater.todo # <<>>
    /\ validCidr(Head(updater.todo))
    /\ updater' = [at |-> "adding", todo |-> Tail(updater.todo),
                   built |-> updater.built \cup {network(Head(updater.todo))}]
    /\ UNCHANGED trusted_proxies_
    /\ UpdaterFrame

\* add() throws: nothing is published
AddProxyThrows ==
    /\ updater.at = "adding" /\ updater.todo # <<>>
    /\ ~validCidr(Head(updater.todo))
    /\ updater' = [at |-> "idle", todo |-> <<>>, built |-> {}]
    /\ UNCHANGED trusted_proxies_
    /\ UpdaterFrame

PublishProxies ==
    /\ updater.at = "adding" /\ updater.todo = <<>>
    /\ trusted_proxies_' = updater.built
    /\ updater' = [at |-> "idle", todo |-> <<>>, built |-> {}]
    /\ UpdaterFrame

(***************************************************************************)
(* Handlers and middleware of the application                              *)
(***************************************************************************)
\* What an HTTP handler may do: answer, not answer, throw, throw after answering
Outcomes == {"send", "pass", "throw", "send_throw"}

threw(o) == o \in {"throw", "send_throw"}

\* The response after it
after(o) == IF o \in {"send", "send_throw"} THEN send(res, 200) ELSE res

\* internal_server_error_handler
error500(r) == send(r, 500)

Frame == UNCHANGED <<setupVars, proxyVars, whoVars>>

\* The request goes on with the next middleware, or at the place next
Continue(next, k) == at' = next /\ index' = k

Done == Continue("done", 1)

(***************************************************************************)
(* route()                                                                 *)
(***************************************************************************)
\* route() and upgrade() work out the client IP first
Enter(r) ==
    /\ at = "free"
    /\ req' = r
    /\ used' = trusted_proxies_
    /\ ip' = resolve(trusted_proxies_, Last(r.came), appended(r.forged, r.came), r.real_ip)
    /\ Continue(IF r.upgrade THEN "ws_parse" ELSE "global", 1)
    /\ UNCHANGED <<setupVars, proxyVars, res, matchVars, ran>>

\* One middleware of use(): a throw gives 500, a response ends the request
RunGlobal(o) ==
    /\ at = "global" /\ index <= Len(Globals) /\ Globals[index] # "cors"
    /\ ran' = Append(ran, Globals[index])
    /\ res' = IF threw(o) THEN error500(after(o)) ELSE after(o)
    /\ IF hasResponse(res') THEN Done ELSE Continue("global", index + 1)
    /\ UNCHANGED matchVars /\ Frame

RunCors ==
    /\ at = "global" /\ index <= Len(Globals) /\ Globals[index] = "cors"
    /\ ran' = Append(ran, "cors")
    /\ res' = cors(policy, req, res)
    /\ IF hasResponse(res') THEN Done ELSE Continue("global", index + 1)
    /\ UNCHANGED matchVars /\ Frame

ParseTarget ==
    /\ at = "global" /\ index > Len(Globals)
    /\ IF req.target = NoTarget
       THEN res' = error500(res) /\ Done
       ELSE Continue("match", 1) /\ UNCHANGED res
    /\ UNCHANGED <<matchVars, ran>> /\ Frame

\* The next route: of the other kind, of another path, of another method, or it
TryRoute ==
    /\ at = "match" /\ index <= Len(routes_)
    /\ LET r == routes_[index]
           tried == ~isWebSocket(r) /\ pathMatch(r, req.target)
       IN  /\ params' = IF isWebSocket(r) THEN params ELSE matched(r, req.target)
           /\ path_matched' = (path_matched \/ tried)
           /\ IF tried /\ req.method \in r.methods
              THEN route' = index /\ Continue("pre", 1)
              ELSE Continue("match", index + 1) /\ UNCHANGED route
    /\ UNCHANGED <<res, ran>> /\ Frame

\* 405 or 404, from a handler the application may have replaced; nothing catches
\* what that one throws
NoRoute(o) ==
    /\ at = "match" /\ index > Len(routes_)
    /\ Custom \/ o = "send"
    /\ res' = IF o = "send" THEN send(res, IF path_matched THEN 405 ELSE 404) ELSE res
    /\ IF threw(o) THEN Continue("escaped", 1) ELSE Done
    /\ UNCHANGED <<matchVars, ran>> /\ Frame

\* One handler of Route::operator(), within the catch of route(); without a
\* response it goes on at next
RunStep(name, o, next, k) ==
    /\ ran' = Append(ran, name)
    /\ res' = IF threw(o) THEN error500(after(o)) ELSE after(o)
    /\ IF hasResponse(res') THEN Done ELSE Continue(next, k)
    /\ UNCHANGED matchVars /\ Frame

RunPre(o) ==
    /\ at = "pre" /\ index <= Len(pre_middlewares)
    /\ RunStep(pre_middlewares[index].name, o, "pre", index + 1)

RunHandler(o) ==
    /\ at = "pre" /\ index > Len(pre_middlewares)
    /\ RunStep(routes_[route].handler, o, "post", 1)

RunPost(o) ==
    /\ at = "post" /\ index <= Len(post_middlewares)
    /\ RunStep(post_middlewares[index].name, o, "post", index + 1)

\* Faulty variant: a handler that does not answer is left at that
UnansweredSilent ==
    /\ at = "post" /\ index > Len(post_middlewares)
    /\ Done
    /\ UNCHANGED <<res, matchVars, ran>> /\ Frame

\* Nobody answered: 500
Unanswered ==
    /\ at = "post" /\ index > Len(post_middlewares)
    /\ res' = error500(res)
    /\ Done
    /\ UNCHANGED <<matchVars, ran>> /\ Frame

(***************************************************************************)
(* upgrade() and open()                                                    *)
(***************************************************************************)
WsParse ==
    /\ at = "ws_parse"
    /\ IF req.target = NoTarget
       THEN res' = error500(res) /\ Done
       ELSE Continue("ws_match", 1) /\ UNCHANGED res
    /\ UNCHANGED <<matchVars, ran>> /\ Frame

\* The next WebSocket route; the connection copies the parameters
WsTryRoute ==
    /\ at = "ws_match" /\ index <= Len(routes_)
    /\ LET r == routes_[index]
       IN  IF isWebSocket(r) /\ pathMatch(r, req.target)
           THEN params' = matched(r, req.target) /\ route' = index /\ Continue("ws_pre", 1)
           ELSE Continue("ws_match", index + 1) /\ UNCHANGED <<params, route>>
    /\ UNCHANGED <<path_matched, res, ran>> /\ Frame

WsNoRoute(o) ==
    /\ at = "ws_match" /\ index > Len(routes_)
    /\ Custom \/ o = "send"
    /\ res' = IF o = "send" THEN send(res, 404) ELSE res
    /\ IF threw(o) THEN Continue("escaped", 1) ELSE Done
    /\ UNCHANGED <<matchVars, ran>> /\ Frame

\* Route::upgrade(): refused with 403 or the status of reject(), 500 on a throw
RunWsPre(o) ==
    /\ at = "ws_pre" /\ index <= Len(pre_middlewares)
    /\ ran' = Append(ran, pre_middlewares[index].name)
    /\ res' = CASE o = "true" -> res
                [] o = "false" -> send(res, 403)
                [] o = "reject" -> send(res, 401)
                [] OTHER -> error500(res)
    /\ IF o = "true" THEN Continue("ws_pre", index + 1) ELSE Done
    /\ UNCHANGED matchVars /\ Frame

\* Accepted: the handshake follows (WebSocketSession), it may fail
Handshake(next) ==
    /\ at = "ws_pre" /\ index > Len(pre_middlewares)
    /\ Continue(next, 1)
    /\ UNCHANGED <<res, matchVars, ran>> /\ Frame

\* Route::open(), under the catch of open(): the handler, then post-middleware
RunWsHandler(o) ==
    /\ at = "ws_open"
    /\ ran' = Append(ran, routes_[route].handler)
    /\ Continue(CASE o = "true" -> "ws_post" [] o = "false" -> "done" [] OTHER -> "closed", 1)
    /\ UNCHANGED <<res, matchVars>> /\ Frame

RunWsPost(o) ==
    /\ at = "ws_post" /\ index <= Len(post_middlewares)
    /\ ran' = Append(ran, post_middlewares[index].name)
    /\ CASE o = "true" -> Continue("ws_post", index + 1)
         [] o = "false" -> Done
         [] OTHER -> Continue("closed", 1)
    /\ UNCHANGED <<res, matchVars>> /\ Frame

WsOpened ==
    /\ at = "ws_post" /\ index > Len(post_middlewares)
    /\ Done
    /\ UNCHANGED <<res, matchVars, ran>> /\ Frame

\* The request and its response go; for the next one all starts anew
Leave ==
    /\ at \in {"done", "closed", "escaped"}
    /\ Continue("free", 1)
    /\ req' = NoRequest /\ ip' = NoAddress /\ used' = {}
    /\ res' = NewResponse
    /\ path_matched' = FALSE /\ params' = <<>> /\ route' = 0
    /\ ran' = <<>>
    /\ UNCHANGED <<setupVars, proxyVars>>

Updater ==
    \/ \E cidrs \in Updates : SetTrustedProxies(cidrs)
    \/ AddProxy \/ AddProxyThrows \/ PublishProxies

Handling ==
    \/ \E o \in Outcomes : RunGlobal(o) \/ NoRoute(o) \/ WsNoRoute(o)
                           \/ RunPre(o) \/ RunHandler(o) \/ RunPost(o)
    \/ RunCors \/ ParseTarget \/ TryRoute \/ Unanswered
    \/ WsParse \/ WsTryRoute \/ WsOpened
    \/ \E next \in {"ws_open", "done"} : Handshake(next)
    \/ \E o \in {"true", "false", "reject", "throw"} : RunWsPre(o)
    \/ \E o \in {"true", "false", "throw"} : RunWsHandler(o) \/ RunWsPost(o)

Next == Updater \/ (\E r \in Requests : Enter(r)) \/ Handling \/ Leave

Spec == Init /\ [][Next]_vars

----------------------------------------------------------------------------
\* The lists setTrustedProxies() was called with, as a whole
Whole == {{}} \cup {{network(cidrs[k]) : k \in DOMAIN cidrs} :
                       cidrs \in {c \in Updates : \A k \in DOMAIN c : validCidr(c[k])}}

\* A request sees the old or the new list of proxies, never a part of one; and if
\* it passed anyone else on its way, the nearest of them is its client, whatever
\* it forged (setTrustedProxies(), TrustedProxies::resolve()).
TrueClient ==
    /\ used \in Whole
    /\ at # "free" /\ (\E k \in DOMAIN req.came : ~contains(used, req.came[k]))
           => ip = nearestUntrusted(used, req.came)

\* Route k is for the path of the request, and for its method
Knows(k) ==
    isWebSocket(routes_[k]) = req.upgrade /\ pathMatch(routes_[k], req.target)
Fits(k) == Knows(k) /\ (req.upgrade \/ req.method \in routes_[k].methods)

\* The first registered route of the request's kind that matches path and method
\* is served, with its own parameters and none of a route tried before; 405 only
\* if the path is known with other methods, 404 only if it is not known at all
\* (route(), upgrade(), pathMatch()).
RightRoute ==
    /\ route # 0 => /\ Fits(route) /\ \A k \in 1 .. route - 1 : ~Fits(k)
                    /\ params = captures(routes_[route], req.target)
    /\ res.status = 405 => /\ \E k \in DOMAIN routes_ : Knows(k)
                           /\ \A k \in DOMAIN routes_ : ~Fits(k)
    /\ res.status = 404 => \A k \in DOMAIN routes_ : ~Knows(k)

\* What was declared around the handler of the route, and the handler
Chain ==
    LET h == routes_[route].handler
    IN  (IF req.upgrade THEN <<>> ELSE Globals)
        \o Around[h].pre \o <<h>> \o Around[h].post

\* Handlers run in the order their groups were declared, outer first, those of
\* the other kind left out; none runs once there is a response, so nothing runs
\* behind a middleware that refused the request (group(), Route::operator()).
InOrder ==
    [][/\ route' # 0 => IsPrefix(ran', Chain')
       /\ at' # "free" /\ hasResponse(res) => ran' = ran]_vars

\* Every HTTP request is answered and what handlers throw is caught, and an
\* upgrade without an answer passed all its middleware; unless there was no route
\* and the replaced 404 or 405 handler did not answer or threw (route(), upgrade()).
Answered ==
    LET replaced == Custom /\ req.target # NoTarget /\ \A k \in DOMAIN routes_ : ~Fits(k)
        accepted == /\ req.upgrade /\ route # 0
                    /\ IsPrefix(Around[routes_[route].handler].pre, ran)
    IN  /\ at = "escaped" => replaced
        /\ at = "done" /\ ~hasResponse(res) => accepted \/ replaced

\* Access-Control-Allow-Origin for a request like this one from origin o
AllowOrigin(o) ==
    LET value == cors(policy, [req EXCEPT !.origin = o], NewResponse).allow_origin
    IN  <<value, IF value = "origin" THEN o ELSE NoOrigin>>

\* Once the CORS middleware ran, the answer has its headers for an allowed origin
\* and for no other, whoever gives it, 404, 405 and 500 included; a preflight is
\* answered at once; credentials never come with "*"; and where origins get
\* different answers, all of them say so to caches (cors(), HttpResponse::send()).
CorsAnswer ==
    LET origins == {r.origin : r \in Requests} \ {NoOrigin}
        allowed_origin == req.origin # NoOrigin /\ allows(policy, req.origin)
    IN  at = "done" /\ "cors" \in Range(ran) =>
        /\ (res.allow_origin # "none") = allowed_origin
        /\ res.credentials => res.allow_origin = "origin"
        /\ (\E o, p \in origins : AllowOrigin(o) # AllowOrigin(p)) => res.vary # "none"
        /\ isPreflight(req) /\ req.origin # NoOrigin =>
               /\ res.status = IF allowed_origin THEN 204 ELSE 403
               /\ Last(ran) = "cors"

=============================================================================
