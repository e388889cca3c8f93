-------------------------------- MODULE Cors --------------------------------
(***************************************************************************)
(* The CORS middleware: sources/Middleware/Cors.cpp.                       *)
(*                                                                         *)
(* An origin is a scheme, the labels of a host and a port; an odd label    *)
(* holds one of the characters "/:@".  Of the headers of a response the    *)
(* model keeps Access-Control-Allow-Origin ("*" or the echoed origin),     *)
(* -Allow-Credentials, -Expose-Headers, the answer to a preflight          *)
(* (-Allow-Methods, -Allow-Headers, -Max-Age) and Vary.                    *)
(***************************************************************************)
EXTENDS Integers, Sequences, SequencesExt

CONSTANTS
    OddLabels,
    NoOrigin        \* a request without an Origin header

\* HttpResponse: status 0 means that nobody answered yet
NewResponse ==
    [status |-> 0, allow_origin |-> "none", credentials |-> FALSE, expose |-> FALSE,
     preflight |-> FALSE, vary |-> "none"]

hasResponse(res) == res.status # 0

\* Faulty variant: an answer that starts from a new response
sendAnew(res, status) == [NewResponse EXCEPT !.status = status]

\* send(), sendNotFound() ...: the headers set before stay
send(res, status) == [res EXCEPT !.status = status]

\* compile(): malformed origins throw, which ends the setup.  A pattern is
\* "any" (*), "exact", or "subdomain" (://*.) of an origin
malformed(pattern) == pattern.kind = "malformed"

compile(options) ==
    [any_origin  |-> \E p \in options.allowed_origins : p.kind = "any",
     exact       |-> {p.origin : p \in {q \in options.allowed_origins : q.kind = "exact"}},
     subdomains  |-> {p.origin : p \in {q \in options.allowed_origins : q.kind = "subdomain"}},
     exposed     |-> options.exposed,
     credentials |-> options.allow_credentials]

\* allows(): at least one label before the domain, none of them odd
isSubdomain(origin, domain) ==
    LET extra == Len(origin.host) - Len(domain.host)
    IN  /\ origin.scheme = domain.scheme /\ origin.port = domain.port
        /\ extra > 0
        /\ IsSuffix(domain.host, origin.host)
        /\ \A i \in 1 .. extra : origin.host[i] \notin OddLabels

allows(policy, origin) ==
    \/ policy.any_origin
    \/ origin \in policy.exact
    \/ \E domain \in policy.subdomains : isSubdomain(origin, domain)

\* A fixed "*" is the same for everyone
varies(policy) == ~(policy.any_origin /\ ~policy.credentials)

isPreflight(req) == req.method = "options" /\ req.asks_method

\* What every answer gets, whoever asks
varied(policy, res) ==
    [res EXCEPT !.vary = IF varies(policy) THEN "Origin" ELSE @]

\* What every answer to an allowed origin gets
allowed(policy, res) ==
    [res EXCEPT !.allow_origin = IF varies(policy) THEN "origin" ELSE "*",
                !.credentials = policy.credentials]

\* cors(): the middleware
cors(policy, req, res) ==
    LET base == varied(policy, res)
        open == allowed(policy, base)
    IN  IF req.origin = NoOrigin THEN base
        ELSE IF ~allows(policy, req.origin)
             THEN IF isPreflight(req) THEN send(base, 403) ELSE base
        ELSE IF ~isPreflight(req)
             THEN [open EXCEPT !.expose = policy.exposed]
        ELSE send([open EXCEPT !.preflight = TRUE, !.vary = "all"], 204)

=============================================================================
