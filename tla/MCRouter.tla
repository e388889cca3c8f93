------------------------------ MODULE MCRouter ------------------------------
(***************************************************************************)
(* Routing for TLC: two nested groups whose routes share a path with       *)
(* different methods, and a route behind them that has it too.             *)
(***************************************************************************)
EXTENDS Router

Fixed(text) == [name |-> "", values |-> {text}]
Param(name) == [name |-> name, values |-> {"v1", "me", "live"}]
Http(name) == [name |-> name, kind |-> "http"]
Ws(name) == [name |-> name, kind |-> "ws"]

Route(kind, methods, path, pre, handler, post, ok) ==
    [kind |-> kind, methods |-> methods, path |-> path, pre |-> pre, handler |-> handler,
     post |-> post, ok |-> ok]

Inner ==
    << Route("http", {"get"}, <<Param("id")>>, <<Http("check")>>, "show", <<Http("retry")>>, TRUE),
       Route("ws", {}, <<Fixed("live")>>, <<Ws("ticket")>>, "chat", <<Ws("hello")>>, TRUE),
       Route("http", {"post"}, <<Fixed("me")>>, <<>>, "save", <<>>, TRUE) >>

MCTables ==
    LET v1 == group(<<>>, <<Fixed("v1")>>, <<Http("limit")>>, <<>>, Inner)
        api == group(<<>>, <<Fixed("api")>>, <<Http("auth"), Ws("session")>>,
                     <<Http("last")>>, v1)
        bad == add(api, Route("http", {"get"}, <<Fixed("x")>>, <<>>, "bad", <<>>, FALSE))
    IN  {add(bad, Route("http", {"get", "post"}, <<Fixed("api"), Param("a"), Param("b")>>,
                        <<>>, "any", <<>>, TRUE))}

\* What the nesting above means
MCAround ==
    [show |-> [pre |-> <<"auth", "limit", "check">>, post |-> <<"last", "retry">>],
     chat |-> [pre |-> <<"session", "ticket">>, post |-> <<"hello">>],
     save |-> [pre |-> <<"auth", "limit">>, post |-> <<"last">>],
     any  |-> [pre |-> <<>>, post |-> <<>>]]

MCGlobals == <<"log", "cors", "quota">>

Origin(host) == [scheme |-> "https", host |-> host, port |-> 443]
Example == <<"example", "com">>
Origins == {NoOrigin, Origin(Example), Origin(<<"app">> \o Example),
            Origin(<<"a@">> \o Example), Origin(<<"other", "com">>)}

Allow(patterns, credentials) ==
    [allowed_origins |-> patterns, exposed |-> TRUE, allow_credentials |-> credentials]
Pattern(kind) == [kind |-> kind, origin |-> Origin(Example)]

MCOptions ==
    {Allow({Pattern("any")}, FALSE), Allow({Pattern("any")}, TRUE),
     Allow({Pattern("subdomain")}, TRUE),
     Allow({Pattern("exact"), Pattern("malformed")}, FALSE)}

V4(bits) == [v |-> 4, bits |-> bits]
V6(bits) == [v |-> 6, bits |-> bits]

\* A client, a proxy by its IPv4 address or its mapped one, another proxy
Client == V4(1)
Near == {V4(2), V6(6)}
Far == V4(3)

Came == {<<Client>>, <<Far>>} \cup {<<Client, n>> : n \in Near}
        \cup {<<Client, Far, n>> : n \in Near} \cup {<<Client, V6(1), V4(2)>>}

Asked(target, method, origin, asks, upgrade) ==
    [target |-> target, method |-> method, origin |-> origin, asks_method |-> asks,
     upgrade |-> upgrade]

Sent(asked, came, forged, real_ip) ==
    asked @@ [came |-> came, forged |-> forged, real_ip |-> real_ip]

Targets == {NoTarget, <<"api", "v1", "me">>, <<"api", "v1", "live">>, <<"api", "me", "me">>,
            <<"x">>}

\* Every question from one place, one question from every place
MCRequests ==
    {Sent(Asked(target, method, origin, FALSE, FALSE), <<Client>>, <<>>, NoAddress) :
        target \in Targets, method \in {"get", "post"}, origin \in Origins}
    \cup {Sent(Asked(<<"x">>, "options", origin, asks, FALSE), <<Client>>, <<>>, NoAddress) :
             origin \in Origins, asks \in BOOLEAN}
    \cup {Sent(Asked(target, "get", NoOrigin, FALSE, TRUE), <<Client>>, <<>>, NoAddress) :
             target \in Targets}
    \cup {Sent(Asked(NoTarget, "get", NoOrigin, FALSE, TRUE), came, forged, real_ip) :
             came \in Came, forged \in {<<>>, <<NoAddress>>, <<Far>>, <<Far, V4(2)>>, <<V6(1)>>},
             real_ip \in {NoAddress, Far}}

Cidr(text, prefix) == [text |-> text, prefix |-> prefix]

\* 2 and 3 as a network, one by one, and with a prefix too long for IPv4
MCUpdates == {<<Cidr(V4(2), 1)>>, <<Cidr(V4(2), NoPrefix), Cidr(V6(7), NoPrefix)>>,
              <<Cidr(V4(3), NoPrefix), Cidr(V6(6), 3)>>}

=============================================================================
