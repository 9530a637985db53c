---------------------------- MODULE EdgeMessage ----------------------------
(***************************************************************************)
(* One message on its way through the edge: the routes the server starts   *)
(* with, the certificate its connection gets, what the framing guard, the  *)
(* router and the forwarder (proxy/mod.rs, forward.rs, websocket.rs) make  *)
(* of it, and what an upstream receives; or, on port 80, where it is       *)
(* redirected to (http_redirect.rs).                                       *)
(*                                                                         *)
(* These are the steps of one request, which share nothing with others;    *)
(* ProxyRequests has the same pipeline with all that is shared in it.      *)
(***************************************************************************)
EXTENDS FramingGuard, RouteTable

CONSTANTS
  Config,    \* configurations: sequences of routes
  Message    \* what clients send: method, lengths, codings (FramingGuard), the
             \* identity headers they forged, host, upgrade, and their body's size

ASSUME ConfigAssumption == Config \subseteq Seq(Route)

\* External: of a message whose length is one number hyper hands on no more bytes
\* than that.
ASSUME MessageAssumption ==
  /\ Message \subseteq
       [method : STRING, lengths : Seq(LengthValue), codings : Seq(Coding),
        forged : SUBSET Identity, host : Written, upgrade : BOOLEAN, body : Nat]
  /\ \A m \in Message :
       m.lengths # << >> /\ Validate(m) = 200 =>
         m.body <= Number[m.lengths[1].elements[1]]

VARIABLES
  routes, \* the configuration
  stage,  \* where the message is
  sni,    \* the server name of the handshake: << >> for none
  cert,   \* the route whose certificate was presented
  message,
  headers, \* its identity headers
  target,  \* the number of its route
  sent     \* what has left for an upstream, or the redirect

edgeVars == <<routes, stage, sni, cert, message, headers, target, sent>>

EdgeInit ==
  /\ routes \in Config
  /\ stage = "starting"
  /\ sni = << >> /\ cert = 0 /\ message = << >>
  /\ headers = << >> /\ target = 0 /\ sent = << >>

-----------------------------------------------------------------------------
\* cli.rs: a configuration that is not valid, or whose names TLS does not take,
\* ends the program.
Start ==
  /\ stage = "starting"
  /\ stage' = IF Valid(routes) /\ Registered(routes) THEN "serving" ELSE "refused"
  /\ UNCHANGED <<routes, sni, cert, message, headers, target, sent>>

\* acceptor.accept.
Handshake(name) ==
  /\ stage = "serving"
  /\ stage' = "connected"
  /\ sni' = name
  /\ cert' = IF name = << >> THEN 1 ELSE Certificate(routes, name[1])
  /\ UNCHANGED <<routes, message, headers, target, sent>>

\* handle_proxy_request_with_tls: framing, then identity.
Receive(m) ==
  /\ stage = "connected"
  /\ message' = m
  /\ IF Validate(m) = 200
       THEN stage' = "accepted" /\ headers' = Sanitize(Given(m))
       ELSE stage' = "rejected" /\ UNCHANGED headers
  /\ UNCHANGED <<routes, sni, cert, target, sent>>

Tunnels(m, r) == m.upgrade /\ r.websocket

\* Routing, and the headers the chosen way of forwarding adds.
Dispatch ==
  /\ stage = "accepted"
  /\ target' = Resolve(routes, message.host)
  /\ headers' = PrepareUpstream(headers)
  /\ stage' = LET r == routes[target']
              IN  CASE Tunnels(message, r) -> "tunnel"
                    [] ~Tunnels(message, r) /\ Raced(r) # << >> -> "race"
                    [] OTHER -> "direct"
  /\ UNCHANGED <<routes, sni, cert, message, sent>>

\* What arrives at the upstreams in `to`, the host being the route's first domain.
Delivery(to) ==
  [to |-> to, host |-> routes[target].domains[1], identity |-> headers,
   body |-> message.body]

\* Mutant: the race does not wait for the body.
RaceAtOnce(to) == sent' = Delivery(to) /\ stage' = "sent"

\* Limited::new(body, max_bytes): collected first, 413 if it does not fit.
CollectAndRace(to) ==
  IF message.body <= MaxBody
    THEN sent' = Delivery(to) /\ stage' = "sent"
    ELSE stage' = "oversized" /\ UNCHANGED sent

Race ==
  /\ stage = "race"
  /\ CollectAndRace(Raced(routes[target]))
  /\ UNCHANGED <<routes, sni, cert, message, headers, target>>

\* The body is streamed to one upstream; so are a tunnel's bytes.
SendDirect ==
  /\ stage \in {"direct", "tunnel"}
  /\ sent' = Delivery(<<ResolvedUpstreams(routes[target])[1]>>)
  /\ stage' = "sent"
  /\ UNCHANGED <<routes, sni, cert, message, headers, target>>

\* What stands before the first colon; neither blanks nor case are touched.
Portless(w) ==
  [w EXCEPT !.name = IF w.name \in Literal THEN Cut ELSE w.name, !.port = FALSE]

\* The redirector: https, the same name, no port.
Redirect(m) ==
  /\ stage = "serving"
  /\ message' = m
  /\ sent' = Portless(m.host)
  /\ stage' = "redirected"
  /\ UNCHANGED <<routes, sni, cert, headers, target>>

EdgeNext ==
  \/ Start \/ Dispatch \/ Race \/ SendDirect
  \/ \E name \in {<< >>} \cup {<<n>> : n \in Name \ Literal} : Handshake(name)
  \/ \E m \in Message : Receive(m) \/ Redirect(m)

EdgeSpec == EdgeInit /\ [][EdgeNext]_edgeVars

-----------------------------------------------------------------------------
\* The lengths a message gives, in whatever line and element.
Lengths(m) ==
  {Number[e] : e \in UNION {ToSet(m.lengths[i].elements) : i \in DOMAIN m.lengths}}

\* A message that goes on says its length in one way: all elements of all its
\* Content-Length lines are the same number, within the limit, and none of them
\* stands beside a Transfer-Encoding.  An upstream that reads the last of them, or
\* the first, reads the same message.
AcceptedLengthIsUnambiguous ==
  stage \notin {"starting", "refused", "serving", "connected", "rejected", "redirected"} =>
    /\ Cardinality(Lengths(message)) <= 1
    /\ Lengths(message) \subseteq 0 .. MaxBody
    /\ message.lengths = << >> \/ message.codings = << >>

\* In the headers the guard strips an upstream is told of the socket's peer only, and
\* of nothing the client said, although two functions in a row write them.  A header
\* the guard does not know reaches the upstream as the client wrote it.
StrippedTellThePeer ==
  stage = "sent" =>
    /\ \A h \in {"X-Forwarded-For", "X-Real-IP"} :
         sent.identity[h] # << >> /\ ToSet(sent.identity[h]) = {Peer}
    /\ \A h \in Stripped : "client" \notin ToSet(sent.identity[h])
    /\ sent.identity["Forwarded"] = Given(message)["Forwarded"]

\* The routes that list the name a Host header means.
Listing(host) ==
  {i \in DOMAIN routes :
     \E d \in ToSet(routes[i].domains) : d.name = host.name /\ host.name \notin Literal}

\* A message reaches the upstreams of the last route that lists its host, the
\* first route's if none does, under the name that route goes by: the first alone, or,
\* for a race, which takes two that differ, each of them once is registered with the
\* racer.  Which of those the racer asks is its own business.
MessageReachesItsRoute ==
  stage = "sent" =>
    LET listing == Listing(message.host)
        i == IF listing = {} THEN 1 ELSE CHOOSE k \in listing : \A j \in listing : j <= k
        own == routes[i].upstream \o routes[i].upstreams
        alone == Tunnels(message, routes[i]) \/ routes[i].hedged = <<FALSE>>
    IN  /\ sent.host = routes[i].domains[1]
        /\ IF alone THEN sent.to = <<own[1]>>
           ELSE ToSet(sent.to) = ToSet(own) /\ Len(sent.to) = Cardinality(ToSet(own))

\* One name leads to one route.  A client that asks for the name it greeted with is
\* shown the certificate of the very route its request is sent to: the two tables
\* agree on names listed twice and on names not listed.  And the name a redirect
\* leads to, on the port https has by default, is of the route it was asked for.
OneNameOneRoute ==
  /\ target # 0 /\ sni = <<message.host.name>> => cert = target
  /\ stage = "redirected" =>
       ~sent.port /\ Resolve(routes, sent) = Resolve(routes, message.host)

\* No upstream of a race gets a body above the limit.  Where one is not raced, only
\* a body whose length is not given can be larger.
LargeBodiesOnlyStreamed ==
  stage = "sent" /\ sent.body > MaxBody =>
    Len(sent.to) = 1 /\ message.lengths = << >>
=============================================================================
