--------------------------- MODULE ProxyRequests ---------------------------
(***************************************************************************)
(* The request pipeline of the HTTPS proxy (proxy/mod.rs, forward.rs,      *)
(* websocket.rs) with the shared state its tasks meet in: what the edge    *)
(* defense has learned and banned (defense.rs), the governor's threat      *)
(* counter (maintenance.rs) and the telemetry ring (telemetry.rs).         *)
(*                                                                         *)
(* A connection carries several requests at once (ALPN offers h2).  A      *)
(* request runs without interruption between two awaits, but other tasks   *)
(* run beside it; at an await it may be dropped, when its stream is reset  *)
(* or its connection ends.                                                 *)
(*                                                                         *)
(* External, modelled from how the code uses them: phylax decides what is  *)
(* hostile, when a strike bans and what a 404 or a strike teaches; the     *)
(* upstream answers what it likes; hippodrome races.                       *)
(***************************************************************************)
EXTENDS ProxyConnections, TelemetryRing

CONSTANTS
  Request,  \* the requests clients may make
  Client,   \* client addresses
  ClientOf, \* the client of each connection
  Trusted,  \* the clients inside trusted_cidrs
  Loopback, \* the clients on this host
  Path,     \* normalised paths
  Agent,    \* User-Agents
  NoAgent,  \* the absence of one, as far as it can be read
  Decoy,    \* paths and agents phylax knows to be hostile from the start
  Spared,   \* agents phylax lets through on a path although it refuses them
  Defended, \* security.enable_defense
  Hedged    \* requests to a route that races several upstreams

\* What a request is, as far as the pipeline branches on it: badly framed, an
\* ACME challenge, hostile in itself (payload, ClientHello, canary), a WebSocket
\* upgrade its route allows, or none of these.
Kind == {"malformed", "acme", "hostile", "upgrade", "plain"}

ASSUME RequestAssumption ==
  /\ Request \subseteq
       [id : Nat, kind : Kind, conn : Conn, path : Path, agent : Agent \cup {NoAgent}]
  /\ IsFiniteSet(Request)
  /\ ClientOf \in [Conn -> Client]
  /\ Trusted \subseteq Client /\ Loopback \subseteq Client
  /\ NoAgent \notin Agent
  /\ Decoy \subseteq Path \cup Agent \cup {NoAgent}
  /\ Spared \subseteq (Agent \cup {NoAgent}) \X Path
  /\ Defended \in BOOLEAN /\ Hedged \subseteq Request
  /\ Entry = [request : Request, trapped : BOOLEAN]

\* The awaits of the pipeline: reading a challenge file, everything between the
\* first byte sent upstream (or collected for it) and the answer's head.
Awaiting == {"acme", "sending", "upgrading"}

\* Where a request ends: refused for its framing, trapped, answered from the
\* webroot, proxied (and recorded), turned away without a record, or dropped.
Ended == {"rejected", "trapped", "challenge", "proxied", "unrecorded", "dropped"}

Stage ==
  {"none", "ingress", "bots", "caught", "counted", "answered", "switched", "tunnel"}
    \cup Awaiting \cup Ended

VARIABLES
  stage,   \* where each request is
  learned, \* paths and agents that are trapped
  banned,  \* clients the perimeter refuses
  threats  \* total_trapped_threats

\* Observed by the properties, never read by the program.
VARIABLE barred \* requests with a reason to be trapped ever since they arrived

defense == <<learned, banned>>
vars == <<connVars, ringVars, stage, defense, threats, barred>>

TypeOK ==
  /\ ConnTypeOK
  /\ RingTypeOK
  /\ stage \in [Request -> Stage]
  /\ learned \subseteq Path \cup Agent \cup {NoAgent}
  /\ banned \subseteq Client
  /\ threats \in Nat
  /\ barred \subseteq Request

Init ==
  /\ ConnInit
  /\ RingInit
  /\ stage = [r \in Request |-> "none"]
  /\ learned = Decoy /\ banned = {}
  /\ threats = 0
  /\ barred = {}

-----------------------------------------------------------------------------
(* Defense. *)

ClientAt(r) == ClientOf[r.conn]

\* enable_defense guards every use of the defense, is_trusted its evaluation.
Screened(r) == Defended /\ ClientAt(r) \notin Trusted

\* What evaluate_perimeter denies: a banned client, a path that is a trap.
Denied(r) == ClientAt(r) \in banned \/ r.path \in learned

\* bot_guard.evaluate_perimeter is given the agent and the path: an agent refused
\* on one path is let through on another (/robots.txt).  A request without an
\* agent is refused like any other agent, but a client on this host that sends
\* none is not shown to the guard.
BotRefuses(r) ==
  /\ ~(ClientAt(r) \in Loopback /\ r.agent = NoAgent)
  /\ r.agent \in learned
  /\ <<r.agent, r.path>> \notin Spared

Cause(r) == r.kind = "hostile" \/ Denied(r) \/ BotRefuses(r)

\* harvest_canary_probe: phylax may learn the agent, if there is one.  And it may
\* or may not ban on this strike.
Punish(r) ==
  /\ banned' \in {banned, banned \cup {ClientAt(r)}}
  /\ learned' \in {learned, learned \cup ({r.agent} \ {NoAgent})}

\* r goes from one stage to another, and nothing else happens.
Moves(r, from, to) ==
  /\ stage[r] = from
  /\ stage' = [stage EXCEPT ![r] = to]

Alone == UNCHANGED <<connVars, ringVars, defense, threats, barred>>

\* r leaves its stage with a telemetry record.
Records(r, from, to) ==
  /\ Moves(r, from, to)
  /\ RecordEntry([request |-> r, trapped |-> to = "trapped"])
  /\ UNCHANGED <<connVars, defense, threats, barred>>

-----------------------------------------------------------------------------
(* handle_proxy_request_with_tls. *)

\* Requests are numbered in the order they arrive.
Arrive(r) ==
  /\ conn[r.conn] = "open"
  /\ r.id = Cardinality({q \in Request : stage[q] # "none"}) + 1
  /\ Moves(r, "none", "ingress")
  /\ barred' = IF Cause(r) THEN barred \cup {r} ELSE barred
  /\ UNCHANGED <<connVars, ringVars, defense, threats>>

\* Mutant: a framing violation is refused without being counted.
RejectUncounted(r) ==
  /\ r.kind = "malformed"
  /\ Moves(r, "ingress", "rejected")
  /\ Alone

\* validate_headers fails: a threat is counted, no record is left.
Reject(r) ==
  /\ r.kind = "malformed"
  /\ Moves(r, "ingress", "rejected")
  /\ threats' = threats + 1
  /\ UNCHANGED <<connVars, ringVars, defense, barred>>

\* A challenge path is answered before the defense is asked.
Acme(r) ==
  /\ r.kind = "acme"
  /\ Moves(r, "ingress", "acme")
  /\ Alone

\* Found, unreadable, invalid or not configured: no record in any case.
ServeAcme(r) == Moves(r, "acme", "challenge") /\ Alone

Inspected(r) == r.kind \notin {"malformed", "acme"}

\* Routing: any route serves as the default, so some target is always found.
Onward(r) == IF r.kind = "upgrade" THEN "upgrading" ELSE "sending"

\* Defense off, or a trusted client.
Bypass(r) ==
  /\ Inspected(r) /\ ~Screened(r)
  /\ Moves(r, "ingress", Onward(r))
  /\ Alone

\* The payload, ClientHello and canary branches.
Hostile(r) ==
  /\ Screened(r) /\ r.kind = "hostile"
  /\ Moves(r, "ingress", "caught")
  /\ Punish(r)
  /\ UNCHANGED <<connVars, ringVars, threats, barred>>

\* evaluate_perimeter denies.
Deny(r) ==
  /\ Inspected(r) /\ Screened(r) /\ r.kind # "hostile"
  /\ Denied(r)
  /\ Moves(r, "ingress", "caught")
  /\ Punish(r)
  /\ UNCHANGED <<connVars, ringVars, threats, barred>>

\* evaluate_perimeter allows: on to the bot guard.
Allow(r) ==
  /\ Inspected(r) /\ Screened(r) /\ r.kind # "hostile"
  /\ ~Denied(r)
  /\ Moves(r, "ingress", "bots")
  /\ Alone

\* Mutant: any request without an agent is let through, not only this host's.
BotCheckTrustsHeaderless(r) ==
  /\ Moves(r, "bots", IF BotRefuses(r) /\ r.agent # NoAgent THEN "caught" ELSE Onward(r))
  /\ Alone

\* The bot guard's verdict: the request is trapped or goes on to its route.
BotCheck(r) ==
  /\ Moves(r, "bots", IF BotRefuses(r) THEN "caught" ELSE Onward(r))
  /\ Alone

\* The caller counts the threat, then records it.
CountThreat(r) ==
  /\ Moves(r, "caught", "counted")
  /\ threats' = threats + 1
  /\ UNCHANGED <<connVars, ringVars, defense, barred>>

RecordThreat(r) == Records(r, "counted", "trapped")

-----------------------------------------------------------------------------
(* forward_http_request. *)

\* build_502_response: connecting or sending failed, or the race was lost by all.
Unavailable(r) == Records(r, "sending", "proxied")

\* The body does not fit: 413 and no record.  Only a hedged route collects it.
TooLarge(r) == r \in Hedged /\ Moves(r, "sending", "unrecorded") /\ Alone

\* handshake(io).await? : the error ends the request, nothing is recorded.  A
\* hedged steed turns it into a failed race.
HandshakeFails(r) == r \notin Hedged /\ Moves(r, "sending", "unrecorded") /\ Alone

\* The head of an answer that is not 404.
Answer(r) == Moves(r, "sending", "answered") /\ Alone

\* A 404: check_harvester_promotion tells phylax of the path, whoever asked for
\* it; phylax may promote it to a trap.
Answer404(r) ==
  /\ Moves(r, "sending", "answered")
  /\ learned' \in IF Defended THEN {learned, learned \cup {r.path}} ELSE {learned}
  /\ UNCHANGED <<connVars, ringVars, banned, threats, barred>>

RecordAnswer(r) == Records(r, "answered", "proxied")

-----------------------------------------------------------------------------
(* handle_websocket_upgrade. *)

\* Connecting fails: 502, but not by build_502_response; or the upstream breaks
\* the handshake or the exchange (`?`).  Nothing is recorded.
UpgradeFails(r) == Moves(r, "upgrading", "unrecorded") /\ Alone

\* Any answer but 101 is passed on.
UpgradeRefused(r) == Records(r, "upgrading", "proxied")

\* 101: the tunnel's task is spawned, then the upgrade is recorded.
Switch(r) == Moves(r, "upgrading", "switched") /\ Alone

RecordSwitch(r) == Records(r, "switched", "tunnel")

\* Either side closes, or the client's half of the upgrade never comes.
TunnelEnds(r) == Moves(r, "tunnel", "proxied") /\ Alone

-----------------------------------------------------------------------------
\* The handler's future is dropped at an await.
Drop(r) ==
  /\ stage[r] \in Awaiting
  /\ stage' = [stage EXCEPT ![r] = "dropped"]
  /\ Alone

\* Bans from elsewhere: an operator's command, a rehydrated row, another strike.
Ban(a) ==
  /\ banned' = banned \cup {a}
  /\ UNCHANGED <<connVars, ringVars, stage, learned, threats, barred>>

\* A ban ends: it expires or is lifted.  Requests it alone barred no longer are.
Unban(a) ==
  /\ banned' = banned \ {a}
  /\ barred' = {r \in barred : \/ ClientAt(r) # a
                               \/ r.kind = "hostile"
                               \/ r.path \in learned
                               \/ BotRefuses(r)}
  /\ UNCHANGED <<connVars, ringVars, stage, learned, threats>>

\* What a task does by itself, in the order the code does it.
Proceed(r) ==
  \/ Reject(r) \/ Acme(r) \/ ServeAcme(r) \/ Bypass(r)
  \/ Hostile(r) \/ Deny(r) \/ Allow(r) \/ BotCheck(r)
  \/ CountThreat(r) \/ RecordThreat(r)
  \/ RecordAnswer(r) \/ RecordSwitch(r)

\* What the upstream decides.
Upstream(r) ==
  \/ Unavailable(r) \/ TooLarge(r) \/ HandshakeFails(r)
  \/ Answer(r) \/ Answer404(r)
  \/ UpgradeFails(r) \/ UpgradeRefused(r) \/ Switch(r) \/ TunnelEnds(r)

Next ==
  \/ ConnNext /\ UNCHANGED <<ringVars, stage, defense, threats, barred>>
  \/ \E r \in Request : Arrive(r) \/ Proceed(r) \/ Upstream(r) \/ Drop(r)
  \/ \E a \in Client : Ban(a) \/ Unban(a)

Spec == Init /\ [][Next]_vars

-----------------------------------------------------------------------------
\* The threat counter of the governor is what telemetry shows as trapped, plus
\* the framing violations, which leave no record, plus the requests between the
\* count and the record.  No task's trap is lost or counted twice.
Trapped == {i \in DOMAIN log : log[i].trapped}

ThreatsAccounted ==
  threats = Cardinality({r \in Request : stage[r] \in {"rejected", "counted"}})
              + Cardinality(Trapped)

\* A request that arrived with a reason to be trapped (hostile in itself, a client
\* banned, a path learned, an agent the bot guard refuses on that path), and never
\* lost it while it was being screened, does not reach an upstream: what is
\* learned or banned is in force for every later request, on whatever connection,
\* although path and client are looked up at one moment and the agent at another.
BarredNeverForwarded ==
  \A r \in barred :
    Screened(r) =>
      stage[r] \notin {"sending", "upgrading", "answered", "switched", "tunnel", "proxied"}
=============================================================================
