-------------------------- MODULE MCProxyRequests --------------------------
(* A trusted client, one from elsewhere and one on this host, a connection each. *)
EXTENDS ProxyRequests, TLC

CONSTANTS mesh, visitor, local, c1, c2, c3, page, robots, bot

MCClientOf == (c1 :> mesh @@ c2 :> visitor @@ c3 :> local)
MCSpared == {<<bot, robots>>}
Req(i, k, c, p, a) == [id |-> i, kind |-> k, conn |-> c, path |-> p, agent |-> a]
\* First what is refused, struck, switched or trusted; then what can be forwarded,
\* with and without an agent, on a path where the agent is spared and on one where
\* it is not.
MCRequest ==
  {Req(1, k, c2, page, bot) : k \in Kind \ {"plain"}}
    \cup {Req(1, "hostile", c1, page, bot)}
    \cup {Req(2, "upgrade", c2, page, bot)}
    \cup {Req(2, "plain", c2, p, bot) : p \in {page, robots}}
    \cup {Req(2, "plain", c, page, NoAgent) : c \in {c2, c3}}
MCHedged == {r \in MCRequest : r.conn = c1}
MCEntry == [request : MCRequest, trapped : BOOLEAN]
=============================================================================
