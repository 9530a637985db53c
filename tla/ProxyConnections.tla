-------------------------- MODULE ProxyConnections --------------------------
(***************************************************************************)
(* Client connections of the HTTPS listener (proxy/mod.rs) and the two     *)
(* counters of the governor they move (maintenance.rs).  The accept loop   *)
(* counts a connection as served, then as active, and hands it to a task   *)
(* with a guard that counts it out when the task ends, however it ends: a  *)
(* failed handshake, an error, a peer that hung up, a WebSocket upgrade    *)
(* that takes the socket away.                                             *)
(***************************************************************************)
EXTENDS Naturals, FiniteSets

CONSTANT Conn \* the connections clients make

ASSUME ConnAssumption == IsFiniteSet(Conn)

VARIABLES
  conn,   \* where each connection is
  served, \* total_connections_served
  active  \* current_active_connections

connVars == <<conn, served, active>>

\* The connection task, and with it the guard, exists.
Live == {"handshake", "open"}

ConnTypeOK ==
  /\ conn \in [Conn -> {"new", "served", "closed"} \cup Live]
  /\ served \in Nat /\ active \in Nat

ConnInit ==
  /\ conn = [c \in Conn |-> "new"]
  /\ served = 0 /\ active = 0

\* accept, and the first half of register_connection.  The loop is one task: it
\* is between the halves for one connection at a time.
AcceptServed(c) ==
  /\ conn[c] = "new" /\ \A d \in Conn : conn[d] # "served"
  /\ conn' = [conn EXCEPT ![c] = "served"]
  /\ served' = served + 1
  /\ UNCHANGED active

\* The second half, the guard, and the spawn of the connection's task.
AcceptActive(c) ==
  /\ conn[c] = "served"
  /\ conn' = [conn EXCEPT ![c] = "handshake"]
  /\ active' = active + 1
  /\ UNCHANGED served

\* The TLS handshake succeeds and the connection is served.
Handshake(c) ==
  /\ conn[c] = "handshake"
  /\ conn' = [conn EXCEPT ![c] = "open"]
  /\ UNCHANGED <<served, active>>

\* Mutant: the failed handshake counts the connection out, and so does the guard.
TlsFailsTwice(c) ==
  /\ conn[c] = "handshake"
  /\ conn' = [conn EXCEPT ![c] = "closed"]
  /\ active' = active - 2
  /\ UNCHANGED served

\* Mutant: the guard is taken only once the handshake has succeeded.
TlsFailsUnguarded(c) ==
  /\ conn[c] = "handshake"
  /\ conn' = [conn EXCEPT ![c] = "closed"]
  /\ UNCHANGED <<served, active>>

\* The handshake fails, or the client leaves in it: the early return drops the
\* guard, which the task owns from its start.
TlsFails(c) ==
  /\ conn[c] = "handshake"
  /\ conn' = [conn EXCEPT ![c] = "closed"]
  /\ active' = active - 1
  /\ UNCHANGED served

\* serve_connection_with_upgrades returns: the end of the connection, an error,
\* or an upgrade that takes the socket away.  When it does is hyper's and the
\* peers' business: nothing here times out.
ConnEnds(c) ==
  /\ conn[c] = "open"
  /\ conn' = [conn EXCEPT ![c] = "closed"]
  /\ active' = active - 1
  /\ UNCHANGED served

ConnStep(c) ==
  AcceptServed(c) \/ AcceptActive(c) \/ Handshake(c) \/ TlsFails(c) \/ ConnEnds(c)

ConnNext == \E c \in Conn : ConnStep(c)

ConnSpec == ConnInit /\ [][ConnNext]_connVars

-----------------------------------------------------------------------------
\* The two counters agree with the tasks between any two of their updates: active
\* is the number of connection tasks, so never more than served and never below
\* zero, in spite of the halves of register_connection and of the two places a
\* task returns from.  (The updates are Relaxed: a reader on another thread may
\* see the two counters in another order.  Tunnels of upgraded connections are
\* tasks of their own and are not counted.)
CountersAgree ==
  /\ active = Cardinality({c \in Conn : conn[c] \in Live})
  /\ served = Cardinality({c \in Conn : conn[c] # "new"})
=============================================================================
