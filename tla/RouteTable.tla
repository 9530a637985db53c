----------------------------- MODULE RouteTable -----------------------------
(***************************************************************************)
(* The configured routes (config/route.rs) and the two tables made of      *)
(* them when the proxy starts: the router's, which the Host header is      *)
(* looked up in (router.rs), and the TLS resolver's, which SNI is looked   *)
(* up in (tls.rs).                                                         *)
(***************************************************************************)
EXTENDS Integers, FiniteSets, SequencesExt

CONSTANTS
  Name,     \* host names and IPv6 literals, in lower case
  Literal,  \* the ones with a colon inside
  Cut,      \* what is left of those when a port is stripped: "["
  Addr      \* upstream addresses

ASSUME NameAssumption == Literal \subseteq Name /\ Cut \notin Name

\* A name as somebody writes it: with a port or without, loosely (in upper case,
\* with blanks around it) or not.
Written == [name : Name \cup {Cut}, port : BOOLEAN, loose : BOOLEAN]

\* What may be left out: << >>, or the one value that is given.
Maybe(S) == {<< >>} \cup {<<x>> : x \in S}

\* A [[routes]] entry.  covers: the DNS names its certificate is valid for.
Route ==
  [domains : Seq(Written), upstream : Maybe(Addr), upstreams : Seq(Addr),
   hedged : Maybe(BOOLEAN), websocket : BOOLEAN, covers : SUBSET Name]

-----------------------------------------------------------------------------
(* config/route.rs. *)

\* Mutant: an address listed twice stays twice.
UpstreamsRepeated(r) == r.upstream \o r.upstreams

\* resolved_upstreams; << >> where it fails.
ResolvedUpstreams(r) ==
  FoldLeft(LAMBDA list, a : IF Contains(list, a) THEN list ELSE Append(list, a),
           r.upstream, r.upstreams)

\* PropyleaConfig::validate.
Valid(routes) ==
  /\ routes # << >>
  /\ \A i \in DOMAIN routes :
       routes[i].domains # << >> /\ ResolvedUpstreams(routes[i]) # << >>

-----------------------------------------------------------------------------
(* router.rs and tls.rs. *)

\* A configured domain as both tables take it; its port, if any, stays.
Domain(w) == [w EXCEPT !.loose = FALSE]

\* clean_host: what stands before the first colon.
CleanHost(w) ==
  [name |-> IF w.name \in Literal THEN Cut ELSE w.name, port |-> FALSE, loose |-> FALSE]

\* Every domain with the number of its route, in the order they are inserted.
Entries(routes) ==
  FlattenSeq([i \in DOMAIN routes |->
    [j \in DOMAIN routes[i].domains |-> <<Domain(routes[i].domains[j]), i>>]])

\* A map after a sequence of inserts.
Inserted(entries) ==
  FoldLeft(LAMBDA map, e : [k \in DOMAIN map \cup {e[1]} |->
                              IF k = e[1] THEN e[2] ELSE map[k]],
           << >>, entries)

\* UpstreamRouter::resolve: the number of the route; the first is the default.
Resolve(routes, host) ==
  LET map == Inserted(Entries(routes))
  IN  IF CleanHost(host) \in DOMAIN map THEN map[CleanHost(host)] ELSE 1

\* build_sni_tls_acceptor: a name is refused if it is no DNS name or the route's
\* certificate does not cover it, and that ends the start.
Registered(routes) ==
  \A e \in ToSet(Entries(routes)) : ~e[1].port /\ e[1].name \in routes[e[2]].covers

\* Mutant: the resolver keeps the first certificate it is given for a name.
CertificateFirst(routes, sni) ==
  LET map == Inserted(Reverse(Entries(routes)))
      key == [name |-> sni, port |-> FALSE, loose |-> FALSE]
  IN  IF key \in DOMAIN map THEN map[key] ELSE 1

\* SovereignSniResolver: the number of the route whose certificate is presented
\* for a server name; none, and names not known, get the first route's.
Certificate(routes, sni) ==
  LET map == Inserted(Entries(routes))
      key == [name |-> sni, port |-> FALSE, loose |-> FALSE]
  IN  IF key \in DOMAIN map THEN map[key] ELSE 1

\* The upstreams raced on a route; << >> if it does not race.
Raced(r) ==
  LET addrs == ResolvedUpstreams(r)
      hedged == IF r.hedged = << >> THEN Len(addrs) > 1 ELSE r.hedged[1]
  IN  IF hedged /\ Len(addrs) > 1 THEN addrs ELSE << >>
=============================================================================
