---------------------------- MODULE MCEdgeInputs ----------------------------
(* What the edge makes of one input, each on inputs of its own: `subject` says
   which of them a behaviour is about, and the others rest. *)
EXTENDS ClientHello, EdgeMessage, TextGuards, TelemetryRing, AcmeWebroot

VARIABLE subject

vars == <<subject, helloVars, edgeVars, text, ringVars, acmeVars>>

-----------------------------------------------------------------------------
(* Hellos: ten ciphers and three extensions, longer than a peek; GREASE as third
   cipher and more bytes than read as "h2"; GREASE as extension only; the least
   there is. *)

Ext(t, b) == [type |-> t, body |-> b]
Alpn == Ext(16, <<0, 3, 2, 104, 50>>)

MCHello ==
  { [session |-> 0, ciphers |-> [i \in 1 .. 10 |-> IF i = 2 THEN 2570 ELSE 4865],
     compression |-> 1, extensions |-> <<Ext(14906, << >>), Ext(0, <<7>>), Alpn>>],
    [session |-> 2, ciphers |-> <<4865, 64250, 10, 49195, 49196>>, compression |-> 0,
     extensions |-> <<Alpn, Ext(43, <<2, 104>>), Ext(23, << >>)>>],
    [session |-> 1, ciphers |-> <<49195, 10>>, compression |-> 1,
     extensions |-> <<Ext(27, <<104, 50, 0>>), Ext(2570, <<0>>)>>],
    [session |-> 0, ciphers |-> << >>, compression |-> 1, extensions |-> << >>] }

MCClaims ==
  { {}, {"Chrome", "Safari"}, {"CriOS", "Safari", "Version"}, {"Safari", "Version"},
    {"Safari"}, {"Chrome", "Safari", "Edg"}, {"Edge"}, {"Chrome", "spider"} }

-----------------------------------------------------------------------------
(* Routes: one; a name listed twice, loosely the first time, with a pool; a pool of
   one address listed twice, and one that is not raced; and what cannot serve: no
   route, no name, no upstream, a port in a name, a name without certificate. *)

CONSTANTS u1, u2, peer \* upstream addresses, a client's

MCName == {"a", "b", "a.", "[6]"}

As(n) == [name |-> n, port |-> FALSE, loose |-> FALSE]
Loosely(n) == [name |-> n, port |-> FALSE, loose |-> TRUE]
WithPort(n) == [name |-> n, port |-> TRUE, loose |-> FALSE]

Serving(domains, upstream, upstreams, hedged, websocket) ==
  [domains |-> domains, upstream |-> upstream, upstreams |-> upstreams,
   hedged |-> hedged, websocket |-> websocket, covers |-> {"a", "b"}]

Single == Serving(<<As("a")>>, <<u1>>, << >>, << >>, FALSE)

MCConfig ==
  { << >>,
    <<Single>>,
    <<Serving(<<As("a"), Loosely("b")>>, <<u1>>, <<u1, u2>>, << >>, TRUE),
      Serving(<<As("b")>>, << >>, <<u2>>, <<TRUE>>, FALSE)>>,
    <<Serving(<<As("b")>>, << >>, <<u2, u2>>, << >>, TRUE),
      Serving(<<Loosely("a")>>, <<u2>>, <<u1>>, <<FALSE>>, TRUE)>>,
    <<Serving(<<As("b")>>, <<u2>>, << >>, << >>, FALSE),
      Serving(<<As("a")>>, << >>, <<u2, u1>>, << >>, FALSE)>>,
    <<Serving(<< >>, <<u1>>, << >>, << >>, FALSE)>>,
    <<Serving(<<As("a")>>, << >>, << >>, << >>, FALSE)>>,
    <<Serving(<<WithPort("a")>>, <<u1>>, << >>, << >>, FALSE)>>,
    <<[Single EXCEPT !.covers = {"b"}]>> }

\* Lengths as text: two ways to write five, one number above the limit, no number.
MCElement == {"0", "5", "05", "99", "-"}
MCNumber == [e \in MCElement |-> CASE e = "0" -> 0 [] e \in {"5", "05"} -> 5
                                   [] e = "99" -> 99 [] OTHER -> -1]
MCCoding == {"chunked", "gzip, chunked", "gzip"}
MCChunked == {"chunked", "gzip, chunked"}

Line(elements, ascii) == [elements |-> elements, spaced |-> FALSE, ascii |-> ascii]

MCLines ==
  { Line(<<e>>, TRUE) : e \in MCElement }
    \cup { Line(<<"5", e>>, TRUE) : e \in {"5", "05", "0"} }
    \cup { Line(<<"5">>, FALSE) }

MCLengths == { << >> } \cup { <<l>> : l \in MCLines }
               \cup { <<Line(<<"5">>, TRUE), l>> : l \in MCLines }
MCCodings == { << >>, <<"chunked">>, <<"gzip">>, <<"chunked", "gzip">>, <<"gzip, chunked">> }

To(host, upgrade, forged, size, codings) ==
  [method |-> "POST", lengths |-> << >>, codings |-> codings, forged |-> forged,
   host |-> host, upgrade |-> upgrade, body |-> size]

\* hyper hands on as many bytes as the length says, and any number if none is given.
Said(l) == IF l # << >> /\ MCNumber[l[1].elements[1]] > 0
             THEN MCNumber[l[1].elements[1]] ELSE 0

MCMessage ==
  { [method |-> m, lengths |-> l, codings |-> c, forged |-> {}, host |-> As("a"),
     upgrade |-> FALSE, body |-> Said(l)]
      : m \in {"GET", "POST"}, l \in MCLengths, c \in MCCodings }
    \cup { To(h, u, {}, 0, << >>) : h \in [name : MCName, port : BOOLEAN, loose : BOOLEAN],
                                   u \in BOOLEAN }
    \cup { To(As("a"), u, f, b, <<"chunked">>) : u \in BOOLEAN, b \in {9, 10},
              f \in {{}, {"X-Forwarded-For", "True-Client-IP"}, {"X-Real-IP", "Forwarded"}} }

-----------------------------------------------------------------------------
(* Texts of up to five characters of eight, fields of up to three of five or two of
   seven, queries of six. *)

MCChar ==
  {"esc", "[", "]", "\\", "bel", "tab", "nl", "cr", "a", "emoji", " ", "'", ",", "\"", "=", "+",
   "-", "@", "&", "secret"}
MCText == BoundedSeq({"esc", "[", "]", "\\", "bel", "tab", "a", "emoji"}, 5)
MCMaxBytes == {2, 4, 9}
MCField ==
  BoundedSeq({"=", " ", ",", "\"", "a"}, 3)
    \cup BoundedSeq({"=", " ", ",", "\"", "tab", "cr", "nl"}, 2)
MCQuery == BoundedSeq({"&", "=", "secret", "a"}, 6)

MaxRecords == 5
MCEntry == {"trap", "plain"}

-----------------------------------------------------------------------------
\* One ACME request, and three things a file may hold: requests share nothing they
\* write, so that one meets all that the writer can do to it.
CONSTANTS ask, fresh, old, huge

-----------------------------------------------------------------------------
HelloRests ==
  hello = (CHOOSE h \in Hello : TRUE) /\ arrived = 0 /\ profile = {} /\ verdict = "none"
EdgeRests ==
  /\ routes = << >> /\ stage = "starting" /\ sni = << >> /\ cert = 0 /\ message = << >>
  /\ headers = << >> /\ target = 0 /\ sent = << >>
AcmeRests ==
  AcmeInit /\ ~configured /\ content = [p \in Place |-> Absent]

Init ==
  \/ subject = "hello" /\ HelloInit /\ EdgeRests /\ TextInit /\ RingInit /\ AcmeRests
  \/ subject = "message" /\ EdgeInit /\ HelloRests /\ TextInit /\ RingInit /\ AcmeRests
  \/ subject = "text" /\ TextInit /\ HelloRests /\ EdgeRests /\ RingInit /\ AcmeRests
  \/ subject = "ring" /\ RingInit /\ HelloRests /\ EdgeRests /\ TextInit /\ AcmeRests
  \/ subject = "challenge" /\ AcmeInit /\ HelloRests /\ EdgeRests /\ TextInit /\ RingInit

Next ==
  /\ UNCHANGED subject
  /\ \/ /\ subject = "hello" /\ HelloNext
        /\ UNCHANGED <<edgeVars, text, ringVars, acmeVars>>
     \/ /\ subject = "message" /\ EdgeNext
        /\ UNCHANGED <<helloVars, text, ringVars, acmeVars>>
     \/ /\ subject = "text" /\ TextNext
        /\ UNCHANGED <<helloVars, edgeVars, ringVars, acmeVars>>
     \/ /\ subject = "ring" /\ Len(log) < MaxRecords /\ RingNext
        /\ UNCHANGED <<helloVars, edgeVars, text, acmeVars>>
     \/ /\ subject = "challenge" /\ AcmeNext
        /\ UNCHANGED <<helloVars, edgeVars, text, ringVars>>

Spec == Init /\ [][Next]_vars /\ AcmeFairness
=============================================================================
