--------------------------- MODULE FramingGuard ---------------------------
(***************************************************************************)
(* The framing guard (framing_guard/mod.rs): whether a request says, in    *)
(* one way only, how long its body is, and which of its headers say where  *)
(* it comes from.  With headers.rs, which adds the proxy's own.            *)
(*                                                                         *)
(* check_header_value_bytes is left out: no value it refuses can be in a   *)
(* HeaderMap.                                                              *)
(***************************************************************************)
EXTENDS Integers, Sequences

CONSTANTS
  Element, \* what can stand between the commas of a Content-Length
  Number,  \* what an element parses to as a u64, -1 for nothing
  Coding,  \* values of Transfer-Encoding
  Chunked, \* the ones whose text ends with "chunked"
  MaxBody, \* max_body_bytes, 10 MiB
  Peer     \* the address of the socket's other end

ASSUME FramingAssumption ==
  /\ Number \in [Element -> Nat \cup {-1}]
  /\ Chunked \subseteq Coding
  /\ MaxBody \in Nat
  /\ Peer # "client" \* see Given

\* A header value: its elements, whether they are spaced out, whether it is ASCII.
LengthValue ==
  {v \in [elements : Seq(Element), spaced : BOOLEAN, ascii : BOOLEAN] :
     v.elements # << >>}

\* The headers that sanitize_ingress_headers strips.
Stripped ==
  {"X-Forwarded-For", "X-Forwarded-Proto", "X-Forwarded-Host", "X-Real-IP",
   "X-Client-IP", "CF-Connecting-IP", "True-Client-IP"}

\* The headers that may say where a request comes from: those, and Forwarded for any
\* that it does not know.
Identity == Stripped \cup {"Forwarded"}

-----------------------------------------------------------------------------
(* validate_headers.  A message m has a method, the values of its            *)
(* Content-Length and Transfer-Encoding headers in order, and more.          *)

Conflicting(m) == m.lengths # << >> /\ m.codings # << >>

\* Mutant: the elements of a list are not compared.
DisagreeingLines(m) ==
  \/ \E i \in DOMAIN m.lengths :
       ~m.lengths[i].ascii \/ m.lengths[i] # m.lengths[1]
  \/ m.lengths # << >> /\ Number[m.lengths[1].elements[1]] = -1

\* validate_content_length: two lines differ, two elements of one line do, or the
\* first is no number.  Elements are compared as text.
Disagreeing(m) ==
  \/ \E i \in DOMAIN m.lengths :
       ~m.lengths[i].ascii \/ m.lengths[i] # m.lengths[1]
  \/ /\ m.lengths # << >>
     /\ LET elements == m.lengths[1].elements
        IN  \/ \E i \in DOMAIN elements : elements[i] # elements[1]
            \/ Number[elements[1]] = -1

TooLarge(m) ==
  m.lengths # << >> /\ Number[m.lengths[1].elements[1]] > MaxBody

Unsupported(m) == \E i \in DOMAIN m.codings : m.codings[i] \notin Chunked

\* The value as a whole is parsed: a list is no number, and passes.
BodyOfGet(m) ==
  /\ m.method \in {"GET", "HEAD"} /\ m.lengths # << >>
  /\ Len(m.lengths[1].elements) = 1
  /\ Number[m.lengths[1].elements[1]] > 0

\* The first check that fails, as the status of its answer; 200 if none does.
Validate(m) ==
  IF Conflicting(m) \/ Disagreeing(m) THEN 400
  ELSE IF TooLarge(m) THEN 413
  ELSE IF Unsupported(m) \/ BodyOfGet(m) THEN 400
  ELSE 200

-----------------------------------------------------------------------------
(* Who the request comes from: for each header of Identity, its values.     *)

Given(m) == [h \in Identity |-> IF h \in m.forged THEN <<"client">> ELSE << >>]

\* sanitize_ingress_headers: those it knows are removed, and three of them set.
Sanitize(headers) ==
  [[h \in DOMAIN headers |-> IF h \in Stripped THEN << >> ELSE headers[h]] EXCEPT
    !["X-Forwarded-For"] = <<Peer>>, !["X-Real-IP"] = <<Peer>>,
    !["X-Forwarded-Proto"] = <<"https">>]

\* prepare_upstream_headers: the peer is added to X-Forwarded-For once more.
PrepareUpstream(headers) ==
  [headers EXCEPT !["X-Forwarded-For"] = Append(@, Peer),
                  !["X-Real-IP"] = <<Peer>>, !["X-Forwarded-Proto"] = <<"https">>]
=============================================================================
