---------------------------- MODULE ClientHello ----------------------------
(***************************************************************************)
(* The fingerprint of a TLS ClientHello (tls_fingerprint.rs): the proxy    *)
(* peeks at a connection's first bytes once, before the handshake, and     *)
(* reads a profile from them if it can; later every request of the         *)
(* connection is judged by the profile and its User-Agent.                 *)
(*                                                                         *)
(* A peek returns what has arrived, 1024 bytes at most, so what is read    *)
(* may be any beginning of the hello.  Offsets are the code's, from 0;     *)
(* reading past what arrived, a panic in the code, stops TLC.              *)
(***************************************************************************)
EXTENDS Integers, Sequences, SequencesExt

CONSTANTS
  Hello,    \* what clients may say, see Encode
  Claims,   \* sets of the words of a User-Agent that the code looks for
  PeekSize  \* 1024

ASSUME PeekAssumption == PeekSize \in Nat

VARIABLES
  hello,   \* the ClientHello of this connection
  arrived, \* how many of its bytes the peek found
  profile, \* Option<ClientTlsProfile>: {} for None
  verdict  \* of a request: "none" before there is one

helloVars == <<hello, arrived, profile, verdict>>

-----------------------------------------------------------------------------
\* RFC 8701: 0x0a0a, 0x1a1a, ... 0xfafa.
IsGrease(v) == v % 16 = 10 /\ v \div 256 = v % 256

Bytes(v) == << v \div 256, v % 256 >>

\* External: what a client puts on the wire for the fields of a hello.  Record
\* header, handshake header, version and random are 43 bytes, of which only the
\* first and the sixth are read; no extensions, no extension block.
Zeros(n) == [i \in 1 .. n |-> 0]

CipherBytes(ciphers) == FlattenSeq([i \in DOMAIN ciphers |-> Bytes(ciphers[i])])

Extension(e) == Bytes(e.type) \o Bytes(Len(e.body)) \o e.body

Block(extensions) == FlattenSeq([i \in DOMAIN extensions |-> Extension(extensions[i])])

Encode(h) ==
  LET block == Block(h.extensions)
  IN  <<22>> \o Zeros(4) \o <<1>> \o Zeros(37)
        \o <<h.session>> \o Zeros(h.session)
        \o Bytes(2 * Len(h.ciphers)) \o CipherBytes(h.ciphers)
        \o <<h.compression>> \o Zeros(h.compression)
        \o IF block = << >> THEN << >> ELSE Bytes(Len(block)) \o block

\* Its fields are bytes and pairs of them, and so are the lengths of its lists.
Byte == 0 .. 255
Word == 0 .. 65535
ExtensionFields == [type : Word, body : {s \in Seq(Byte) : Len(s) \in Word}]

ASSUME HelloAssumption ==
  /\ Hello \subseteq [session : Byte, ciphers : Seq(Word), compression : Byte,
                     extensions : Seq(ExtensionFields)]
  /\ \A h \in Hello : 2 * Len(h.ciphers) \in Word /\ Len(Block(h.extensions)) \in Word

-----------------------------------------------------------------------------
(* parse_client_hello. *)

At(b, i) == b[i + 1]
U16(b, i) == 256 * At(b, i) + At(b, i + 1)

\* Mutant: the extensions' own GREASE is not looked for.
GreaseIn(ciphers, found) == \E i \in DOMAIN ciphers : IsGrease(ciphers[i])

HasGrease(ciphers, found) ==
  \/ \E i \in DOMAIN ciphers : IsGrease(ciphers[i])
  \/ \E e \in found : IsGrease(e.type)

\* The extension headers between i and end, whose bodies may reach beyond it.
ExtensionsAt(b, start, end) ==
  LET found[i \in Nat] ==
        IF i + 4 > end THEN {}
        ELSE LET len == U16(b, i + 2)
             IN  {[type |-> U16(b, i), body |-> i + 4, len |-> len]}
                   \cup found[i + 4 + len]
  IN  found[start]

\* ALPN: some two bytes of a body that has arrived are "h2".
OffersH2(b, found, end) ==
  \E e \in found :
    /\ e.type = 16 /\ e.body + e.len <= end
    /\ \E i \in e.body .. e.body + e.len - 2 : U16(b, i) = 256 * 104 + 50

\* The first three ciphers that are not GREASE.
Primary(ciphers) ==
  LET plain == SelectSeq(ciphers, LAMBDA v : ~IsGrease(v))
  IN  SubSeq(plain, 1, IF Len(plain) < 3 THEN Len(plain) ELSE 3)

\* The profile of a hello with n bytes of ciphers at c and its extension block
\* at x, if that much has arrived.
ProfileAt(b, c, n, x) ==
  LET ciphers == [i \in 1 .. n \div 2 |-> U16(b, c + 2 * (i - 1))]
      has_block == Len(b) >= x + 2
      block_end == x + 2 + U16(b, x)
      end == IF block_end < Len(b) THEN block_end ELSE Len(b)
      found == IF has_block THEN ExtensionsAt(b, x + 2, end) ELSE {}
  IN  [has_grease |-> HasGrease(ciphers, found),
       cipher_count |-> n \div 2,
       offers_h2 |-> OffersH2(b, found, end),
       has_sni |-> \E e \in found : e.type = 0,
       primary_ciphers |-> Primary(ciphers)]

\* Mutant: as many ciphers are read as have arrived.
ParsedCut(b) ==
  LET s == 44 + At(b, 43)
      c == s + 2
      n == IF c + U16(b, s) < Len(b) THEN U16(b, s) ELSE Len(b) - c - 1
  IN  IF Len(b) > 43 /\ Len(b) > c /\ At(b, 0) = 22 /\ At(b, 5) = 1
        THEN {ProfileAt(b, c, n, c + n + 1 + At(b, c + n))}
        ELSE {}

\* s: where the length of the cipher list is, after the session id; c: where the
\* list starts; x: where the length of the compression methods is.
ParseClientHello(b) ==
  LET s == 44 + At(b, 43)
      c == s + 2
      x == c + U16(b, s)
  IN  IF /\ Len(b) > 43 /\ At(b, 0) = 22 /\ At(b, 5) = 1
         /\ Len(b) >= c /\ Len(b) > x
        THEN {ProfileAt(b, c, U16(b, s), x + 1 + At(b, x))}
        ELSE {}

-----------------------------------------------------------------------------
(* verify_user_agent_coherence. *)

ClaimsChrome(words) == words \cap {"Chrome", "CriOS"} # {}
ClaimsEdge(words) == words \cap {"Edg", "Edge"} # {}
ClaimsSafari(words) == {"Safari", "Version"} \subseteq words /\ "Chrome" \notin words

Spoofed(p, words) ==
  /\ "spider" \notin words
  /\ \/ /\ ClaimsChrome(words) \/ ClaimsEdge(words) \/ ClaimsSafari(words)
        /\ ~p.has_grease
     \/ /\ ClaimsChrome(words) \/ ClaimsEdge(words)
        /\ ~p.offers_h2 /\ p.cipher_count < 10

-----------------------------------------------------------------------------
HelloInit ==
  /\ hello \in Hello
  /\ arrived = 0 /\ profile = {} /\ verdict = "none"

\* raw_stream.peek: at least a byte, no more than fit the buffer.
Peek(n) ==
  /\ arrived = 0
  /\ arrived' = n
  /\ profile' = ParseClientHello(SubSeq(Encode(hello), 1, n))
  /\ UNCHANGED <<hello, verdict>>

\* evaluate_request_full for a request of the connection, as far as this goes.
Judge(words) ==
  /\ arrived > 0 /\ verdict = "none"
  /\ verdict' = IF \E p \in profile : Spoofed(p, words) THEN "spoofed" ELSE "coherent"
  /\ UNCHANGED <<hello, arrived, profile>>

HelloNext ==
  \/ \E n \in 1 .. Len(Encode(hello)) : n <= PeekSize /\ Peek(n)
  \/ \E words \in Claims : Judge(words)

HelloSpec == HelloInit /\ [][HelloNext]_helloVars

-----------------------------------------------------------------------------
\* What there is to know of a hello, told from its fields.
TrueProfile(h) ==
  LET types == {h.extensions[i].type : i \in DOMAIN h.extensions}
  IN  [has_grease |-> \E v \in ToSet(h.ciphers) \cup types : IsGrease(v),
       cipher_count |-> Len(h.ciphers),
       offers_h2 |-> \E i \in DOMAIN h.extensions :
                       /\ h.extensions[i].type = 16
                       /\ \E j \in 1 .. Len(h.extensions[i].body) - 1 :
                            SubSeq(h.extensions[i].body, j, j + 1) = <<104, 50>>,
       has_sni |-> \E t \in types : t = 0,
       primary_ciphers |-> Primary(h.ciphers)]

\* A hello the peek found whole is read as what the client sent, whatever lengths
\* its session id, ciphers, compression methods and extensions have.
HelloIsRead ==
  arrived = Len(Encode(hello)) => profile = {TrueProfile(hello)}

\* A hello the peek found in part is never read as offering more than it does:
\* lengths that reach beyond what arrived do not make other bytes into fields,
\* and the ciphers are read whole or there is no profile.
PrefixUnderstates ==
  \A p \in profile :
    LET truth == TrueProfile(hello)
    IN  /\ p.cipher_count = truth.cipher_count
        /\ p.primary_ciphers = truth.primary_ciphers
        /\ p.has_grease => truth.has_grease
        /\ p.offers_h2 => truth.offers_h2
        /\ p.has_sni => truth.has_sni

\* However little of it arrived, a hello with GREASE among ten ciphers or more,
\* as browsers send, never has its requests judged spoofed.  It takes a GREASE
\* cipher: one among the extensions may not have arrived.
BrowserNeverCondemned ==
  /\ Len(hello.ciphers) >= 10
  /\ \E i \in DOMAIN hello.ciphers : IsGrease(hello.ciphers[i])
  => verdict # "spoofed"
=============================================================================
