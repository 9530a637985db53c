----------------------------- MODULE EdgeProofs -----------------------------
(***************************************************************************)
(* What the edge and the commands make of one input, for any routes,       *)
(* messages, requests, contents of files and texts.                        *)
(*                                                                         *)
(* A message: its length is said in one way, only the socket's peer is     *)
(* named as where it comes from, one name leads to one route, and what     *)
(* leaves reaches what that route names.  Routed says what is known of it  *)
(* at each stage; the lemmas before it, what the tables are.               *)
(*                                                                         *)
(* A request for an ACME challenge: the responder implements               *)
(* ChallengeLookup.  AcmeInv says that what each step has found out is     *)
(* kept in what the places held since the request came.                    *)
(*                                                                         *)
(* A ClientHello: HelloInvariant says that the profile is read from what   *)
(* had arrived; the lemmas before it, where a hello's bytes lie and what   *)
(* the parser's walk finds among them.                                     *)
(*                                                                         *)
(* A text: TextInvariant says that the result is what the function gives,  *)
(* and each section says of that function, character by character, what    *)
(* it makes of any text.                                                   *)
(***************************************************************************)
EXTENDS EdgeMessage, ClientHello, AcmeWebroot, TextGuards, SequenceFacts, FiniteSetTheorems,
        FunctionTheorems, SequenceTheorems

Early == {"starting", "refused", "serving", "connected", "rejected", "redirected"}

\* Past the framing guard there is a message that it let pass.
Passed == stage \notin Early => message \in Message /\ Validate(message) = 200

\* Every value of the headers the guard knows is one the proxy has put there.
PeerOnly(headers_) ==
  /\ \A h \in Stripped : headers_[h] \in {<< >>, <<Peer>>, <<Peer, Peer>>, <<"https">>}
  /\ \A h \in {"X-Forwarded-For", "X-Real-IP"} : headers_[h] \in {<<Peer>>, <<Peer, Peer>>}

\* From the guard on, headers is what sanitize_ingress_headers left, then what
\* prepare_upstream_headers made of it.
Identified ==
  /\ stage = "accepted" => headers = Sanitize(Given(message))
  /\ stage \in {"tunnel", "race", "direct"} =>
       headers = PrepareUpstream(Sanitize(Given(message)))
  /\ stage = "sent" => sent.identity = PrepareUpstream(Sanitize(Given(message)))

-----------------------------------------------------------------------------
\* A set all of whose members are the same has one at most.
LEMMA OneAtMost == \A S, x : S \subseteq {x} => Cardinality(S) <= 1
<1> SUFFICES ASSUME NEW S, NEW x, S \subseteq {x} PROVE Cardinality(S) <= 1
  OBVIOUS
<1>1. CASE S = {}
  BY <1>1, FS_EmptySet
<1>2. CASE S # {}
  <2>1. S = {x}
    BY <1>2
  <2> QED BY <2>1, FS_Singleton
<1> QED BY <1>1, <1>2

\* A message the framing guard lets pass has no two lengths.
LEMMA PassedIsUnambiguous ==
  ASSUME NEW m \in Message, Validate(m) = 200
  PROVE  /\ Cardinality(Lengths(m)) <= 1
         /\ Lengths(m) \subseteq 0 .. MaxBody
         /\ m.lengths = << >> \/ m.codings = << >>
<1>1. ~Conflicting(m) /\ ~Disagreeing(m) /\ ~TooLarge(m)
  BY DEF Validate
<1>2. /\ m.lengths \in Seq(LengthValue)
      /\ \A v \in LengthValue : v.elements \in Seq(Element) /\ v.elements # << >>
      /\ Number \in [Element -> Nat \cup {-1}]
  BY MessageAssumption, FramingAssumption DEF LengthValue
<1>3. CASE m.lengths = << >>
  <2>1. Lengths(m) = {}
    BY <1>3 DEF Lengths
  <2> QED BY <1>3, <2>1, FS_EmptySet
<1>4. CASE m.lengths # << >>
  <2> DEFINE first == m.lengths[1]
             n == Number[first.elements[1]]
  <2>1. first \in LengthValue /\ first.elements[1] \in Element
    BY <1>2, <1>4
  <2>2. \A i \in DOMAIN m.lengths : m.lengths[i] = first
    BY <1>1, <1>4 DEF Disagreeing
  <2>3. \A j \in DOMAIN first.elements : first.elements[j] = first.elements[1]
    BY <1>1, <1>4 DEF Disagreeing
  <2>4. \A v \in Lengths(m) : v = n
    BY <2>2, <2>3 DEF Lengths, ToSet
  <2>5. n \in 0 .. MaxBody
    BY <1>1, <1>2, <1>4, <2>1, FramingAssumption DEF Disagreeing, TooLarge
  <2>6. \E x : Lengths(m) \subseteq {x}
    BY <2>4
  <2>7. Cardinality(Lengths(m)) <= 1
    BY <2>6, OneAtMost
  <2>8. m.codings = << >>
    BY <1>1, <1>4 DEF Conflicting
  <2> QED BY <2>4, <2>5, <2>7, <2>8
<1> QED BY <1>3, <1>4

\* The two functions that write identity headers leave the peer in them, once or twice,
\* and leave alone what they do not know.
LEMMA PreparedIsPeerOnly ==
  ASSUME NEW m
  PROVE  LET prepared == PrepareUpstream(Sanitize(Given(m)))
         IN  PeerOnly(prepared) /\ prepared["Forwarded"] = Given(m)["Forwarded"]
BY DEF PeerOnly, PrepareUpstream, Sanitize, Given, Identity, Stripped

-----------------------------------------------------------------------------
LEMMA EdgeInvInit == EdgeInit => Passed /\ Identified
BY DEF EdgeInit, Passed, Identified, Early

LEMMA EdgeInvNext == Passed /\ Identified /\ [EdgeNext]_edgeVars => Passed' /\ Identified'
<1> SUFFICES ASSUME Passed, Identified, [EdgeNext]_edgeVars
             PROVE  Passed' /\ Identified'
  OBVIOUS
<1>1. CASE Start
  BY <1>1 DEF Start, Passed, Identified, Early
<1>2. ASSUME NEW n, Handshake(n) PROVE Passed' /\ Identified'
  BY <1>2 DEF Handshake, Passed, Identified, Early
<1>3. ASSUME NEW m \in Message, Receive(m) PROVE Passed' /\ Identified'
  BY <1>3 DEF Receive, Passed, Identified, Early
<1>4. CASE Dispatch
  <2>1. stage' \in {"tunnel", "race", "direct"}
    BY <1>4, Zenon DEF Dispatch
  <2> QED BY <1>4, <2>1 DEF Dispatch, Passed, Identified, Early
<1>5. CASE Race
  <2>1. \/ stage' = "sent" /\ sent'.identity = headers
        \/ stage' = "oversized"
    BY <1>5 DEF Race, CollectAndRace, Delivery
  <2> QED BY <1>5, <2>1 DEF Race, Passed, Identified, Early
<1>6. CASE SendDirect
  BY <1>6 DEF SendDirect, Delivery, Passed, Identified, Early
<1>7. ASSUME NEW m \in Message, Redirect(m) PROVE Passed' /\ Identified'
  BY <1>7 DEF Redirect, Passed, Identified, Early
<1>8. CASE UNCHANGED edgeVars
  BY <1>8 DEF edgeVars, Passed, Identified, Early
<1> QED BY <1>1, <1>2, <1>3, <1>4, <1>5, <1>6, <1>7, <1>8 DEF EdgeNext

LEMMA EdgeInvariant == EdgeSpec => [](Passed /\ Identified)
BY EdgeInvInit, EdgeInvNext, PTL DEF EdgeSpec

\* No message goes on whose length can be read in two ways, in however many lines and
\* elements it is given.
THEOREM LengthsAreUnambiguous == EdgeSpec => []AcceptedLengthIsUnambiguous
<1>1. Passed => AcceptedLengthIsUnambiguous
  BY PassedIsUnambiguous DEF Passed, Early, AcceptedLengthIsUnambiguous
<1> QED BY <1>1, EdgeInvariant, PTL

\* None of the seven headers the guard strips reaches an upstream with anything the
\* client said; one that it does not know reaches it unchanged.
THEOREM StrippedHeaders == EdgeSpec => []StrippedTellThePeer
<1>1. Identified => StrippedTellThePeer
  <2> SUFFICES ASSUME Identified, stage = "sent"
               PROVE  /\ \A h \in {"X-Forwarded-For", "X-Real-IP"} :
                           sent.identity[h] # << >> /\ ToSet(sent.identity[h]) = {Peer}
                      /\ \A h \in Stripped : "client" \notin ToSet(sent.identity[h])
                      /\ sent.identity["Forwarded"] = Given(message)["Forwarded"]
    BY DEF StrippedTellThePeer
  <2>1. PeerOnly(sent.identity) /\ sent.identity["Forwarded"] = Given(message)["Forwarded"]
    BY PreparedIsPeerOnly DEF Identified
  <2>2. /\ ToSet(<<Peer>>) = {Peer} /\ ToSet(<<Peer, Peer>>) = {Peer}
        /\ ToSet(<<"https">>) = {"https"} /\ ToSet(<< >>) = {}
    <3>1. \A a : DOMAIN <<a>> = {1} /\ DOMAIN <<a, a>> = {1, 2}
      OBVIOUS
    <3>2. ToSet(<< >>) = {}
      BY DEF ToSet
    <3>3. \A a : ToSet(<<a>>) = {a} /\ ToSet(<<a, a>>) = {a}
      BY <3>1 DEF ToSet
    <3> QED BY <3>2, <3>3
  <2>3. \A v \in {<<Peer>>, <<Peer, Peer>>} : v # << >> /\ ToSet(v) = {Peer}
    BY <2>2
  <2>4. \A v \in {<< >>, <<Peer>>, <<Peer, Peer>>, <<"https">>} : "client" \notin ToSet(v)
    BY <2>2, FramingAssumption
  <2> QED BY <2>1, <2>3, <2>4 DEF PeerOnly
<1> QED BY <1>1, EdgeInvariant, PTL

-----------------------------------------------------------------------------
(* The tables made of the routes, and what they lead to. *)

\* A map that has the keys of a sequence of entries, and of each the last value.
LastOfEach(map, e) ==
  /\ DOMAIN map = {e[i][1] : i \in DOMAIN e}
  /\ \A i \in DOMAIN e :
       (\A j \in DOMAIN e : j > i => e[j][1] # e[i][1]) => map[e[i][1]] = e[i][2]

\* A map after inserts is such a map.
LEMMA InsertedIsLast ==
  ASSUME NEW K, NEW V, NEW e \in Seq(K \X V)
  PROVE  LastOfEach(Inserted(e), e)
<1> DEFINE n == Len(e)
           D == UNION {[S -> V] : S \in SUBSET K}
           With(map, i) == [k \in DOMAIN map \cup {e[i][1]} |->
                             IF k = e[i][1] THEN e[i][2] ELSE map[k]]
           none == << >>
           does == [i \in 1 .. n |-> [map \in D |-> With(map, i)]]
           it == CHOOSE g : g = [s \in SUBSET DOMAIN e |->
                   IF s = {} THEN none ELSE With(g[s \ {Max(s)}], Max(s))]
<1>1. n \in Nat /\ DOMAIN e = 1 .. n /\ \A i \in 1 .. n : e[i][1] \in K /\ e[i][2] \in V
  OBVIOUS
<1> HIDE DEF n
<1>2. none \in D
  <2>1. << >> \in [{} -> V]
    OBVIOUS
  <2> QED BY <2>1, Zenon
<1>3. ASSUME NEW map \in D, NEW i \in 1 .. n PROVE With(map, i) \in D
  <2>1. PICK S \in SUBSET K : map \in [S -> V]
    BY Zenon
  <2>2. With(map, i) \in [S \cup {e[i][1]} -> V]
    BY <1>1, <2>1
  <2>3. S \cup {e[i][1]} \in SUBSET K
    BY <1>1
  <2> QED BY <2>2, <2>3, Zenon
<1> HIDE DEF D, With, none
<1>4. does \in [1 .. n -> [D -> D]]
  BY <1>3
<1>5. PICK g : IsFold(g, D, none, n, does)
  <2> HIDE DEF does
  <2> QED BY <1>1, <1>2, <1>4, FoldExists, Zenon
<1>6. ASSUME NEW s \in SUBSET (1 .. n)
      PROVE  g[s] = IF s = {} THEN none ELSE With(g[s \ {Max(s)}], Max(s))
  <2>1. CASE s = {}
    BY <1>5, <2>1 DEF IsFold
  <2>2. CASE s # {}
    <3>1. Max(s) \in 1 .. n
      BY <1>1, <2>2, MaxIsMember
    <3>2. g[s \ {Max(s)}] \in D
      BY <1>5 DEF IsFold
    <3>4. does[Max(s)][g[s \ {Max(s)}]] = With(g[s \ {Max(s)}], Max(s))
      BY <3>1, <3>2
    <3> QED BY <1>5, <2>2, <3>4, Zenon DEF IsFold
  <2> QED BY <2>1, <2>2
<1>7. g = [s \in SUBSET DOMAIN e |-> IF s = {} THEN none ELSE With(g[s \ {Max(s)}], Max(s))]
  BY <1>1, <1>5, <1>6 DEF IsFold
<1>8. it = [s \in SUBSET DOMAIN e |-> IF s = {} THEN none ELSE With(it[s \ {Max(s)}], Max(s))]
  BY <1>7, Zenon
<1>9. Inserted(e) = it[1 .. n]
  BY <1>1, Zenon DEF Inserted, FoldLeft, MapThenFoldSet, With, none
<1> HIDE DEF it
<1>10. it[1 .. 0] = none
  BY <1>1, <1>8
<1>11. ASSUME NEW m \in 1 .. n PROVE it[1 .. m] = With(it[1 .. m - 1], m)
  <2>1. 1 .. m # {} /\ Max(1 .. m) = m /\ (1 .. m) \ {m} = 1 .. m - 1
    <3>1. m \in Nat \ {0}
      BY <1>1
    <3> QED BY <3>1, MaxOfFirst, Zenon
  <2>2. 1 .. m \in SUBSET DOMAIN e
    BY <1>1
  <2>3. it[1 .. m] = IF 1 .. m = {} THEN none ELSE With(it[(1 .. m) \ {Max(1 .. m)}], Max(1 .. m))
    BY <1>8, <2>2
  <2> QED BY <2>1, <2>3
<1> HIDE DEF does
<1> DEFINE Holds(m) ==
             /\ DOMAIN it[1 .. m] = {e[i][1] : i \in 1 .. m}
             /\ \A i \in 1 .. m :
                  (\A j \in 1 .. m : j > i => e[j][1] # e[i][1]) => it[1 .. m][e[i][1]] = e[i][2]
           G == {m \in Nat : Holds(m)}
<1>12. Holds(0)
  BY <1>10 DEF none
<1>13. ASSUME NEW m \in 0 .. n - 1, Holds(m) PROVE Holds(m + 1)
  <2> DEFINE old == it[1 .. m]
             new == it[1 .. m + 1]
  <2>1. new = [k \in DOMAIN old \cup {e[m + 1][1]} |->
                 IF k = e[m + 1][1] THEN e[m + 1][2] ELSE old[k]]
    <3>1. m + 1 \in 1 .. n /\ (m + 1) - 1 = m
      BY <1>1
    <3>2. it[1 .. m + 1] = With(it[1 .. (m + 1) - 1], m + 1)
      BY <1>11, <3>1
    <3> QED BY <3>1, <3>2 DEF With
  <2>2. /\ DOMAIN old = {e[i][1] : i \in 1 .. m}
        /\ \A i \in 1 .. m :
             (\A j \in 1 .. m : j > i => e[j][1] # e[i][1]) => old[e[i][1]] = e[i][2]
    BY <1>13
  <2> HIDE DEF old, new
  <2>3. DOMAIN new = {e[i][1] : i \in 1 .. m + 1}
    <3>1. \A i \in 1 .. m + 1 : i \in 1 .. m \/ i = m + 1
      OBVIOUS
    <3>2. \A i \in 1 .. m : i \in 1 .. m + 1
      OBVIOUS
    <3>3. m + 1 \in 1 .. m + 1
      OBVIOUS
    <3> QED BY <2>1, <2>2, <3>1, <3>2, <3>3
  <2>4. ASSUME NEW i \in 1 .. m + 1, \A j \in 1 .. m + 1 : j > i => e[j][1] # e[i][1]
        PROVE  new[e[i][1]] = e[i][2]
    <3>1. CASE i = m + 1
      BY <2>1, <3>1
    <3>2. CASE i # m + 1
      <4>1. i \in 1 .. m /\ e[m + 1][1] # e[i][1]
        BY <2>4, <3>2
      <4>2. \A j \in 1 .. m : j > i => e[j][1] # e[i][1]
        BY <2>4
      <4>3. old[e[i][1]] = e[i][2] /\ e[i][1] \in DOMAIN old
        BY <2>2, <4>1, <4>2
      <4> QED BY <2>1, <4>1, <4>3
    <3> QED BY <3>1, <3>2
  <2> QED BY <2>3, <2>4 DEF new
<1> HIDE DEF Holds
<1>14. 0 \in G /\ \A m \in 0 .. n - 1 : m \in G => m + 1 \in G
  BY <1>1, <1>12, <1>13
<1> HIDE DEF G
<1>15. 0 .. n \subseteq G
  BY <1>1, <1>14, InductiveUpTo
<1>16. Holds(n)
  BY <1>1, <1>15 DEF G
<1> QED BY <1>1, <1>9, <1>16 DEF Holds, LastOfEach

\* The entries of the routes: every domain with its route's number, those of earlier
\* routes first.
LEMMA EntriesInOrder ==
  ASSUME NEW rs \in Seq(Route), rs # << >>
  PROVE  LET e == Entries(rs)
         IN  /\ e \in Seq(Written \X Nat)
             /\ \A p \in DOMAIN e : \E i \in DOMAIN rs : \E j \in DOMAIN rs[i].domains :
                  e[p] = <<Domain(rs[i].domains[j]), i>>
             /\ \A i \in DOMAIN rs : \A j \in DOMAIN rs[i].domains :
                  \E p \in DOMAIN e : e[p] = <<Domain(rs[i].domains[j]), i>>
             /\ \A p, q \in DOMAIN e : p <= q => e[p][2] <= e[q][2]
<1> DEFINE S == Written \X Nat
           ss == [i \in DOMAIN rs |->
                    [j \in DOMAIN rs[i].domains |-> <<Domain(rs[i].domains[j]), i>>]]
           n == Len(rs)
<1>1. n \in Nat \ {0} /\ DOMAIN rs = 1 .. n /\ Len(ss) = n /\ ss # << >>
  OBVIOUS
<1>2. ASSUME NEW i \in 1 .. n
      PROVE  /\ rs[i].domains \in Seq(Written)
             /\ ss[i] \in Seq(S)
             /\ DOMAIN ss[i] = DOMAIN rs[i].domains
             /\ \A j \in DOMAIN ss[i] : ss[i][j] = <<Domain(rs[i].domains[j]), i>>
             /\ DOMAIN ss[i] = 1 .. Len(ss[i])
  <2>1. rs[i] \in Route
    OBVIOUS
  <2>2. rs[i].domains \in Seq(Written)
    BY <2>1 DEF Route
  <2>3. \A j \in DOMAIN rs[i].domains : Domain(rs[i].domains[j]) \in Written
    <3>1. \A w \in Written : Domain(w) \in Written
      BY DEF Domain, Written
    <3> QED BY <2>2, <3>1
  <2>4. \A j \in DOMAIN rs[i].domains : <<Domain(rs[i].domains[j]), i>> \in S
    <3> SUFFICES ASSUME NEW j \in DOMAIN rs[i].domains
                 PROVE  <<Domain(rs[i].domains[j]), i>> \in Written \X Nat
      OBVIOUS
    <3>1. i \in Nat /\ Domain(rs[i].domains[j]) \in Written
      BY <1>1, <2>3
    <3> QED BY <3>1
  <2>5. ss[i] = [j \in DOMAIN rs[i].domains |-> <<Domain(rs[i].domains[j]), i>>]
    BY <1>1
  <2>6. DOMAIN rs[i].domains = 1 .. Len(rs[i].domains) /\ Len(rs[i].domains) \in Nat
    BY <2>2
  <2>7. ss[i] \in Seq(S)
    <3> HIDE DEF S, ss
    <3> QED BY <2>4, <2>5, <2>6
  <2> HIDE DEF ss, S
  <2> QED BY <2>2, <2>5, <2>6, <2>7
<1>3. ss \in Seq(Seq(S)) /\ Entries(rs) = FlattenSeq(ss)
  <2>1. Entries(rs) = FlattenSeq(ss)
    BY DEF Entries
  <2>2. DOMAIN ss = 1 .. n
    BY <1>1
  <2> HIDE DEF S
  <2>3. \A i \in 1 .. n : ss[i] \in Seq(S)
    BY <1>2
  <2>4. ss = [i \in 1 .. n |-> ss[i]]
    BY <2>2
  <2> HIDE DEF ss
  <2> QED BY <1>1, <2>1, <2>2, <2>3, <2>4
<1> HIDE DEF S, ss, n
<1>4. PICK f \in [1 .. n -> Seq(S)] :
        /\ \A i \in 1 .. n : f[i] = IF i = 1 THEN ss[1] ELSE f[i - 1] \o ss[i]
        /\ FlattenSeq(ss) = f[n]
  BY <1>1, <1>3, FlattenUnrolls
<1> DEFINE Upto(e, m) ==
             /\ \A p \in DOMAIN e : \E i \in 1 .. m : \E j \in DOMAIN rs[i].domains :
                  e[p] = <<Domain(rs[i].domains[j]), i>>
             /\ \A i \in 1 .. m : \A j \in DOMAIN rs[i].domains :
                  \E p \in DOMAIN e : e[p] = <<Domain(rs[i].domains[j]), i>>
             /\ \A p, q \in DOMAIN e : p <= q => e[p][2] <= e[q][2]
           G == {m \in Nat : m = 0 \/ Upto(f[m], m)}
<1>5. Upto(f[1], 1)
  <2>1. f[1] = ss[1]
    BY <1>1, <1>4
  <2>2. 1 \in 1 .. n /\ 1 .. 1 = {1}
    BY <1>1
  <2>3. DOMAIN ss[1] = DOMAIN rs[1].domains /\
        \A j \in DOMAIN ss[1] : ss[1][j] = <<Domain(rs[1].domains[j]), 1>>
    BY <1>2, <2>2
  <2>4. \A p, q \in DOMAIN ss[1] : ss[1][p][2] <= ss[1][q][2]
    BY <2>3
  <2>5. Upto(ss[1], 1)
    BY <2>2, <2>3, <2>4
  <2> HIDE DEF Upto
  <2> QED BY <2>1, <2>5
<1>6. ASSUME NEW m \in 1 .. n - 1, Upto(f[m], m) PROVE Upto(f[m + 1], m + 1)
  <2> DEFINE old == f[m]
             more == ss[m + 1]
             new == f[m + 1]
  <2>1. /\ old \in Seq(S) /\ more \in Seq(S) /\ new = old \o more
        /\ m + 1 \in 1 .. n
    <3>1. m + 1 \in 1 .. n /\ m \in 1 .. n /\ m + 1 # 1 /\ (m + 1) - 1 = m
      BY <1>1
    <3> QED BY <1>2, <1>4, <3>1
  <2>2. DOMAIN more = DOMAIN rs[m + 1].domains /\
        \A j \in DOMAIN more : more[j] = <<Domain(rs[m + 1].domains[j]), m + 1>>
    BY <1>2, <2>1
  <2>3. Upto(old, m)
    BY <1>6
  <2> HIDE DEF old, more, new
  <2>4. /\ Len(new) = Len(old) + Len(more) /\ Len(old) \in Nat /\ Len(more) \in Nat
        /\ DOMAIN new = 1 .. Len(old) + Len(more)
        /\ DOMAIN old = 1 .. Len(old) /\ DOMAIN more = 1 .. Len(more)
        /\ \A p \in 1 .. Len(old) : new[p] = old[p]
        /\ \A p \in 1 .. Len(more) : new[Len(old) + p] = more[p]
    BY <2>1
  <2>5. \A p \in DOMAIN new : p \in DOMAIN old \/ (p > Len(old) /\ p - Len(old) \in DOMAIN more
                               /\ new[p] = more[p - Len(old)])
    BY <2>4
  <2>6. ASSUME NEW p \in DOMAIN new
        PROVE  \E i \in 1 .. m + 1 : \E j \in DOMAIN rs[i].domains :
                 new[p] = <<Domain(rs[i].domains[j]), i>>
    <3>1. CASE p \in DOMAIN old
      <4>1. PICK i \in 1 .. m : \E j \in DOMAIN rs[i].domains :
              old[p] = <<Domain(rs[i].domains[j]), i>>
        BY <2>3, <3>1
      <4> QED BY <2>4, <3>1, <4>1
    <3>2. CASE p \notin DOMAIN old
      <4>1. p - Len(old) \in DOMAIN more /\ new[p] = more[p - Len(old)]
        BY <2>5, <3>2
      <4>2. m + 1 \in 1 .. m + 1
        OBVIOUS
      <4> QED BY <2>2, <4>1, <4>2
    <3> QED BY <3>1, <3>2
  <2>7. ASSUME NEW i \in 1 .. m + 1, NEW j \in DOMAIN rs[i].domains
        PROVE  \E p \in DOMAIN new : new[p] = <<Domain(rs[i].domains[j]), i>>
    <3>1. CASE i = m + 1
      <4>1. j \in DOMAIN more
        BY <2>2, <3>1
      <4>2. Len(old) + j \in DOMAIN new /\ new[Len(old) + j] = more[j]
        BY <2>4, <4>1
      <4> QED BY <2>2, <3>1, <4>1, <4>2
    <3>2. CASE i # m + 1
      <4>1. PICK p \in DOMAIN old : old[p] = <<Domain(rs[i].domains[j]), i>>
        BY <2>3, <3>2
      <4> QED BY <2>4, <4>1
    <3> QED BY <3>1, <3>2
  <2>8. ASSUME NEW p \in DOMAIN new, NEW q \in DOMAIN new, p <= q
        PROVE  new[p][2] <= new[q][2]
    <3>1. \A x \in DOMAIN more : more[x][2] = m + 1
      BY <2>2
    <3>2. \A x \in DOMAIN old : old[x][2] \in 1 .. m
      <4> SUFFICES ASSUME NEW x \in DOMAIN old PROVE old[x][2] \in 1 .. m
        OBVIOUS
      <4>1. PICK i \in 1 .. m : \E j \in DOMAIN rs[i].domains :
              old[x] = <<Domain(rs[i].domains[j]), i>>
        BY <2>3
      <4> QED BY <4>1
    <3>3. CASE q \in DOMAIN old
      <4>1. p \in DOMAIN old
        BY <2>4, <2>8, <3>3
      <4> QED BY <2>3, <2>4, <2>8, <3>3, <4>1
    <3>4. CASE q \notin DOMAIN old
      <4>1. new[q][2] = m + 1
        BY <2>5, <3>1, <3>4
      <4>2. new[p][2] \in 1 .. m \/ new[p][2] = m + 1
        BY <2>4, <2>5, <3>1, <3>2
      <4> QED BY <4>1, <4>2
    <3> QED BY <3>3, <3>4
  <2> QED BY <2>6, <2>7, <2>8 DEF new
<1> HIDE DEF Upto
<1>7. 0 \in G /\ \A m \in 0 .. n - 1 : m \in G => m + 1 \in G
  BY <1>1, <1>5, <1>6
<1> HIDE DEF G
<1>8. 0 .. n \subseteq G
  BY <1>1, <1>7, InductiveUpTo
<1>9. Upto(Entries(rs), n)
  BY <1>1, <1>3, <1>4, <1>8 DEF G
<1>10. Entries(rs) \in Seq(Written \X Nat)
  BY <1>1, <1>3, <1>4 DEF S
<1> QED BY <1>1, <1>9, <1>10 DEF Upto

\* The routes that list a name as the tables write it.
Lists(rs, key) ==
  {i \in DOMAIN rs : \E j \in DOMAIN rs[i].domains : Domain(rs[i].domains[j]) = key}

\* The table made of the routes leads from a name to the last route that lists it.
LEMMA TableIsLastRoute ==
  ASSUME NEW rs \in Seq(Route), rs # << >>, NEW key
  PROVE  /\ key \in DOMAIN Inserted(Entries(rs)) <=> Lists(rs, key) # {}
         /\ \A i \in Lists(rs, key) :
              (\A k \in Lists(rs, key) : k <= i) => Inserted(Entries(rs))[key] = i
<1> DEFINE e == Entries(rs)
           map == Inserted(e)
<1>1. /\ e \in Seq(Written \X Nat)
      /\ \A p \in DOMAIN e : \E i \in DOMAIN rs : \E j \in DOMAIN rs[i].domains :
           e[p] = <<Domain(rs[i].domains[j]), i>>
      /\ \A i \in DOMAIN rs : \A j \in DOMAIN rs[i].domains :
           \E p \in DOMAIN e : e[p] = <<Domain(rs[i].domains[j]), i>>
      /\ \A p, q \in DOMAIN e : p <= q => e[p][2] <= e[q][2]
  BY EntriesInOrder
<1> HIDE DEF e
<1>2. LastOfEach(map, e)
  BY <1>1, InsertedIsLast, Zenon
<1> HIDE DEF map
<1>3. ASSUME NEW p \in DOMAIN e, e[p][1] = key
      PROVE  e[p][2] \in Lists(rs, key)
  <2>1. PICK i \in DOMAIN rs : \E j \in DOMAIN rs[i].domains :
          e[p] = <<Domain(rs[i].domains[j]), i>>
    BY <1>1
  <2>2. PICK j \in DOMAIN rs[i].domains : e[p] = <<Domain(rs[i].domains[j]), i>>
    BY <2>1
  <2>3. Domain(rs[i].domains[j]) = key /\ e[p][2] = i
    BY <1>3, <2>2
  <2> QED BY <2>3 DEF Lists
<1>4. ASSUME NEW i \in Lists(rs, key)
      PROVE  \E p \in DOMAIN e : e[p] = <<key, i>>
  <2>1. PICK j \in DOMAIN rs[i].domains : Domain(rs[i].domains[j]) = key
    BY DEF Lists
  <2> QED BY <1>1, <2>1 DEF Lists
<1>5. key \in DOMAIN map <=> Lists(rs, key) # {}
  <2>1. ASSUME key \in DOMAIN map PROVE Lists(rs, key) # {}
    BY <1>2, <1>3, <2>1 DEF LastOfEach
  <2>2. ASSUME NEW i \in Lists(rs, key) PROVE key \in DOMAIN map
    <3>1. PICK p \in DOMAIN e : e[p] = <<key, i>>
      BY <1>4
    <3>2. e[p][1] = key
      BY <3>1
    <3> QED BY <1>2, <3>2 DEF LastOfEach
  <2> QED BY <2>1, <2>2
<1>6. ASSUME NEW i \in Lists(rs, key), \A k \in Lists(rs, key) : k <= i
      PROVE  map[key] = i
  <2> DEFINE P == {p \in DOMAIN e : e[p][1] = key}
  <2>1. PICK q \in DOMAIN e : e[q] = <<key, i>>
    BY <1>4
  <2>2. q \in P /\ Len(e) \in Nat /\ P \in SUBSET (1 .. Len(e))
    BY <1>1, <2>1
  <2>3. Max(P) \in P /\ \A y \in P : Max(P) >= y
    <3> HIDE DEF P
    <3> QED BY <2>2, MaxIsMember
  <2> DEFINE p == Max(P)
  <2> HIDE DEF p
  <2>4. p \in DOMAIN e /\ e[p][1] = key /\ \A j \in DOMAIN e : e[j][1] = key => p >= j
    BY <2>3 DEF p
  <2>5. DOMAIN e \subseteq Nat
    BY <1>1
  <2>6. map[key] = e[p][2]
    BY <1>2, <2>4, <2>5 DEF LastOfEach
  <2>7. e[p][2] \in Lists(rs, key)
    BY <1>3, <2>4
  <2>8. q <= p /\ e[q][2] = i
    BY <2>1, <2>4, <2>5
  <2>9. i <= e[p][2] /\ e[p][2] <= i
    BY <1>1, <1>6, <2>4, <2>7, <2>8
  <2>10. i \in Nat /\ e[p][2] \in Nat
    BY <2>7 DEF Lists
  <2> QED BY <2>6, <2>9, <2>10
<1> QED BY <1>5, <1>6 DEF map, e

\* The upstreams of a route are those it names, each once, the first of them first.
LEMMA ResolvedIsOwn ==
  ASSUME NEW r \in Route
  PROVE  LET own == r.upstream \o r.upstreams
             addrs == ResolvedUpstreams(r)
         IN  /\ addrs \in Seq(Addr) /\ ToSet(addrs) = ToSet(own)
             /\ \A i, j \in DOMAIN addrs : addrs[i] = addrs[j] => i = j
             /\ addrs # << >> => own # << >> /\ addrs[1] = own[1]
<1> DEFINE u == r.upstream
           us == r.upstreams
           n == Len(us)
           D == Seq(Addr)
           Add(list, i) == IF Contains(list, us[i]) THEN list ELSE Append(list, us[i])
           does == [i \in 1 .. n |-> [list \in D |-> Add(list, i)]]
           it == CHOOSE g : g = [s \in SUBSET DOMAIN us |->
                   IF s = {} THEN u ELSE Add(g[s \ {Max(s)}], Max(s))]
<1>1. /\ u \in Seq(Addr) /\ Len(u) <= 1 /\ us \in Seq(Addr)
      /\ n \in Nat /\ DOMAIN us = 1 .. n /\ \A i \in 1 .. n : us[i] \in Addr
  <2>1. u \in Maybe(Addr) /\ us \in Seq(Addr)
    BY DEF Route
  <2>2. u \in Seq(Addr) /\ Len(u) <= 1
    <3>1. CASE u = << >>
      BY <3>1
    <3>2. CASE u # << >>
      <4>1. PICK x \in Addr : u = <<x>>
        BY <2>1, <3>2, Zenon DEF Maybe
      <4> QED BY <4>1
    <3> QED BY <3>1, <3>2
  <2> QED BY <2>1, <2>2
<1>2. ResolvedUpstreams(r) = it[1 .. n]
  BY <1>1, Zenon DEF ResolvedUpstreams, FoldLeft, MapThenFoldSet
<1> HIDE DEF u, us, n
<1>3. \A list \in D, i \in 1 .. n : Add(list, i) \in D
  BY <1>1
<1> HIDE DEF Add
<1>4. does \in [1 .. n -> [D -> D]]
  BY <1>3
<1>5. PICK g : IsFold(g, D, u, n, does)
  <2> HIDE DEF does
  <2>1. u \in D
    BY <1>1
  <2> HIDE DEF D
  <2> QED BY <1>1, <1>4, <2>1, FoldExists, Zenon
<1>6. ASSUME NEW s \in SUBSET (1 .. n)
      PROVE  g[s] = IF s = {} THEN u ELSE Add(g[s \ {Max(s)}], Max(s))
  <2>1. CASE s = {}
    BY <1>5, <2>1 DEF IsFold
  <2>2. CASE s # {}
    <3>1. Max(s) \in 1 .. n
      BY <1>1, <2>2, MaxIsMember
    <3>2. g[s \ {Max(s)}] \in D
      BY <1>5 DEF IsFold
    <3>3. does[Max(s)][g[s \ {Max(s)}]] = Add(g[s \ {Max(s)}], Max(s))
      BY <3>1, <3>2
    <3> QED BY <1>5, <2>2, <3>3, Zenon DEF IsFold
  <2> QED BY <2>1, <2>2
<1>7. g = [s \in SUBSET DOMAIN us |-> IF s = {} THEN u ELSE Add(g[s \ {Max(s)}], Max(s))]
  BY <1>1, <1>5, <1>6 DEF IsFold
<1>8. it = [s \in SUBSET DOMAIN us |-> IF s = {} THEN u ELSE Add(it[s \ {Max(s)}], Max(s))]
  BY <1>7, Zenon
<1> HIDE DEF it, does
<1>9. it[1 .. 0] = u
  BY <1>1, <1>8
<1>10. ASSUME NEW m \in 0 .. n - 1 PROVE it[1 .. m + 1] = Add(it[1 .. m], m + 1)
  <2>1. m + 1 \in Nat \ {0} /\ 1 .. m + 1 \in SUBSET DOMAIN us /\ (m + 1) - 1 = m
    BY <1>1
  <2>2. Max(1 .. m + 1) = m + 1 /\ (1 .. m + 1) \ {m + 1} = 1 .. m /\ 1 .. m + 1 # {}
    BY <2>1, MaxOfFirst
  <2>3. it[1 .. m + 1] = IF 1 .. m + 1 = {} THEN u
                         ELSE Add(it[(1 .. m + 1) \ {Max(1 .. m + 1)}], Max(1 .. m + 1))
    BY <1>8, <2>1
  <2> QED BY <2>2, <2>3
<1> DEFINE Holds(list, m) ==
             /\ list \in Seq(Addr)
             /\ ToSet(list) = ToSet(u) \cup {us[i] : i \in 1 .. m}
             /\ \A i, j \in DOMAIN list : list[i] = list[j] => i = j
             /\ u # << >> => list # << >> /\ list[1] = u[1]
             /\ u = << >> /\ list # << >> => m > 0 /\ list[1] = us[1]
             /\ m > 0 => list # << >>
           G == {m \in Nat : Holds(it[1 .. m], m)}
<1>11. Holds(it[1 .. 0], 0)
  BY <1>1, <1>9 DEF ToSet
<1>12. ASSUME NEW m \in 0 .. n - 1, Holds(it[1 .. m], m) PROVE Holds(it[1 .. m + 1], m + 1)
  <2> DEFINE old == it[1 .. m]
             a == us[m + 1]
  <2>1. Holds(old, m) /\ a \in Addr /\ it[1 .. m + 1] = Add(old, m + 1)
    BY <1>1, <1>10, <1>12
  <2>2. Add(old, m + 1) = IF a \in ToSet(old) THEN old ELSE Append(old, a)
    BY <2>1 DEF Add, Contains, ToSet
  <2> HIDE DEF old, a
  <2>3. {us[i] : i \in 1 .. m + 1} = {us[i] : i \in 1 .. m} \cup {a}
    BY DEF a
  <2>4. CASE a \in ToSet(old)
    <3>1. ToSet(old) = ToSet(u) \cup {us[i] : i \in 1 .. m + 1}
      BY <2>1, <2>3, <2>4
    <3>2. old # << >>
      BY <2>1, <2>4 DEF ToSet
    <3>3. u = << >> => m > 0
      BY <2>1, <3>2
    <3>4. Holds(old, m + 1)
      BY <2>1, <3>1, <3>2, <3>3
    <3> QED BY <2>1, <2>2, <2>4, <3>4
  <2>5. CASE a \notin ToSet(old)
    <3> DEFINE new == Append(old, a)
    <3>1. /\ new \in Seq(Addr) /\ Len(new) = Len(old) + 1 /\ Len(old) \in Nat
          /\ DOMAIN new = 1 .. Len(old) + 1 /\ DOMAIN old = 1 .. Len(old)
          /\ \A i \in 1 .. Len(old) : new[i] = old[i]
          /\ new[Len(old) + 1] = a
      BY <2>1
    <3> HIDE DEF new
    <3>2. ToSet(new) = ToSet(old) \cup {a}
      BY <3>1 DEF ToSet
    <3>3. \A i \in 1 .. Len(old) : old[i] # a
      BY <2>5, <3>1 DEF ToSet
    <3>4. \A i, j \in DOMAIN new : new[i] = new[j] => i = j
      BY <2>1, <3>1, <3>3
    <3>5. new # << >> /\ (old # << >> => new[1] = old[1]) /\ (old = << >> => new[1] = a)
      BY <2>1, <3>1
    <3>6. old = << >> => u = << >> /\ m = 0
      BY <2>1
    <3>7. Holds(new, m + 1)
      BY <2>1, <2>3, <3>1, <3>2, <3>4, <3>5, <3>6 DEF a
    <3> QED BY <2>1, <2>2, <2>5, <3>7 DEF new
  <2> QED BY <2>4, <2>5
<1> HIDE DEF Holds
<1>13. 0 \in G /\ \A m \in 0 .. n - 1 : m \in G => m + 1 \in G
  BY <1>1, <1>11, <1>12
<1> HIDE DEF G
<1>14. 0 .. n \subseteq G
  BY <1>1, <1>13, InductiveUpTo
<1>15. Holds(it[1 .. n], n)
  BY <1>1, <1>14 DEF G
<1>16. /\ ToSet(u \o us) = ToSet(u) \cup {us[i] : i \in 1 .. n}
       /\ u # << >> => u \o us # << >> /\ (u \o us)[1] = u[1]
       /\ u = << >> => u \o us = us
  <2>1. /\ DOMAIN (u \o us) = 1 .. Len(u) + n /\ Len(u) \in Nat /\ DOMAIN u = 1 .. Len(u)
        /\ \A i \in 1 .. Len(u) : (u \o us)[i] = u[i]
        /\ \A i \in 1 .. n : (u \o us)[Len(u) + i] = us[i]
    BY <1>1 DEF n
  <2>2. \A i \in 1 .. Len(u) + n : i \in 1 .. Len(u) \/ i - Len(u) \in 1 .. n
    BY <1>1, <2>1
  <2>3. \A i \in 1 .. n : Len(u) + i \in 1 .. Len(u) + n
    BY <1>1, <2>1
  <2>4. ToSet(u \o us) = ToSet(u) \cup {us[i] : i \in 1 .. n}
    <3> DEFINE w == u \o us
    <3>1. /\ DOMAIN w = 1 .. Len(u) + n
          /\ \A i \in 1 .. Len(u) : w[i] = u[i]
          /\ \A i \in 1 .. n : w[Len(u) + i] = us[i]
      BY <2>1
    <3> HIDE DEF w
    <3>2. ASSUME NEW i \in DOMAIN w PROVE w[i] \in ToSet(u) \cup {us[k] : k \in 1 .. n}
      <4>1. CASE i \in 1 .. Len(u)
        BY <2>1, <3>1, <4>1 DEF ToSet
      <4>2. CASE i - Len(u) \in 1 .. n
        <5>1. i = Len(u) + (i - Len(u))
          BY <2>1, <3>1
        <5>2. w[i] = us[i - Len(u)]
          BY <3>1, <4>2, <5>1
        <5> QED BY <4>2, <5>2
      <4> QED BY <2>2, <3>1, <4>1, <4>2
    <3>3. \A i \in DOMAIN u : u[i] \in ToSet(w)
      BY <1>1, <2>1, <3>1 DEF ToSet
    <3>4. \A i \in 1 .. n : us[i] \in ToSet(w)
      BY <2>3, <3>1 DEF ToSet
    <3>5. ToSet(w) = ToSet(u) \cup {us[i] : i \in 1 .. n}
      BY <3>2, <3>3, <3>4 DEF ToSet
    <3> QED BY <3>5 DEF w
  <2>5. ASSUME u # << >> PROVE u \o us # << >> /\ (u \o us)[1] = u[1]
    <3>1. 1 \in 1 .. Len(u)
      BY <1>1, <2>5
    <3>2. 1 \in DOMAIN (u \o us) /\ (u \o us)[1] = u[1]
      BY <1>1, <2>1, <3>1
    <3>3. DOMAIN << >> = {}
      OBVIOUS
    <3> QED BY <3>2, <3>3
  <2>6. ASSUME u = << >> PROVE u \o us = us
    <3>1. Len(u) = 0 /\ u \o us \in Seq(Addr) /\ us \in Seq(Addr)
      BY <1>1, <2>6
    <3>2. Len(u \o us) = Len(us) /\ \A i \in 1 .. Len(us) : (u \o us)[i] = us[i]

      BY <1>1, <2>1, <3>1 DEF n
    <3> QED BY <3>1, <3>2
  <2> QED BY <2>4, <2>5, <2>6
<1>17. LET addrs == it[1 .. n]
       IN  /\ addrs \in Seq(Addr) /\ ToSet(addrs) = ToSet(u \o us)
           /\ \A i, j \in DOMAIN addrs : addrs[i] = addrs[j] => i = j
           /\ addrs # << >> => u \o us # << >> /\ addrs[1] = (u \o us)[1]
  <2> DEFINE addrs == it[1 .. n]
  <2>1. Holds(addrs, n)
    BY <1>15
  <2> HIDE DEF addrs
  <2>2. n > 0 => us # << >>
    BY <1>1 DEF n
  <2>3. addrs # << >> => u \o us # << >> /\ addrs[1] = (u \o us)[1]
    BY <1>16, <2>1, <2>2 DEF Holds
  <2>4. addrs \in Seq(Addr) /\ ToSet(addrs) = ToSet(u \o us)
        /\ \A i, j \in DOMAIN addrs : addrs[i] = addrs[j] => i = j
    BY <1>16, <2>1 DEF Holds
  <2> QED BY <2>3, <2>4 DEF addrs
<1> QED BY <1>2, <1>17, Zenon DEF u, us

\* The names of registered domains are names of certificates, and have no port.
LEMMA RegisteredNames ==
  ASSUME NEW rs \in Seq(Route), rs # << >>, Registered(rs),
         NEW i \in DOMAIN rs, NEW j \in DOMAIN rs[i].domains
  PROVE  /\ rs[i].domains[j] \in Written /\ ~rs[i].domains[j].port
         /\ rs[i].domains[j].name \in Name
<1> DEFINE d == rs[i].domains[j]
<1>1. rs[i] \in Route
  OBVIOUS
<1>2. d \in Written /\ rs[i].covers \in SUBSET Name
  <2>1. rs[i].domains \in Seq(Written) /\ rs[i].covers \in SUBSET Name
    BY <1>1 DEF Route
  <2> QED BY <2>1
<1>3. PICK p \in DOMAIN Entries(rs) : Entries(rs)[p] = <<Domain(d), i>>
  BY EntriesInOrder
<1>4. Entries(rs)[p] \in ToSet(Entries(rs))
  BY DEF ToSet
<1>5. ~Domain(d).port /\ Domain(d).name \in rs[i].covers
  BY <1>3, <1>4 DEF Registered
<1>6. Domain(d).port = d.port /\ Domain(d).name = d.name
  BY <1>2 DEF Domain, Written
<1> QED BY <1>2, <1>5, <1>6

\* A domain is looked up by a host iff it is the host's name, which is no literal.
LEMMA HostMeansName ==
  ASSUME NEW d \in Written, ~d.port, d.name \in Name, NEW h \in Written
  PROVE  Domain(d) = CleanHost(h) <=> d.name = h.name /\ h.name \notin Literal
<1> DEFINE x == Domain(d)
           y == CleanHost(h)
<1>1. x \in Written /\ x.name = d.name /\ x.port = d.port /\ x.loose = FALSE
  BY DEF Domain, Written
<1>2. /\ y.name = IF h.name \in Literal THEN Cut ELSE h.name
      /\ y.port = FALSE /\ y.loose = FALSE
  BY DEF CleanHost
<1>3. y \in Written
  BY DEF CleanHost, Written
<1>4. d.port = FALSE /\ d.name # Cut
  <2>1. d.port \in BOOLEAN
    BY DEF Written
  <2> QED BY <2>1, NameAssumption
<1> HIDE DEF x, y
<1>5. x = y <=> x.name = y.name /\ x.port = y.port /\ x.loose = y.loose
  BY <1>1, <1>3 DEF Written
<1>6. x = y <=> d.name = y.name
  BY <1>1, <1>2, <1>4, <1>5
<1> QED BY <1>2, <1>4, <1>6 DEF x, y

\* Where the host of a message leads: to the last of the routes that list it.
LastListing(rs, h) ==
  LET listing == {i \in DOMAIN rs :
                    \E d \in ToSet(rs[i].domains) : d.name = h.name /\ h.name \notin Literal}
  IN  IF listing = {} THEN 1 ELSE CHOOSE k \in listing : \A j \in listing : j <= k

LEMMA ResolveIsLastListing ==
  ASSUME NEW rs \in Seq(Route), rs # << >>, Registered(rs), NEW h \in Written
  PROVE  Resolve(rs, h) = LastListing(rs, h) /\ Resolve(rs, h) \in DOMAIN rs
<1> DEFINE listing == {i \in DOMAIN rs :
                    \E d \in ToSet(rs[i].domains) : d.name = h.name /\ h.name \notin Literal}
           key == CleanHost(h)
           map == Inserted(Entries(rs))
           n == Len(rs)
<1>1. Lists(rs, key) = listing
  <2>1. ASSUME NEW i \in DOMAIN rs
        PROVE  (\E j \in DOMAIN rs[i].domains : Domain(rs[i].domains[j]) = key)
                 <=> \E d \in ToSet(rs[i].domains) : d.name = h.name /\ h.name \notin Literal
    <3>1. \A j \in DOMAIN rs[i].domains :
            /\ rs[i].domains[j] \in Written /\ ~rs[i].domains[j].port
            /\ rs[i].domains[j].name \in Name
      BY RegisteredNames
    <3>2. \A j \in DOMAIN rs[i].domains : Domain(rs[i].domains[j]) = key
            <=> rs[i].domains[j].name = h.name /\ h.name \notin Literal
      BY <3>1, HostMeansName
    <3> QED BY <3>2, Zenon DEF ToSet
  <2> QED BY <2>1, Zenon DEF Lists
<1>2. /\ key \in DOMAIN map <=> listing # {}
      /\ \A i \in listing : (\A k \in listing : k <= i) => map[key] = i
  BY <1>1, TableIsLastRoute, Zenon
<1>3. n \in Nat \ {0} /\ DOMAIN rs = 1 .. n
  OBVIOUS
<1>4. Resolve(rs, h) = IF key \in DOMAIN map THEN map[key] ELSE 1
  BY DEF Resolve
<1>5. LastListing(rs, h) = IF listing = {} THEN 1
                           ELSE CHOOSE k \in listing : \A j \in listing : j <= k
  BY DEF LastListing
<1>6. listing \in SUBSET (1 .. n)
  BY <1>3
<1> HIDE DEF listing, key, map, n
<1>7. CASE listing = {}
  BY <1>2, <1>3, <1>4, <1>5, <1>7
<1>8. CASE listing # {}
  <2>1. Max(listing) \in listing /\ \A y \in listing : Max(listing) >= y
    BY <1>3, <1>6, <1>8, MaxIsMember
  <2>2. \E k \in listing : \A j \in listing : j <= k
    BY <1>6, <2>1
  <2> DEFINE c == CHOOSE k \in listing : \A j \in listing : j <= k
  <2>3. c \in listing /\ \A j \in listing : j <= c
    BY <2>2, Zenon
  <2> HIDE DEF c
  <2>4. map[key] = c
    BY <1>2, <2>3
  <2>5. LastListing(rs, h) = c
    BY <1>5, <1>8 DEF c
  <2> QED BY <1>2, <1>3, <1>4, <1>6, <1>8, <2>3, <2>4, <2>5
<1> QED BY <1>7, <1>8

\* A client that greeted with a name gets the certificate of the route its requests
\* for that name are sent to.
LEMMA CertificateIsRoutes ==
  ASSUME NEW rs, NEW h \in Written, h.name \notin Literal
  PROVE  Certificate(rs, h.name) = Resolve(rs, h)
BY DEF Certificate, Resolve, CleanHost

\* The redirect keeps what the host means.
LEMMA PortlessKeepsRoute ==
  ASSUME NEW rs, NEW h \in Written
  PROVE  ~Portless(h).port /\ Resolve(rs, Portless(h)) = Resolve(rs, h)
<1>1. /\ Portless(h).port = FALSE
      /\ Portless(h).name = IF h.name \in Literal THEN Cut ELSE h.name
  BY DEF Portless, Written
<1>2. CleanHost(Portless(h)) = CleanHost(h)
  BY <1>1, NameAssumption DEF CleanHost
<1> QED BY <1>1, <1>2 DEF Resolve

-----------------------------------------------------------------------------
(* Where a message goes. *)

\* What is raced, and what a message is sent to.
Raceable(m, r) == ~Tunnels(m, r) /\ Raced(r) # << >>
Upstreams(m, r) == IF Raceable(m, r) THEN Raced(r) ELSE <<ResolvedUpstreams(r)[1]>>

\* What is known of the routes, the certificate, the target and what was sent, at each
\* stage.
Routed ==
  /\ routes \in Seq(Route)
  /\ stage \notin {"starting", "refused"} => Valid(routes) /\ Registered(routes)
  /\ stage \in Early \cup {"accepted"} => target = 0
  /\ stage \notin Early \cup {"accepted"} => target = Resolve(routes, message.host)
  /\ sni # << >> => /\ sni \in {<<n>> : n \in Name \ Literal}
                    /\ cert = Certificate(routes, sni[1])
  /\ stage = "redirected" => message \in Message /\ sent = Portless(message.host)
  /\ stage = "tunnel" => Tunnels(message, routes[target])
  /\ stage = "race" => Raceable(message, routes[target])
  /\ stage = "direct" => ~Tunnels(message, routes[target]) /\ Raced(routes[target]) = << >>
  /\ stage = "sent" =>
       /\ sent.to = Upstreams(message, routes[target])
       /\ sent.host = routes[target].domains[1]
       /\ sent.body = message.body
       /\ Raceable(message, routes[target]) => message.body <= MaxBody

LEMMA RoutedInit == EdgeInit => Routed
BY ConfigAssumption DEF EdgeInit, Routed, Early

LEMMA RoutedNext == Passed /\ Routed /\ [EdgeNext]_edgeVars => Routed'
<1> SUFFICES ASSUME Passed, Routed, [EdgeNext]_edgeVars
             PROVE  Routed'
  OBVIOUS
<1> USE DEF Early
<1>1. CASE Start
  BY <1>1 DEF Start, Routed
<1>2. ASSUME NEW n \in {<< >>} \cup {<<x>> : x \in Name \ Literal}, Handshake(n) PROVE Routed'
  BY <1>2 DEF Handshake, Routed
<1>3. ASSUME NEW m \in Message, Receive(m) PROVE Routed'
  BY <1>3 DEF Receive, Routed
<1>4. CASE Dispatch
  <2> DEFINE r == routes[target']
  <2>1. /\ target' = Resolve(routes, message.host)
        /\ stage' = CASE Tunnels(message, r) -> "tunnel"
                       [] ~Tunnels(message, r) /\ Raced(r) # << >> -> "race"
                       [] OTHER -> "direct"
        /\ stage = "accepted"
        /\ UNCHANGED <<routes, sni, cert, message, sent>>
    BY <1>4 DEF Dispatch
  <2> HIDE DEF r
  <2>2. \/ stage' = "tunnel" /\ Tunnels(message, r)
        \/ stage' = "race" /\ ~Tunnels(message, r) /\ Raced(r) # << >>
        \/ stage' = "direct" /\ ~Tunnels(message, r) /\ Raced(r) = << >>
    BY <2>1, Zenon
  <2>3. routes[target]' = r /\ message' = message
    BY <2>1 DEF r
  <2>4. /\ stage' = "tunnel" => Tunnels(message, routes[target])'
        /\ stage' = "race" => Raceable(message, routes[target])'
        /\ stage' = "direct" => ~Tunnels(message, routes[target])' /\ (Raced(routes[target]) = << >>)'
    BY <2>2, <2>3 DEF Raceable, Tunnels, Raced
  <2>5. stage' \in {"tunnel", "race", "direct"}
    BY <2>2
  <2> QED BY <2>1, <2>4, <2>5 DEF Routed
<1>5. CASE Race
  <2>1. /\ stage = "race" /\ UNCHANGED <<routes, sni, cert, message, headers, target>>
        /\ \/ /\ stage' = "sent" /\ message.body <= MaxBody
              /\ sent' = Delivery(Raced(routes[target]))
           \/ stage' = "oversized" /\ UNCHANGED sent
    BY <1>5 DEF Race, CollectAndRace
  <2> QED BY <2>1 DEF Routed, Delivery, Upstreams, Raceable, Tunnels
<1>6. CASE SendDirect
  <2>1. /\ stage \in {"direct", "tunnel"} /\ stage' = "sent"
        /\ UNCHANGED <<routes, sni, cert, message, headers, target>>
        /\ sent' = Delivery(<<ResolvedUpstreams(routes[target])[1]>>)
    BY <1>6 DEF SendDirect
  <2>2. ~Raceable(message, routes[target])
    BY <2>1 DEF Routed, Raceable
  <2> QED BY <2>1, <2>2 DEF Routed, Delivery, Upstreams, Raceable, Tunnels
<1>7. ASSUME NEW m \in Message, Redirect(m) PROVE Routed'
  BY <1>7 DEF Redirect, Routed
<1>8. CASE UNCHANGED edgeVars
  BY <1>8 DEF edgeVars, Routed, Raceable, Upstreams, Tunnels
<1> QED BY <1>1, <1>2, <1>3, <1>4, <1>5, <1>6, <1>7, <1>8 DEF EdgeNext

LEMMA RoutedInvariant == EdgeSpec => [](Passed /\ Routed)
<1>1. Passed /\ Routed /\ [EdgeNext]_edgeVars => Routed'
  BY RoutedNext
<1> QED BY <1>1, RoutedInit, EdgeInvariant, PTL DEF EdgeSpec

\* The two tables agree: on a connection that greeted with the name its requests are
\* for, the certificate presented is that of the route they are sent to; and a redirect
\* leads to the route it was asked for.
THEOREM NamesLeadToOneRoute == EdgeSpec => []OneNameOneRoute
<1>1. Passed /\ Routed => OneNameOneRoute
  <2> SUFFICES ASSUME Passed, Routed PROVE OneNameOneRoute
    OBVIOUS
  <2>1. ASSUME target # 0, sni = <<message.host.name>> PROVE cert = target
    <3>1. stage \notin Early \cup {"accepted"} /\ message \in Message
      BY <2>1 DEF Routed, Passed, Early
    <3>2. message.host \in Written
      BY <3>1, MessageAssumption
    <3>3. sni[1] = message.host.name /\ sni # << >>
      BY <2>1
    <3>4. PICK n \in Name \ Literal : sni = <<n>>
      BY <3>3, Zenon DEF Routed
    <3>5. message.host.name \notin Literal
      BY <3>3, <3>4
    <3>6. cert = Certificate(routes, message.host.name)
      BY <3>3 DEF Routed
    <3> QED BY <3>1, <3>2, <3>5, <3>6, CertificateIsRoutes DEF Routed
  <2>2. ASSUME stage = "redirected"
        PROVE  ~sent.port /\ Resolve(routes, sent) = Resolve(routes, message.host)
    BY <2>2, MessageAssumption, PortlessKeepsRoute DEF Routed
  <2> QED BY <2>1, <2>2 DEF OneNameOneRoute
<1> QED BY <1>1, RoutedInvariant, PTL

\* Whatever is raced has been collected within the limit, and whatever else is larger
\* came without a length.
THEOREM OnlyStreamsAreLarge == EdgeSpec => []LargeBodiesOnlyStreamed
<1>1. Passed /\ Routed => LargeBodiesOnlyStreamed
  <2> SUFFICES ASSUME Passed, Routed, stage = "sent", sent.body > MaxBody
               PROVE  Len(sent.to) = 1 /\ message.lengths = << >>
    BY DEF LargeBodiesOnlyStreamed
  <2>1. message \in Message /\ Validate(message) = 200
    BY DEF Passed, Early
  <2>2. message.body \in Nat /\ MaxBody \in Nat /\ sent.body = message.body
    <3>1. message.body \in Nat
      BY <2>1, MessageAssumption
    <3> QED BY <3>1, FramingAssumption DEF Routed
  <2>3. ~Raceable(message, routes[target])
    BY <2>2 DEF Routed
  <2>4. Len(sent.to) = 1
    <3>1. sent.to = <<ResolvedUpstreams(routes[target])[1]>>
      BY <2>3 DEF Routed, Upstreams
    <3> QED BY <3>1
  <2>5. ASSUME message.lengths # << >> PROVE FALSE
    <3>1. message.body <= Number[message.lengths[1].elements[1]]
      BY <2>1, <2>5, MessageAssumption
    <3>2. /\ Number[message.lengths[1].elements[1]] \in Int
          /\ Number[message.lengths[1].elements[1]] <= MaxBody
      <4>1. ~TooLarge(message) /\ ~Disagreeing(message)
        BY <2>1 DEF Validate
      <4>2. message.lengths \in Seq(LengthValue)
        BY <2>1, MessageAssumption
      <4>3. message.lengths[1] \in LengthValue
        BY <2>5, <4>2
      <4>0. \A v \in LengthValue : v.elements \in Seq(Element) /\ v.elements # << >>
        BY DEF LengthValue
      <4> DEFINE first == message.lengths[1].elements
      <4>4. first \in Seq(Element) /\ first # << >>
        BY <4>0, <4>3
      <4> HIDE DEF first
      <4>a. first[1] \in Element
        BY <4>4
      <4>5. Number[message.lengths[1].elements[1]] \in Nat \cup {-1}
        BY <4>a, FramingAssumption DEF first
      <4> QED BY <2>2, <2>5, <4>1, <4>5 DEF TooLarge
    <3> QED BY <2>2, <3>1, <3>2
  <2> QED BY <2>4, <2>5
<1> QED BY <1>1, RoutedInvariant, PTL

\* A sequence that has each of its elements once is as long as they are many.
LEMMA CountedOnce ==
  ASSUME NEW S, NEW s \in Seq(S), \A i, j \in DOMAIN s : s[i] = s[j] => i = j
  PROVE  Len(s) = Cardinality(ToSet(s))
<1>1. Len(s) \in Nat /\ DOMAIN s = 1 .. Len(s) /\ s = [i \in 1 .. Len(s) |-> s[i]]
  OBVIOUS
<1>2. s \in [1 .. Len(s) -> ToSet(s)]
  BY <1>1 DEF ToSet
<1>3. \A x \in ToSet(s) : \E i \in 1 .. Len(s) : s[i] = x
  BY <1>1 DEF ToSet
<1>4. s \in Bijection(1 .. Len(s), ToSet(s))
  BY <1>1, <1>2, <1>3 DEF Bijection, Injection, Surjection, IsInjective
<1>5. ExistsBijection(1 .. Len(s), ToSet(s))
  BY <1>4, Zenon DEF ExistsBijection
<1> QED BY <1>1, <1>5, FS_CountingElements

\* A message reaches what its route names and nothing else, however many routes list
\* its host and however often an upstream is named.
THEOREM RouteIsReached == EdgeSpec => []MessageReachesItsRoute
<1>1. Passed /\ Routed => MessageReachesItsRoute
  <2> SUFFICES ASSUME Passed, Routed, stage = "sent" PROVE MessageReachesItsRoute
    BY DEF MessageReachesItsRoute
  <2> DEFINE r == routes[target]
             own == r.upstream \o r.upstreams
             addrs == ResolvedUpstreams(r)
             alone == Tunnels(message, r) \/ r.hedged = <<FALSE>>
  <2>1. /\ message \in Message /\ message.host \in Written
        /\ routes \in Seq(Route) /\ routes # << >> /\ Valid(routes) /\ Registered(routes)
        /\ target = Resolve(routes, message.host)
    BY MessageAssumption DEF Passed, Routed, Early, Valid
  <2>2. target = LastListing(routes, message.host) /\ target \in DOMAIN routes
    BY <2>1, ResolveIsLastListing
  <2>3. r \in Route /\ addrs # << >>
    BY <2>1, <2>2 DEF Valid
  <2>4. /\ addrs \in Seq(Addr) /\ ToSet(addrs) = ToSet(own)
        /\ \A i, j \in DOMAIN addrs : addrs[i] = addrs[j] => i = j
        /\ addrs[1] = own[1]
    BY <2>3, ResolvedIsOwn
  <2>5. sent.host = r.domains[1] /\ sent.to = Upstreams(message, r)
    BY DEF Routed
  <2>6. r.hedged \in {<< >>, <<TRUE>>, <<FALSE>>}
    <3>1. r.hedged \in Maybe(BOOLEAN)
      BY <2>3 DEF Route
    <3> QED BY <3>1, Zenon DEF Maybe
  <2> HIDE DEF r, own, addrs
  <2>7. Raced(r) = IF r.hedged # <<FALSE>> /\ Len(addrs) > 1 THEN addrs ELSE << >>
    <3>2. r.hedged = << >> \/ r.hedged = <<FALSE>> \/ r.hedged = <<TRUE>>
      BY <2>6
    <3>3. CASE r.hedged = << >>
      <4>1. r.hedged # <<FALSE>>
        BY <3>3
      <4> QED BY <3>3, <4>1, Zenon DEF Raced, addrs
    <3>4. CASE r.hedged = <<FALSE>>
      <4>1. r.hedged # << >> /\ r.hedged[1] = FALSE
        BY <3>4
      <4> QED BY <3>4, <4>1, Zenon DEF Raced, addrs
    <3>5. CASE r.hedged = <<TRUE>>
      <4>1. r.hedged # << >> /\ r.hedged # <<FALSE>> /\ r.hedged[1] = TRUE
        BY <3>5
      <4> QED BY <4>1, Zenon DEF Raced, addrs
    <3> QED BY <3>2, <3>3, <3>4, <3>5
  <2>8. ASSUME alone PROVE sent.to = <<own[1]>>
    <3>1. ~Raceable(message, r)
      BY <2>7, <2>8 DEF Raceable
    <3> QED BY <2>4, <2>5, <3>1 DEF Upstreams, addrs
  <2>9. ASSUME ~alone
        PROVE  ToSet(sent.to) = ToSet(own) /\ Len(sent.to) = Cardinality(ToSet(own))
    <3>1. sent.to = addrs
      <4>1. CASE Len(addrs) > 1
        <5>1. Raced(r) = addrs
          BY <2>7, <2>9, <4>1
        <5> QED BY <2>3, <2>5, <2>9, <5>1 DEF Upstreams, Raceable
      <4>2. CASE ~(Len(addrs) > 1)
        <5>1. Len(addrs) = 1
          <6>1. Len(addrs) \in Nat /\ (Len(addrs) = 0 => addrs = << >>)
            BY <2>4
          <6> QED BY <2>3, <4>2, <6>1
        <5>2. addrs = <<addrs[1]>>
          BY <2>4, <5>1
        <5>3. Raced(r) = << >>
          BY <2>7, <4>2
        <5> QED BY <2>5, <5>2, <5>3 DEF Upstreams, Raceable, addrs
      <4> QED BY <4>1, <4>2
    <3>2. Len(addrs) = Cardinality(ToSet(addrs))
      BY <2>4, CountedOnce
    <3> QED BY <2>4, <3>1, <3>2
  <2> HIDE DEF alone
  <2>10. LET listing == Listing(message.host)
         IN  target = IF listing = {} THEN 1 ELSE CHOOSE k \in listing : \A j \in listing : j <= k
    BY <2>2, Zenon DEF LastListing, Listing
  <2> QED BY <2>5, <2>8, <2>9, <2>10 DEF MessageReachesItsRoute, alone, own, r
<1> QED BY <1>1, RoutedInvariant, PTL

-----------------------------------------------------------------------------
(* ACME challenges. *)

\* What a running request may rely on is among what it has seen.
Watched(r) ==
  step[r] \in Running => \A p \in Place : content[p] \in seen[r][p]

\* The flat place is tried, and chosen, only after the nested one was empty.
FlatIsSecond(r) ==
  step[r] = "flat" \/ (step[r] \in {"stat", "read", "200", "500"} /\ path[r] = "flat")
    => Absent \in seen[r]["nested"]

\* A chosen place held a file, and one that is read a small one.
ChosenHeld(r) ==
  /\ step[r] \in {"stat", "read", "200", "500"} =>
       \E c \in seen[r][path[r]] : c # Absent
  /\ step[r] \in {"read", "200", "500"} =>
       \E c \in seen[r][path[r]] : c \in Small

\* What an answer says was so.
AnswerHeld(r) ==
  /\ step[r] = "200" => body[r] \in seen[r][path[r]]
  /\ step[r] = "500" => Absent \in seen[r][path[r]]
  /\ step[r] = "404" /\ Wanted(r) =>
       \/ Absent \in seen[r]["nested"]
       \/ \E c \in seen[r]["nested"] : c \notin Small

\* Files are looked at for those who ask for them.
OnlyWanted(r) ==
  /\ step[r] \in {"flat", "stat", "read", "200", "500"} => Wanted(r)
  /\ step[r] \in {"passed", "400"} => ~Wanted(r)

AcmeInv ==
  /\ AcmeTypeOK
  /\ \A r \in Request :
       Watched(r) /\ FlatIsSecond(r) /\ ChosenHeld(r) /\ AnswerHeld(r) /\ OnlyWanted(r)

-----------------------------------------------------------------------------
\* The invariant holds at first: nothing has been asked.
LEMMA AcmeInvInit == AcmeInit => AcmeInv
BY WebrootAssumption DEF AcmeInit, AcmeInv, AcmeTypeOK, Watched, FlatIsSecond, ChosenHeld,
   AnswerHeld, OnlyWanted, Running, Answered, Place, Kind

\* Every step keeps it.
LEMMA AcmeInvNext == AcmeInv /\ [AcmeNext]_acmeVars => AcmeInv'
<1> SUFFICES ASSUME AcmeInv, [AcmeNext]_acmeVars PROVE AcmeInv'
  OBVIOUS
<1> USE WebrootAssumption
<1>0. AcmeTypeOK /\ \A r \in Request :
        Watched(r) /\ FlatIsSecond(r) /\ ChosenHeld(r) /\ AnswerHeld(r) /\ OnlyWanted(r)
  BY DEF AcmeInv
<1>1. ASSUME NEW r \in Request, Arrive(r) PROVE AcmeInv'
  BY <1>0, <1>1 DEF AcmeInv, Arrive, Moves, AcmeTypeOK, Watched, FlatIsSecond, ChosenHeld,
     AnswerHeld, OnlyWanted, Running, Answered, Place, Kind, Wanted
<1>2. ASSUME NEW r \in Request, Refuse(r) PROVE AcmeInv'
  BY <1>0, <1>2 DEF AcmeInv, Refuse, Moves, AcmeTypeOK, Watched, FlatIsSecond, ChosenHeld,
     AnswerHeld, OnlyWanted, Running, Answered, Place, Kind, Wanted
<1>3. ASSUME NEW r \in Request, TryNested(r) PROVE AcmeInv'
  BY <1>0, <1>3 DEF AcmeInv, TryNested, Looks, Pick, AcmeTypeOK, Watched, FlatIsSecond,
     ChosenHeld, AnswerHeld, OnlyWanted, Running, Answered, Place, Kind, Wanted
<1>4. ASSUME NEW r \in Request, TryFlat(r) PROVE AcmeInv'
  BY <1>0, <1>4 DEF AcmeInv, TryFlat, Looks, Pick, AcmeTypeOK, Watched, FlatIsSecond,
     ChosenHeld, AnswerHeld, OnlyWanted, Running, Answered, Place, Kind, Wanted
<1>5. ASSUME NEW r \in Request, Stat(r) PROVE AcmeInv'
  BY <1>0, <1>5 DEF AcmeInv, Stat, Moves, AcmeTypeOK, Watched, FlatIsSecond, ChosenHeld,
     AnswerHeld, OnlyWanted, Running, Answered, Place, Kind, Wanted
<1>6. ASSUME NEW r \in Request, ReadFile(r) PROVE AcmeInv'
  BY <1>0, <1>6 DEF AcmeInv, ReadFile, Moves, AcmeTypeOK, Watched, FlatIsSecond, ChosenHeld,
     AnswerHeld, OnlyWanted, Running, Answered, Place, Kind, Wanted
<1>7. ASSUME NEW r \in Request, Drop(r) PROVE AcmeInv'
  BY <1>0, <1>7 DEF AcmeInv, Drop, AcmeTypeOK, Watched, FlatIsSecond, ChosenHeld,
     AnswerHeld, OnlyWanted, Running, Answered, Place, Kind, Wanted
<1>8. ASSUME NEW p \in Place, NEW c \in Content \cup {Absent}, Write(p, c) PROVE AcmeInv'
  BY <1>0, <1>8 DEF AcmeInv, Write, AcmeTypeOK, Watched, FlatIsSecond, ChosenHeld,
     AnswerHeld, OnlyWanted, Running, Answered, Place, Kind, Wanted
<1>9. CASE UNCHANGED acmeVars
  BY <1>0, <1>9 DEF AcmeInv, acmeVars, AcmeTypeOK, Watched, FlatIsSecond, ChosenHeld,
     AnswerHeld, OnlyWanted, Running, Answered, Place, Kind, Wanted
<1> QED
  BY <1>1, <1>2, <1>3, <1>4, <1>5, <1>6, <1>7, <1>8, <1>9 DEF AcmeNext, Proceed

\* AcmeInv holds in every state.
THEOREM AcmeInvariant == AcmeSpec => []AcmeInv
BY AcmeInvInit, AcmeInvNext, PTL DEF AcmeSpec

\* The type invariant: a request's step, place and answer are of the kinds they are
\* meant to be, and it has a body exactly when its status is 200.
THEOREM AcmeTypes == AcmeSpec => []AcmeTypeOK
BY AcmeInvariant, PTL DEF AcmeInv

-----------------------------------------------------------------------------
\* A token whose nested file stays as it is while it is asked for is served that file,
\* whatever is written into the flat place.
THEOREM StableTokens == AcmeSpec => []StableTokenIsServed
<1>1. ASSUME AcmeInv PROVE StableTokenIsServed
  <2> SUFFICES ASSUME NEW r \in Request, NEW c \in Small,
                      Wanted(r), step[r] \in Answered, seen[r]["nested"] = {c}
               PROVE  step[r] = "200" /\ body[r] = c
    BY DEF StableTokenIsServed
  <2>1. /\ FlatIsSecond(r) /\ ChosenHeld(r) /\ AnswerHeld(r) /\ OnlyWanted(r)
        /\ path[r] \in Place /\ Absent # c
    BY <1>1, WebrootAssumption DEF AcmeInv, AcmeTypeOK
  <2>2. step[r] \notin {"passed", "400"}
    BY <2>1 DEF OnlyWanted
  <2>3. step[r] # "404"
    BY <2>1 DEF AnswerHeld
  <2>4. step[r] \in {"200", "500"} => path[r] = "nested"
    BY <2>1 DEF FlatIsSecond, Place
  <2>5. step[r] # "500"
    BY <2>1, <2>4 DEF AnswerHeld
  <2>6. step[r] = "200"
    BY <2>2, <2>3, <2>5 DEF Answered
  <2> QED BY <2>1, <2>4, <2>6 DEF AnswerHeld
<1> QED BY <1>1, AcmeInvariant, PTL

-----------------------------------------------------------------------------
\* Nothing has been asked: the look-up's initial state.
LEMMA LookupInitially == AcmeInit => Lookup!LookupInit
BY DEF AcmeInit, Lookup!LookupInit, Lookup!Plain, Lookup!Place, Place, outcome, refused, Running

\* The outcome of a request depends on its own step and body only.
LEMMA OutcomeOfOne ==
  ASSUME NEW r \in Request, AcmeTypeOK, NEW s, NEW b,
         step' = [step EXCEPT ![r] = s], body' = [body EXCEPT ![r] = b]
  PROVE  outcome' = [outcome EXCEPT ![r] =
                       [status |-> IF s \in Running THEN "pending" ELSE s, body |-> b]]
BY DEF outcome, AcmeTypeOK

\* A step that leaves kind, configuration and idleness alone refuses no other request.
LEMMA SameRefused ==
  ASSUME NEW r \in Request, AcmeTypeOK, NEW s, step' = [step EXCEPT ![r] = s],
         step[r] # "idle", s # "idle", UNCHANGED <<configured, kind>>
  PROVE  refused' = refused
BY DEF refused, AcmeTypeOK, Wanted

\* A step of the responder is a step of the look-up, or none.
LEMMA LookupStep == AcmeInv /\ [AcmeNext]_acmeVars => [Lookup!LookupNext]_(Lookup!lookupVars)
<1> SUFFICES ASSUME AcmeInv, [AcmeNext]_acmeVars
             PROVE  [Lookup!LookupNext]_(Lookup!lookupVars)
  OBVIOUS
<1>0. AcmeTypeOK /\ \A r \in Request :
        Watched(r) /\ FlatIsSecond(r) /\ ChosenHeld(r) /\ AnswerHeld(r) /\ OnlyWanted(r)
  BY DEF AcmeInv
<1>same. ASSUME NEW r \in Request, NEW s, step' = [step EXCEPT ![r] = s], UNCHANGED body
         PROVE  outcome' = [outcome EXCEPT ![r] =
                  [status |-> IF s \in Running THEN "pending" ELSE s, body |-> body[r]]]
  BY <1>0, <1>same DEF outcome, AcmeTypeOK
<1>1. ASSUME NEW r \in Request, Arrive(r) PROVE Lookup!Begin(r)
  <2>1. outcome[r].status = "idle" /\ body[r] = Absent
    BY <1>0, <1>1 DEF Arrive, Moves, outcome, Running, AcmeTypeOK
  <2>2. outcome' = [outcome EXCEPT ![r] = Lookup!Plain("pending")]
    BY <1>1, <1>same, <2>1 DEF Arrive, Moves, Running, Lookup!Plain
  <2>3. refused' \in {refused, refused \cup {r}}
    BY <1>0, <1>1 DEF Arrive, Moves, refused, Wanted, AcmeTypeOK
  <2> QED
    BY <1>1, <2>1, <2>2, <2>3 DEF Arrive, Lookup!Begin, Lookup!Place, Place
<1>pending. ASSUME NEW r \in Request, step[r] \in Running
            PROVE  /\ outcome[r].status = "pending" /\ body[r] = Absent
                   /\ r \in refused <=> ~Wanted(r)
  BY <1>0, <1>pending DEF outcome, Running, AcmeTypeOK, refused
<1>2. ASSUME NEW r \in Request, Refuse(r) PROVE Lookup!Respond(r)
  <2>1. PICK s \in {"passed", "400", "404"} : step' = [step EXCEPT ![r] = s]
    BY <1>0, <1>2 DEF Refuse, Moves, AcmeTypeOK, Kind
  <2>2. step[r] = "asked" /\ ~Wanted(r) /\ UNCHANGED <<configured, kind, content, body, seen>>
    BY <1>2 DEF Refuse, Moves
  <2>3. outcome[r].status = "pending" /\ body[r] = Absent /\ r \in refused
    BY <1>pending, <2>2 DEF Running
  <2>4. outcome' = [outcome EXCEPT ![r] = Lookup!Plain(s)]
    BY <1>same, <2>1, <2>2, <2>3 DEF Running, Lookup!Plain
  <2>5. refused' = refused
    BY <1>0, <2>1, <2>2, SameRefused
  <2>6. Lookup!Plain(s) \in Lookup!Refusals
    BY <2>1 DEF Lookup!Refusals
  <2> QED BY <2>2, <2>3, <2>4, <2>5, <2>6 DEF Lookup!Respond
<1>silent. ASSUME NEW r \in Request, step[r] \in Running, NEW s \in Running,
                  step' = [step EXCEPT ![r] = s],
                  UNCHANGED <<configured, kind, content, body, seen>>
           PROVE  UNCHANGED Lookup!lookupVars
  <2>1. outcome' = outcome
    BY <1>0, <1>silent DEF outcome, AcmeTypeOK
  <2>2. refused' = refused
    BY <1>0, <1>silent, SameRefused DEF Running
  <2> QED BY <1>silent, <2>1, <2>2 DEF Lookup!lookupVars
<1>answer. ASSUME NEW r \in Request, step[r] \in Running, Wanted(r),
                  NEW s \in {"404", "500", "200"}, NEW b,
                  step' = [step EXCEPT ![r] = s], body' = [body EXCEPT ![r] = b],
                  UNCHANGED <<configured, kind, content, seen>>,
                  [status |-> s, body |-> b] \in Lookup!Answers(r)
           PROVE  Lookup!Respond(r)
  <2>1. outcome[r].status = "pending" /\ r \notin refused
    BY <1>pending, <1>answer
  <2>2. outcome' = [outcome EXCEPT ![r] = [status |-> s, body |-> b]]
    <3>1. s \notin Running
      BY DEF Running
    <3> QED BY <1>0, <1>answer, <3>1, OutcomeOfOne
  <2>3. refused' = refused
    BY <1>0, <1>answer, SameRefused DEF Running
  <2> QED BY <1>answer, <2>1, <2>2, <2>3 DEF Lookup!Respond
<1>3. ASSUME NEW r \in Request, TryNested(r) PROVE UNCHANGED Lookup!lookupVars
  BY <1>3, <1>silent DEF TryNested, Looks, Pick, Running
<1>missing. ASSUME NEW r \in Request, Lookup!Missing(r)
            PROVE  Lookup!Plain("404") \in Lookup!Answers(r)
  BY <1>missing DEF Lookup!Answers
<1>4. ASSUME NEW r \in Request, TryFlat(r) PROVE Lookup!LookupNext \/ UNCHANGED Lookup!lookupVars
  <2>0. Wanted(r) /\ step[r] = "flat" /\ step[r] \in Running
    BY <1>4 DEF TryFlat, Looks, Running
  <2>1. CASE content["flat"] # Absent
    BY <1>4, <1>silent, <2>0, <2>1 DEF TryFlat, Pick, Running
  <2>2. CASE content["flat"] = Absent
    <3>1. Absent \in seen[r]["nested"] /\ Absent \in seen[r]["flat"]
      BY <1>0, <2>0, <2>2 DEF FlatIsSecond, Watched, Place
    <3>2. Lookup!Missing(r)
      BY <3>1 DEF Lookup!Missing, Lookup!Place
    <3>3. body[r] = Absent /\ body' = [body EXCEPT ![r] = Absent]
      BY <1>0, <1>4, <1>pending, <2>0 DEF TryFlat, Pick, AcmeTypeOK
    <3>4. Lookup!Respond(r)
      BY <1>4, <1>answer, <1>missing, <2>0, <2>2, <3>2, <3>3 DEF TryFlat, Pick, Lookup!Plain
    <3> QED BY <3>4 DEF Lookup!LookupNext
  <2> QED BY <2>1, <2>2
<1>chosen. ASSUME NEW r \in Request, step[r] \in {"stat", "read"}
           PROVE  /\ Wanted(r) /\ path[r] \in Lookup!Place
                  /\ Lookup!Chosen(r, path[r])
                  /\ content[path[r]] \in seen[r][path[r]]
                  /\ body[r] = Absent /\ body = [body EXCEPT ![r] = Absent]
  BY <1>0, <1>chosen DEF AcmeTypeOK, OnlyWanted, FlatIsSecond, Watched, Running, Place,
     Lookup!Place, Lookup!Chosen
<1>5. ASSUME NEW r \in Request, Stat(r) PROVE Lookup!LookupNext \/ UNCHANGED Lookup!lookupVars
  <2>0. step[r] = "stat" /\ step[r] \in Running
    BY <1>5 DEF Stat, Moves, Running
  <2>1. CASE content[path[r]] \in Small
    BY <1>5, <1>silent, <2>0, <2>1 DEF Stat, Moves, Running
  <2>2. CASE content[path[r]] \notin Small
    <3>1. Lookup!Missing(r)
      <4>1. CASE content[path[r]] = Absent
        <5>1. PICK c \in seen[r][path[r]] : c # Absent
          BY <1>0, <2>0 DEF ChosenHeld
        <5> QED BY <1>chosen, <2>0, <4>1, <5>1 DEF Lookup!Missing
      <4>2. CASE content[path[r]] # Absent
        BY <1>0, <1>chosen, <2>0, <2>2, <4>2 DEF Lookup!Missing, AcmeTypeOK
      <4> QED BY <4>1, <4>2
    <3>2. Lookup!Respond(r)
      BY <1>5, <1>answer, <1>missing, <1>chosen, <2>0, <2>2, <3>1 DEF Stat, Moves, Lookup!Plain
    <3> QED BY <3>2 DEF Lookup!LookupNext
  <2> QED BY <2>1, <2>2
<1>6. ASSUME NEW r \in Request, ReadFile(r) PROVE Lookup!LookupNext
  <2>0. step[r] = "read" /\ step[r] \in Running
    BY <1>6 DEF ReadFile, Moves, Running
  <2>1. PICK c \in seen[r][path[r]] : c \in Small
    BY <1>0, <2>0 DEF ChosenHeld
  <2>2. CASE content[path[r]] = Absent
    <3>1. Lookup!Vanished(r)
      BY <1>chosen, <2>0, <2>1, <2>2 DEF Lookup!Vanished
    <3>2. Lookup!Plain("500") \in Lookup!Answers(r)
      BY <3>1 DEF Lookup!Answers
    <3>3. Lookup!Respond(r)
      BY <1>6, <1>answer, <1>chosen, <2>0, <2>2, <3>2 DEF ReadFile, Moves, Lookup!Plain
    <3> QED BY <3>3 DEF Lookup!LookupNext
  <2>3. CASE content[path[r]] # Absent
    <3>1. Lookup!Found(content[path[r]]) \in Lookup!Served(r)
      BY <1>chosen, <2>0, <2>1, <2>3 DEF Lookup!Served
    <3>2. Lookup!Found(content[path[r]]) \in Lookup!Answers(r)
      BY <3>1 DEF Lookup!Answers
    <3>3. Lookup!Respond(r)
      BY <1>6, <1>answer, <1>chosen, <2>0, <2>3, <3>2 DEF ReadFile, Moves, Lookup!Found
    <3> QED BY <3>3 DEF Lookup!LookupNext
  <2> QED BY <2>2, <2>3
<1>7. ASSUME NEW r \in Request, Drop(r) PROVE Lookup!LookupNext
  <2>0. step[r] \in {"stat", "read"} /\ step[r] \in Running
    BY <1>7 DEF Drop, Running
  <2>1. outcome[r].status = "pending" /\ body[r] = Absent
    BY <1>pending, <2>0
  <2>2. outcome' = [outcome EXCEPT ![r] = Lookup!Plain("dropped")]
    BY <1>7, <1>same, <2>1 DEF Drop, Running, Lookup!Plain
  <2>3. refused' = refused
    BY <1>0, <1>7, <2>0, SameRefused DEF Drop
  <2>4. Lookup!Abandon(r)
    BY <1>7, <2>1, <2>2, <2>3 DEF Drop, Lookup!Abandon
  <2> QED BY <2>4 DEF Lookup!LookupNext
<1>8. ASSUME NEW p \in Place, NEW c \in Content \cup {Absent}, Write(p, c)
      PROVE  Lookup!LookupNext
  <2>1. \A r \in Request : outcome[r].status = "pending" <=> step[r] \in Running
    BY <1>0 DEF outcome, Running, Answered, AcmeTypeOK
  <2>2. outcome' = outcome /\ refused' = refused
    BY <1>8 DEF Write, outcome, refused, Wanted
  <2>3. Lookup!Write(p, c)
    BY <1>8, <2>1, <2>2 DEF Write, Lookup!Write
  <2> QED BY <2>3 DEF Lookup!LookupNext, Lookup!Place, Place
<1>9. ASSUME UNCHANGED acmeVars PROVE UNCHANGED Lookup!lookupVars
  BY <1>9 DEF acmeVars, Lookup!lookupVars, outcome, refused, Wanted
<1> QED
  BY <1>1, <1>2, <1>3, <1>4, <1>5, <1>6, <1>7, <1>8, <1>9
  DEF AcmeNext, Proceed, Lookup!LookupNext

\* The responder implements the look-up in one step: for any number of requests and
\* whatever is written between its looks at the file system, its answers are ones that
\* the look-up gives.
THEOREM ResponderImplementsLookup == AcmeSpec => ImplementsLookup
BY AcmeInvariant, LookupInitially, LookupStep, PTL
DEF AcmeSpec, ImplementsLookup, Lookup!LookupSpec

-----------------------------------------------------------------------------
(* Scrubbed texts. *)

\* The states of the scrub.
Scanning ==
  [mode : {"text", "esc", "csi", "osc", "osc_esc", "stop"}, out : Seq(Char), size : Nat]

\* How a scrub begins.
ScanStart == [mode |-> "text", out |-> << >>, size |-> 0]

\* What Put does to the parts of a state.
LEMMA PutParts ==
  ASSUME NEW max \in Nat, NEW s \in Scanning, NEW c \in Char
  PROVE  LET r == Put(s, c, max)
         IN  /\ r \in Scanning
             /\ s.size + Width(c) > max => r.mode = "stop" /\ r.out = s.out /\ r.size = s.size
             /\ s.size + Width(c) <= max => /\ r.mode = s.mode /\ r.out = Append(s.out, c)
                                            /\ r.size = s.size + Width(c)
<1>1. Width(c) \in Nat /\ s.size \in Nat /\ s.out \in Seq(Char)
  BY DEF Width, Scanning
<1>2. CASE s.size + Width(c) > max
  <2>1. Put(s, c, max) = [s EXCEPT !.mode = "stop"]
    BY <1>2, Zenon DEF Put
  <2> QED BY <1>1, <1>2, <2>1 DEF Scanning
<1>3. CASE ~(s.size + Width(c) > max)
  <2>1. Put(s, c, max) = [s EXCEPT !.out = Append(@, c), !.size = @ + Width(c)]
    BY <1>3, Zenon DEF Put
  <2>2. Append(s.out, c) \in Seq(Char) /\ s.size + Width(c) \in Nat
    BY <1>1
  <2> QED BY <1>1, <1>3, <2>1, <2>2 DEF Scanning
<1> QED BY <1>2, <1>3

\* What one character does: nothing to a scrub that is done; in text, unless the limit is
\* reached, it is put out if it is no control character, a tab as a blank; elsewhere only
\* the mode changes.
ScanStep(s, r, c, max) ==
  \/ s.mode = "stop" /\ r = s
  \/ s.mode = "text" /\ s.size >= max /\ r.mode = "stop" /\ r.out = s.out /\ r.size = s.size
  \/ s.mode = "text" /\ s.size < max /\ c = "tab" /\ r = Put(s, " ", max)
  \/ s.mode = "text" /\ s.size < max /\ c \notin Control /\ r = Put(s, c, max)
  \/ /\ s.mode # "stop" /\ r.mode # "stop" /\ r.out = s.out /\ r.size = s.size
     /\ s.mode = "text" => s.size < max

\* What becomes of each part of a state.
LEMMA ScanParts ==
  ASSUME NEW max \in Nat, NEW s \in Scanning, NEW c \in Char
  PROVE  Scan(s, c, max) \in Scanning /\ ScanStep(s, Scan(s, c, max), c, max)
<1> DEFINE to(mode) == [s EXCEPT !.mode = mode]
<1>1. \A m \in {"text", "esc", "csi", "osc", "osc_esc", "stop"} :
        /\ to(m) \in Scanning
        /\ to(m).mode = m /\ to(m).out = s.out /\ to(m).size = s.size
  <2> SUFFICES ASSUME NEW m \in {"text", "esc", "csi", "osc", "osc_esc", "stop"}
               PROVE  /\ to(m) \in Scanning
                      /\ to(m).mode = m /\ to(m).out = s.out /\ to(m).size = s.size
    OBVIOUS
  <2>1. to(m).mode = m /\ to(m).out = s.out /\ to(m).size = s.size
    BY DEF Scanning
  <2>2. to(m) \in Scanning
    BY DEF Scanning
  <2> QED BY <2>1, <2>2
<1>2. s.size \in Nat /\ s.mode \in {"text", "esc", "csi", "osc", "osc_esc", "stop"}
  BY DEF Scanning
<1>3. " " \in Char
  BY TextAssumption
<1> HIDE DEF to
<1>4. CASE s.mode = "stop"
  <2>1. Scan(s, c, max) = s
    BY <1>4 DEF Scan
  <2> QED BY <1>4, <2>1 DEF ScanStep
<1>5. CASE s.mode = "text"
  <2>1. Scan(s, c, max) = IF s.size >= max THEN to("stop")
                          ELSE IF c = "esc" THEN to("esc")
                          ELSE IF c = "tab" THEN Put(s, " ", max)
                          ELSE IF c \in Control THEN s
                          ELSE Put(s, c, max)
    BY <1>5 DEF Scan, to
  <2>2. Put(s, " ", max) \in Scanning /\ Put(s, c, max) \in Scanning
    BY <1>3, PutParts
  <2>3. CASE s.size >= max
    <3>1. Scan(s, c, max) = to("stop")
      BY <2>1, <2>3
    <3> QED BY <1>1, <1>5, <2>3, <3>1 DEF ScanStep
  <2>4. CASE ~(s.size >= max)
    <3>0. s.size < max
      BY <1>2, <2>4
    <3>1. CASE c = "esc"
      <4>1. Scan(s, c, max) = to("esc")
        BY <2>1, <2>4, <3>1
      <4> QED BY <1>1, <1>5, <3>0, <4>1 DEF ScanStep
    <3>2. CASE c = "tab"
      <4>1. Scan(s, c, max) = Put(s, " ", max)
        BY <2>1, <2>4, <3>2
      <4> QED BY <1>5, <2>2, <3>0, <3>2, <4>1 DEF ScanStep
    <3>3. CASE c \in Control \ {"esc", "tab"}
      <4>1. Scan(s, c, max) = s
        BY <2>1, <2>4, <3>3
      <4> QED BY <1>5, <3>0, <4>1 DEF ScanStep
    <3>4. CASE c \notin Control
      <4>1. Scan(s, c, max) = Put(s, c, max)
        BY <2>1, <2>4, <3>4 DEF Control
      <4> QED BY <1>5, <2>2, <3>0, <3>4, <4>1 DEF ScanStep
    <3> QED BY <3>1, <3>2, <3>3, <3>4
  <2> QED BY <2>3, <2>4
<1>6. CASE s.mode = "esc"
  <2>1. Scan(s, c, max) = to(CASE c = "[" -> "csi" [] c = "]" -> "osc" [] OTHER -> "text")
    BY <1>6 DEF Scan, to
  <2>2. (CASE c = "[" -> "csi" [] c = "]" -> "osc" [] OTHER -> "text")
          \in {"text", "csi", "osc"}
    OBVIOUS
  <2> QED BY <1>1, <1>6, <2>1, <2>2 DEF ScanStep
<1>7. CASE s.mode = "csi"
  <2>1. Scan(s, c, max) = to(IF c \in Final THEN "text" ELSE "csi")
    BY <1>7 DEF Scan, to
  <2> QED BY <1>1, <1>7, <2>1 DEF ScanStep
<1>8. CASE s.mode \in {"osc", "osc_esc"}
  <2> DEFINE m == CASE c = "bel" -> "text"
                    [] c = "\\" /\ s.mode = "osc_esc" -> "text"
                    [] c = "esc" -> "osc_esc"
                    [] OTHER -> "osc"
  <2>1. Scan(s, c, max) = to(m)
    BY <1>8 DEF Scan, to
  <2>2. m \in {"text", "osc", "osc_esc"}
    OBVIOUS
  <2> HIDE DEF m
  <2> QED BY <1>1, <1>8, <2>1, <2>2 DEF ScanStep
<1> QED BY <1>2, <1>4, <1>5, <1>6, <1>7, <1>8

\* Scanned is a fold.
LEMMA ScannedGrows ==
  ASSUME NEW max \in Nat
  PROVE  /\ Scanned(<< >>, max) = ScanStart
         /\ \A t \in Seq(Char) : Scanned(t, max) \in Scanning
         /\ \A t \in Seq(Char), c \in Char :
              Scanned(Append(t, c), max) = Scan(Scanned(t, max), c, max)
<1> DEFINE F == [p \in Scanning \X Char |-> Scan(p[1], p[2], max)]
           R == [t \in Seq(Char) |-> Scanned(t, max)]
<1>0. ScanStart \in Scanning
  BY DEF ScanStart, Scanning
<1>1. F \in [Scanning \X Char -> Scanning]
  BY ScanParts
<1>f. \A s \in Scanning, c \in Char : F[<<s, c>>] = Scan(s, c, max)
  OBVIOUS
<1>2. ASSUME NEW t \in Seq(Char)
      PROVE  EndsTrace(R[t], Scanning, ScanStart, F, t)
  <2> DEFINE it == CHOOSE g : g = [x \in SUBSET DOMAIN t |->
                     IF x = {} THEN ScanStart ELSE Scan(g[x \ {Max(x)}], t[Max(x)], max)]
  <2>1. DOMAIN t = 1 .. Len(t) /\ Len(t) \in Nat /\ \A i \in 1 .. Len(t) : t[i] \in Char
    OBVIOUS
  <2>2. R[t] = it[1 .. Len(t)]
    BY <2>1, Zenon DEF Scanned, FoldLeft, MapThenFoldSet, ScanStart
  <2> HIDE DEF F, R
  <2>3. PICK g : IsFoldAlong(g, Scanning, ScanStart, F, t)
    BY <1>0, <1>1, FoldAlongExists, Zenon
  <2>4. g = [x \in SUBSET DOMAIN t |->
               IF x = {} THEN ScanStart ELSE Scan(g[x \ {Max(x)}], t[Max(x)], max)]
    BY <1>f, <2>1, <2>3 DEF IsFoldAlong
  <2>5. it = [x \in SUBSET DOMAIN t |->
                IF x = {} THEN ScanStart ELSE Scan(it[x \ {Max(x)}], t[Max(x)], max)]
    BY <2>4, Zenon
  <2> HIDE DEF it
  <2>6. \A x \in SUBSET (1 .. Len(t)) : x # {} => Max(x) \in 1 .. Len(t)
    BY <2>1, MaxIsMember
  <2>7. Unrolls(it, Scanning, ScanStart, F, t)
    BY <1>f, <2>1, <2>5, <2>6 DEF Unrolls
  <2>8. EndsTrace(it[1 .. Len(t)], Scanning, ScanStart, F, t)
    BY <1>0, <1>1, <2>7, FoldIsTrace
  <2> QED BY <2>2, <2>8
<1> HIDE DEF F
<1>3. Folds(R, Char, Scanning, ScanStart, F)
  <2> HIDE DEF R
  <2> QED BY <1>0, <1>1, <1>2, TracesAreFolds
<1>4. << >> \in Seq(Char) /\ \A t \in Seq(Char), c \in Char : Append(t, c) \in Seq(Char)
  OBVIOUS
<1> QED BY <1>f, <1>3, <1>4 DEF Folds

\* One more character.
LEMMA SizeGrows ==
  ASSUME NEW t \in Seq(Char), NEW c \in Char
  PROVE  /\ Size(t) \in Nat
         /\ Size(Append(t, c)) = Size(t) + Width(c)
<1> DEFINE n == Len(t)
           wide(s) == {i \in DOMAIN s : s[i] \in Wide}
           u == Append(t, c)
<1>1. /\ n \in Nat /\ DOMAIN t = 1 .. n /\ DOMAIN u = 1 .. n + 1 /\ Len(u) = n + 1
      /\ \A i \in 1 .. n : u[i] = t[i]
      /\ u[n + 1] = c
  OBVIOUS
<1>2. IsFiniteSet(wide(t)) /\ Cardinality(wide(t)) \in Nat /\ n + 1 \notin wide(t)
  <2>1. IsFiniteSet(1 .. n)
    BY <1>1, FS_Interval
  <2>2. wide(t) \subseteq 1 .. n
    BY <1>1
  <2>3. n + 1 \notin 1 .. n
    BY <1>1
  <2> QED BY <2>1, <2>2, <2>3, FS_Subset, FS_CardinalityType
<1>s. /\ Size(t) = n + 3 * Cardinality(wide(t))
      /\ Size(u) = Len(u) + 3 * Cardinality(wide(u))
  BY Zenon DEF Size
<1> HIDE DEF n
<1>w. Width(c) = IF c \in Wide THEN 4 ELSE 1
  BY DEF Width
<1>3. CASE c \in Wide
  <2>1. wide(u) = wide(t) \cup {n + 1}
    <3> HIDE DEF u
    <3> QED BY <1>1, <1>3
  <2>2. Cardinality(wide(u)) = Cardinality(wide(t)) + 1
    BY <1>2, <2>1, FS_AddElement
  <2> DEFINE x == Cardinality(wide(t))
             y == Cardinality(wide(u))
  <2>3. x \in Nat /\ y = x + 1 /\ Len(u) = n + 1 /\ Size(t) = n + 3 * x /\ Size(u) = Len(u) + 3 * y
    BY <1>1, <1>2, <1>s, <2>2
  <2> HIDE DEF x, y
  <2> QED BY <1>1, <1>3, <1>w, <2>3
<1>4. CASE c \notin Wide
  <2>1. wide(u) = wide(t)
    <3> HIDE DEF u
    <3> QED BY <1>1, <1>4
  <2> DEFINE x == Cardinality(wide(t))
             y == Cardinality(wide(u))
  <2>3. x \in Nat /\ y = x /\ Len(u) = n + 1 /\ Size(t) = n + 3 * x /\ Size(u) = Len(u) + 3 * y
    BY <1>1, <1>2, <1>s, <2>1
  <2> HIDE DEF x, y
  <2> QED BY <1>1, <1>4, <1>w, <2>3
<1> QED BY <1>3, <1>4

\* A scrub's state that may be shown.
Shown(s, max) ==
  ToSet(s.out) \cap Control = {} /\ s.size = Size(s.out) /\ s.size <= max

\* Put keeps to the limit, and puts no control character.
LEMMA PutShown ==
  ASSUME NEW max \in Nat, NEW s \in Scanning, NEW c \in Char \ Control, Shown(s, max)
  PROVE  Shown(Put(s, c, max), max)
<1> DEFINE r == Put(s, c, max)
<1>1. s.size \in Nat /\ s.out \in Seq(Char) /\ Width(c) \in Nat
  BY DEF Scanning, Width
<1>2. CASE s.size + Width(c) > max
  BY <1>2, PutParts DEF Shown
<1>3. CASE s.size + Width(c) <= max
  <2>1. r.out = Append(s.out, c) /\ r.size = s.size + Width(c)
    BY <1>3, PutParts
  <2>2. ToSet(Append(s.out, c)) = ToSet(s.out) \cup {c}
    BY <1>1, AppendedSet
  <2>3. Size(Append(s.out, c)) = Size(s.out) + Width(c)
    BY <1>1, SizeGrows
  <2> HIDE DEF r
  <2> QED BY <1>3, <2>1, <2>2, <2>3 DEF Shown, r
<1> QED BY <1>1, <1>2, <1>3

\* So does a whole scrub.
LEMMA ScrubsAreShown ==
  ASSUME NEW max \in Nat, NEW t \in Seq(Char)
  PROVE  Shown(Scanned(t, max), max)
<1> DEFINE Holds(u) == Shown(Scanned(u, max), max)
           G == {u \in Seq(Char) : Holds(u)}
<1>1. Holds(<< >>)
  <2>1. Size(<< >>) = 0
    <3>1. {i \in DOMAIN << >> : << >>[i] \in Wide} = {}
      OBVIOUS
    <3>2. Len(<< >>) = 0
      OBVIOUS
    <3> QED BY <3>1, <3>2, FS_EmptySet DEF Size
  <2>2. ToSet(<< >>) = {}
    BY DEF ToSet
  <2>3. Shown(ScanStart, max)
    BY <2>1, <2>2 DEF Shown, ScanStart
  <2> QED BY <2>3, ScannedGrows
<1>2. ASSUME NEW u \in Seq(Char), NEW c \in Char, Holds(u) PROVE Holds(Append(u, c))
  <2> DEFINE s == Scanned(u, max)
             r == Scan(s, c, max)
  <2>1. s \in Scanning /\ Scanned(Append(u, c), max) = r /\ Shown(s, max)
    BY <1>2, ScannedGrows
  <2>2. ScanStep(s, r, c, max)
    BY <2>1, ScanParts
  <2>3. " " \in Char \ Control
    BY TextAssumption DEF Control
  <2> HIDE DEF s, r
  <2>4. Shown(Put(s, " ", max), max) /\ (c \notin Control => Shown(Put(s, c, max), max))
    BY <2>1, <2>3, PutShown
  <2>5. Shown(r, max)
    BY <2>1, <2>2, <2>4 DEF ScanStep, Shown
  <2> QED BY <2>1, <2>5
<1> HIDE DEF Holds
<1>3. << >> \in G /\ \A u \in Seq(Char), c \in Char : u \in G => Append(u, c) \in G
  <2>1. << >> \in Seq(Char) /\ \A u \in Seq(Char), c \in Char : Append(u, c) \in Seq(Char)
    OBVIOUS
  <2> QED BY <1>1, <1>2, <2>1
<1> HIDE DEF G
<1>4. t \in G
  BY <1>3, SequenceInduction
<1> QED BY <1>4 DEF G, Holds

\* a is how b starts.
Starts(a, b) == Len(a) <= Len(b) /\ \A i \in 1 .. Len(a) : a[i] = b[i]

\* IsPrefix, index by index.
LEMMA StartsIsPrefix ==
  ASSUME NEW a \in Seq(Char), NEW b \in Seq(Char), Starts(a, b)
  PROVE  IsPrefix(a, b)
<1>1. /\ Len(a) \in Nat /\ Len(b) \in Nat /\ Len(a) <= Len(b)
      /\ \A i \in 1 .. Len(a) : a[i] = b[i]
  BY DEF Starts
<1>2. SubSeq(a, 1, Len(a)) = SubSeq(b, 1, Len(a))
  BY <1>1
<1> QED BY <1>1, <1>2 DEF IsPrefix

\* What is appended leaves the beginning as it is.
LEMMA StartsAppended ==
  ASSUME NEW a \in Seq(Char), NEW b \in Seq(Char), NEW c \in Char, Starts(a, b)
  PROVE  Starts(a, Append(b, c))
BY DEF Starts

\* Of two scrubs of one text the one with the smaller limit has the beginning of what
\* the other has, and until it is done they are the same.
Behind(s, r) == Starts(s.out, r.out) /\ (s.mode = "stop" \/ s = r)

\* A character leaves a scrub to the smaller limit behind, or where the other one is.
LEMMA ScanKeepsBehind ==
  ASSUME NEW max \in Nat, NEW more \in Nat, max <= more, NEW c \in Char,
         NEW s \in Scanning, NEW r \in Scanning, Behind(s, r)
  PROVE  Behind(Scan(s, c, max), Scan(r, c, more))
<1> DEFINE s1 == Scan(s, c, max)
           r1 == Scan(r, c, more)
<1>1. /\ s.out \in Seq(Char) /\ s.size \in Nat /\ r.out \in Seq(Char) /\ r.size \in Nat
      /\ Width(c) \in Nat /\ Width(" ") \in Nat /\ " " \in Char
  BY TextAssumption DEF Scanning, Width
<1>2. r1 \in Scanning /\ ScanStep(r, r1, c, more) /\ s1 \in Scanning /\ ScanStep(s, s1, c, max)
  BY ScanParts
<1>0. /\ \A z \in Nat : z < max => z < more /\ ~(z >= max) /\ ~(z >= more)
      /\ \A z \in Nat : z < max \/ z >= max
      /\ \A z, w \in Nat : z + w <= max \/ z + w > max
      /\ \A z, w \in Nat : ~(z + w > max) => ~(z + w > more)
      /\ \A z, w \in Nat : z + w <= more \/ z + w > more
  OBVIOUS
<1>3. r1.out = r.out \/ \E x \in Char : r1.out = Append(r.out, x)
  <2>1. ASSUME NEW x \in Char
        PROVE  Put(r, x, more).out = r.out \/ Put(r, x, more).out = Append(r.out, x)
    <3>1. Width(x) \in Nat
      BY DEF Width
    <3>2. r.size + Width(x) <= more \/ r.size + Width(x) > more
      BY <1>0, <1>1, <3>1
    <3> QED BY <3>2, PutParts
  <2> HIDE DEF r1
  <2>2. r1.out = r.out \/ r1 = Put(r, " ", more) \/ r1 = Put(r, c, more)
    BY <1>2 DEF ScanStep
  <2> QED BY <1>1, <2>1, <2>2
<1>4. Starts(s.out, r1.out)
  BY <1>1, <1>3, StartsAppended DEF Behind
<1>5. CASE s.mode = "stop"
  <2>1. s1 = s
    BY <1>5 DEF Scan
  <2> QED BY <1>4, <1>5, <2>1 DEF Behind
<1>6. CASE s.mode # "stop"
  <2>1. s = r
    BY <1>6 DEF Behind
  <2>2. \/ s1.mode = "stop" /\ s1.out = s.out
        \/ s1 = r1
    <3>1. CASE s.mode # "text"
      <4>1. s1 = r1
        BY <1>6, <2>1, <3>1 DEF Scan
      <4> QED BY <4>1
    <3>2. CASE s.mode = "text" /\ s.size >= max
      <4>1. ~(s.size < max)
        BY <1>0, <1>1, <3>2
      <4> HIDE DEF s1
      <4> QED BY <1>2, <1>6, <3>2, <4>1 DEF ScanStep
    <3>3. CASE s.mode = "text" /\ s.size < max
      <4>1. ~(s.size >= max) /\ ~(s.size >= more)
        BY <1>0, <1>1, <3>3
      <4>2. ASSUME NEW x \in Char
            PROVE  \/ Put(s, x, max).mode = "stop" /\ Put(s, x, max).out = s.out
                   \/ Put(s, x, max) = Put(s, x, more)
        <5>0. Width(x) \in Nat
          BY DEF Width
        <5>1. CASE s.size + Width(x) > max
          BY <5>1, PutParts
        <5>2. CASE ~(s.size + Width(x) > max)
          <6>1. ~(s.size + Width(x) > more)
            BY <1>0, <1>1, <5>0, <5>2
          <6> QED BY <5>2, <6>1, Zenon DEF Put
        <5> QED BY <5>1, <5>2
      <4>3. CASE c \in Control
        <5>1. CASE c = "tab"
          <6>1. s1 = Put(s, " ", max) /\ r1 = Put(s, " ", more)
            BY <2>1, <3>3, <4>1, <5>1 DEF Scan
          <6> QED BY <1>1, <4>2, <6>1
        <5>2. CASE c # "tab"
          <6>1. s1 = r1
            BY <2>1, <3>3, <4>1, <4>3, <5>2, Zenon DEF Scan
          <6> QED BY <6>1
        <5> QED BY <5>1, <5>2
      <4>4. CASE c \notin Control
        <5>1. s1 = Put(s, c, max) /\ r1 = Put(s, c, more)
          BY <2>1, <3>3, <4>1, <4>4 DEF Scan, Control
        <5> QED BY <4>2, <5>1
      <4> QED BY <4>3, <4>4
    <3>4. s.size < max \/ s.size >= max
      BY <1>0, <1>1
    <3> HIDE DEF s1, r1
    <3> QED BY <3>1, <3>2, <3>3, <3>4
  <2>3. Starts(r1.out, r1.out)
    BY <1>2 DEF Starts, Scanning
  <2> HIDE DEF s1, r1
  <2> QED BY <1>4, <2>2, <2>3 DEF Behind, s1, r1
<1> QED BY <1>5, <1>6

\* A larger limit gives the same text and more of it.
LEMMA ScrubsCut ==
  ASSUME NEW max \in Nat, NEW more \in Nat, max <= more, NEW t \in Seq(Char)
  PROVE  IsPrefix(Scrub(t, max), Scrub(t, more))
<1> DEFINE Holds(u) == Behind(Scanned(u, max), Scanned(u, more))
           G == {u \in Seq(Char) : Holds(u)}
<1>1. Holds(<< >>)
  <2>1. Behind(ScanStart, ScanStart)
    <3>1. Len(<< >>) = 0 /\ ScanStart.out = << >>
      BY DEF ScanStart
    <3> QED BY <3>1 DEF Behind, Starts
  <2> QED BY <2>1, ScannedGrows
<1>2. ASSUME NEW u \in Seq(Char), NEW c \in Char, Holds(u) PROVE Holds(Append(u, c))
  <2>1. /\ Scanned(u, max) \in Scanning /\ Scanned(u, more) \in Scanning
        /\ Scanned(Append(u, c), max) = Scan(Scanned(u, max), c, max)
        /\ Scanned(Append(u, c), more) = Scan(Scanned(u, more), c, more)
    BY ScannedGrows
  <2>2. Behind(Scan(Scanned(u, max), c, max), Scan(Scanned(u, more), c, more))
    BY <1>2, <2>1, ScanKeepsBehind
  <2> QED BY <2>1, <2>2
<1> HIDE DEF Holds
<1>3. << >> \in G /\ \A u \in Seq(Char), c \in Char : u \in G => Append(u, c) \in G
  <2>1. << >> \in Seq(Char) /\ \A u \in Seq(Char), c \in Char : Append(u, c) \in Seq(Char)
    OBVIOUS
  <2> QED BY <1>1, <1>2, <2>1
<1> HIDE DEF G
<1>4. t \in G
  BY <1>3, SequenceInduction
<1>5. Starts(Scrub(t, max), Scrub(t, more))
  BY <1>4 DEF G, Holds, Behind, Scrub
<1>6. Scrub(t, max) \in Seq(Char) /\ Scrub(t, more) \in Seq(Char)
  <2>1. Scanned(t, max) \in Scanning /\ Scanned(t, more) \in Scanning
    <3>1. PICK c \in Char : TRUE
      BY TextAssumption
    <3> QED BY <3>1, ScannedGrows
  <2> QED BY <2>1 DEF Scrub, Scanning
<1> QED BY <1>5, <1>6, StartsIsPrefix

\* What has been looked at was given, and the result is the code's of it.
TextInvariant ==
  /\ text.kind = "scrubbed" => /\ text.given \in Text /\ text.max \in MaxBytes
                               /\ text.result = Scrub(text.given, text.max)
  /\ text.kind = "row" => \E f, g \in Field :
                            /\ text.given = <<f, g>>
                            /\ text.result = CsvRow(<<f, g>>)
  /\ text.kind = "query" => /\ text.given \in Query
                            /\ text.result = SanitizeQueryString(text.given)

\* The result is what the function that was called gives.
LEMMA TextSafe == TextSpec => []TextInvariant
<1>1. TextInit => TextInvariant
  BY DEF TextInit, TextInvariant
<1>2. TextInvariant /\ [TextNext]_text => TextInvariant'
  <2> SUFFICES ASSUME TextInvariant, [TextNext]_text PROVE TextInvariant'
    OBVIOUS
  <2>1. ASSUME NEW t \in Text, NEW max \in MaxBytes, ScrubText(t, max)
        PROVE  TextInvariant'
    BY <2>1 DEF ScrubText, TextInvariant
  <2>2. ASSUME NEW f \in Field, NEW g \in Field, ExportRow(f, g) PROVE TextInvariant'
    BY <2>2 DEF ExportRow, TextInvariant
  <2>3. ASSUME NEW q \in Query, RedactQuery(q) PROVE TextInvariant'
    BY <2>3 DEF RedactQuery, TextInvariant
  <2>4. CASE UNCHANGED text
    BY <2>4 DEF TextInvariant
  <2> QED BY <2>1, <2>2, <2>3, <2>4 DEF TextNext
<1> QED BY <1>1, <1>2, PTL DEF TextSpec

\* What is printed has no control character, keeps to the limit in bytes, and a larger
\* limit gives the same text and more of it: what scrub_ansi_and_control gives the
\* terminal, for every text and every limit.
THEOREM ScrubsAreClean == TextSpec => []ScrubbedIsClean
<1>1. TextInvariant => ScrubbedIsClean
  <2> SUFFICES ASSUME TextInvariant, text.kind = "scrubbed" PROVE ScrubbedIsClean
    BY DEF ScrubbedIsClean
  <2>1. /\ text.given \in Seq(Char) /\ text.max \in Nat
        /\ text.result = Scanned(text.given, text.max).out
    BY TextAssumption DEF TextInvariant, Scrub
  <2>2. Shown(Scanned(text.given, text.max), text.max)
    BY <2>1, ScrubsAreShown
  <2>3. ToSet(text.result) \cap Control = {} /\ Size(text.result) <= text.max
    BY <2>1, <2>2 DEF Shown
  <2>4. ASSUME NEW more \in MaxBytes, more >= text.max
        PROVE  IsPrefix(text.result, Scrub(text.given, more))
    <3>1. more \in Nat /\ text.max <= more
      BY <2>1, <2>4, TextAssumption
    <3>2. IsPrefix(Scrub(text.given, text.max), Scrub(text.given, more))
      BY <2>1, <3>1, ScrubsCut
    <3> QED BY <2>1, <3>2 DEF Scrub
  <2> QED BY <2>3, <2>4 DEF ScrubbedIsClean
<1> QED BY <1>1, TextSafe, PTL

-----------------------------------------------------------------------------
(* Rows of the CSV export. *)

\* Doubled is a fold.
LEMMA DoubledGrows ==
  /\ Doubled(<< >>) = << >>
  /\ \A f \in Seq(Char) : Doubled(f) \in Seq(Char)
  /\ \A f \in Seq(Char), c \in Char :
       /\ c = "\"" => Doubled(Append(f, c)) = Doubled(f) \o <<c, c>>
       /\ c # "\"" => Doubled(Append(f, c)) = Doubled(f) \o <<c>>
<1> DEFINE Twice(c) == IF c = "\"" THEN <<c, c>> ELSE <<c>>
           F == [p \in Seq(Char) \X Char |-> p[1] \o Twice(p[2])]
           R == [t \in Seq(Char) |-> Doubled(t)]
<1>0. << >> \in Seq(Char) /\ \A s \in Seq(Char), c \in Char : s \o Twice(c) \in Seq(Char)
  <2>1. \A c \in Char : <<c, c>> \in Seq(Char) /\ <<c>> \in Seq(Char)
    OBVIOUS
  <2>2. \A c \in Char : Twice(c) \in Seq(Char)
    BY <2>1, Zenon
  <2>3. << >> \in Seq(Char)
    OBVIOUS
  <2> HIDE DEF Twice
  <2> QED BY <2>2, <2>3, ConcatProperties
<1>f. \A s \in Seq(Char), c \in Char : F[<<s, c>>] = s \o Twice(c)
  OBVIOUS
<1>1. F \in [Seq(Char) \X Char -> Seq(Char)]
  <2> HIDE DEF Twice
  <2> QED BY <1>0
<1>2. ASSUME NEW t \in Seq(Char)
      PROVE  EndsTrace(R[t], Seq(Char), << >>, F, t)
  <2> DEFINE it == CHOOSE g : g = [x \in SUBSET DOMAIN t |->
                     IF x = {} THEN << >> ELSE g[x \ {Max(x)}] \o Twice(t[Max(x)])]
  <2>1. DOMAIN t = 1 .. Len(t) /\ Len(t) \in Nat /\ \A i \in 1 .. Len(t) : t[i] \in Char
    OBVIOUS
  <2>2. R[t] = it[1 .. Len(t)]
    BY <2>1, Zenon DEF Doubled, FoldLeft, MapThenFoldSet
  <2> HIDE DEF F, R, Twice
  <2>3. PICK g : IsFoldAlong(g, Seq(Char), << >>, F, t)
    BY <1>0, <1>1, FoldAlongExists, Zenon
  <2>4. g = [x \in SUBSET DOMAIN t |->
               IF x = {} THEN << >> ELSE g[x \ {Max(x)}] \o Twice(t[Max(x)])]
    BY <1>f, <2>1, <2>3 DEF IsFoldAlong
  <2>5. it = [x \in SUBSET DOMAIN t |->
                IF x = {} THEN << >> ELSE it[x \ {Max(x)}] \o Twice(t[Max(x)])]
    BY <2>4, Zenon
  <2> HIDE DEF it
  <2>6. \A x \in SUBSET (1 .. Len(t)) : x # {} => Max(x) \in 1 .. Len(t)
    BY <2>1, MaxIsMember
  <2>7. Unrolls(it, Seq(Char), << >>, F, t)
    BY <1>f, <2>1, <2>5, <2>6 DEF Unrolls
  <2>8. EndsTrace(it[1 .. Len(t)], Seq(Char), << >>, F, t)
    BY <1>0, <1>1, <2>7, FoldIsTrace
  <2> QED BY <2>2, <2>8
<1> HIDE DEF F
<1>3. Folds(R, Char, Seq(Char), << >>, F)
  <2> HIDE DEF R
  <2> QED BY <1>0, <1>1, <1>2, TracesAreFolds
<1>4. << >> \in Seq(Char) /\ \A t \in Seq(Char), c \in Char : Append(t, c) \in Seq(Char)
  OBVIOUS
<1>5. \A f \in Seq(Char), c \in Char : Doubled(Append(f, c)) = Doubled(f) \o Twice(c)
  <2> HIDE DEF Twice
  <2> QED BY <1>f, <1>3, <1>4 DEF Folds
<1> QED BY <1>3, <1>4, <1>5 DEF Folds

-----------------------------------------------------------------------------
\* The reader's states, with the field it is in at the end.
Modes == {"start", "bare", "quoted", "quote"}
Before == Seq(Seq(Char))
InField(before, w, mode) == [fields |-> Append(before, w), mode |-> mode]
Reading == [fields : {fs \in Seq(Seq(Char)) : fs # << >>}, mode : Modes]

\* One character, in each of them.
LEMMA ReadOne ==
  ASSUME NEW before \in Before, NEW w \in Seq(Char), NEW mode \in Modes, NEW c \in Char
  PROVE  LET read == ReadChar(InField(before, w, mode), c)
         IN  /\ c = "\"" /\ mode = "start" => read = InField(before, w, "quoted")
             /\ c = "\"" /\ mode = "quoted" => read = InField(before, w, "quote")
             /\ c = "\"" /\ mode = "quote" => read = InField(before, Append(w, c), "quoted")
             /\ c = "\"" /\ mode = "bare" => read = InField(before, Append(w, c), "bare")
             /\ c \in {",", "cr", "nl"} /\ mode # "quoted" =>
                  read = InField(Append(before, w), << >>, "start")
             /\ c # "\"" /\ mode = "quoted" => read = InField(before, Append(w, c), "quoted")
             /\ c \notin {"\"", ",", "cr", "nl"} /\ mode # "quoted" =>
                  read = InField(before, Append(w, c), "bare")
<1> DEFINE s == InField(before, w, mode)
           v == Append(w, c)
           fs == Append(before, w)
<1>1. [fs EXCEPT ![Len(fs)] = Append(@, c)] = Append(before, v)
  <2> DEFINE n == Len(before)
             gs == [fs EXCEPT ![n + 1] = v]
             hs == Append(before, v)
  <2>1. /\ n \in Nat /\ fs \in Seq(Seq(Char)) /\ Len(fs) = n + 1 /\ fs[n + 1] = w
        /\ \A i \in 1 .. n : fs[i] = before[i]
    BY DEF Before
  <2>2. v \in Seq(Char)
    OBVIOUS
  <2>3. /\ hs \in Seq(Seq(Char)) /\ Len(hs) = n + 1 /\ hs[n + 1] = v
        /\ \A i \in 1 .. n : hs[i] = before[i]
    BY <2>2 DEF Before
  <2> HIDE DEF n, fs, v, hs
  <2>4. /\ gs \in Seq(Seq(Char)) /\ Len(gs) = n + 1
        /\ \A i \in 1 .. n + 1 : gs[i] = IF i = n + 1 THEN v ELSE fs[i]
    <3>1. n + 1 \in 1 .. Len(fs)
      BY <2>1
    <3> QED BY <2>1, <2>2, <3>1, ExceptSeq
  <2>5. \A i \in 1 .. n + 1 : gs[i] = hs[i]
    BY <2>1, <2>3, <2>4
  <2> HIDE DEF gs
  <2>6. gs = hs
    BY <2>3, <2>4, <2>5, SeqEqual
  <2> QED BY <2>1, <2>6 DEF gs, hs, v
<1>2. s.fields = fs /\ s.mode = mode
  BY DEF InField
<1>3. ASSUME NEW m PROVE [s EXCEPT !.mode = m] = InField(before, w, m)
  <2> HIDE DEF fs
  <2>1. s = [fields |-> fs, mode |-> mode] /\ InField(before, w, m) = [fields |-> fs, mode |-> m]
    BY DEF InField, fs
  <2> HIDE DEF s
  <2> QED BY <2>1
<1>4. \A m : [fields |-> [s.fields EXCEPT ![Len(s.fields)] = Append(@, c)], mode |-> m]
                = InField(before, v, m)
  <2> HIDE DEF fs, s
  <2>1. [s.fields EXCEPT ![Len(s.fields)] = Append(@, c)] = Append(before, v)
    BY <1>1, <1>2
  <2> QED BY <2>1 DEF InField
<1>5. InField(Append(before, w), << >>, "start")
        = [fields |-> Append(s.fields, << >>), mode |-> "start"]
  BY DEF InField
<1> HIDE DEF s, v, fs
<1>6. ReadChar(s, c) =
               CASE c = "\"" /\ mode = "start" -> InField(before, w, "quoted")
                 [] c = "\"" /\ mode = "quoted" -> InField(before, w, "quote")
                 [] c = "\"" /\ mode = "quote" -> InField(before, v, "quoted")
                 [] c \in {",", "cr", "nl"} /\ mode # "quoted" ->
                      InField(Append(before, w), << >>, "start")
                 [] OTHER -> InField(before, v, IF mode = "quoted" THEN "quoted" ELSE "bare")
  BY <1>2, <1>3, <1>4, <1>5 DEF ReadChar
<1> QED BY <1>6 DEF s, v, Modes

\* Every state of the reader is one of these.
LEMMA ReadingIsInField ==
  ASSUME NEW s \in Reading
  PROVE  \E before \in Before, w \in Seq(Char), mode \in Modes : s = InField(before, w, mode)
<1> DEFINE fs == s.fields
           n == Len(fs)
           before == SubSeq(fs, 1, n - 1)
<1>1. fs \in Seq(Seq(Char)) /\ n \in Nat /\ n >= 1 /\ s.mode \in Modes
      /\ s = [fields |-> fs, mode |-> s.mode]
  BY DEF Reading
<1> HIDE DEF fs, n
<1>2. fs[n] \in Seq(Char) /\ before \in Seq(Seq(Char)) /\ fs = Append(before, fs[n])
  BY <1>1 DEF n
<1> HIDE DEF before
<1>3. s = InField(before, fs[n], s.mode)
  BY <1>1, <1>2 DEF InField
<1> QED BY <1>1, <1>2, <1>3 DEF Before

\* A character leads to one of them again.
LEMMA ReadTypes ==
  ASSUME NEW s \in Reading, NEW c \in Char
  PROVE  ReadChar(s, c) \in Reading
<1>1. ASSUME NEW before \in Before, NEW w \in Seq(Char), NEW mode \in Modes
      PROVE  InField(before, w, mode) \in Reading
  <2>1. Append(before, w) \in Seq(Seq(Char)) /\ Len(Append(before, w)) = Len(before) + 1
        /\ Len(before) \in Nat
    BY DEF Before
  <2>2. Append(before, w) # << >>
    <3>1. Len(<< >>) = 0
      OBVIOUS
    <3> QED BY <2>1, <3>1
  <2> QED BY <2>1, <2>2 DEF InField, Reading
<1>2. PICK before \in Before, w \in Seq(Char), mode \in Modes : s = InField(before, w, mode)
  BY ReadingIsInField
<1>3. Append(w, c) \in Seq(Char) /\ Append(before, w) \in Before /\ << >> \in Seq(Char)
  BY DEF Before
<1>4. {"start", "bare", "quoted", "quote"} \subseteq Modes
  BY DEF Modes
<1> DEFINE v == Append(w, c)
<1>5. ReadChar(s, c) \in {InField(before, w, "quoted"), InField(before, w, "quote"),
                         InField(before, v, "quoted"),
                          InField(before, v, "bare"), InField(Append(before, w), << >>, "start")}
  BY <1>2, ReadOne DEF Modes
<1>6. /\ InField(before, w, "quoted") \in Reading /\ InField(before, w, "quote") \in Reading
      /\ InField(before, v, "quoted") \in Reading /\ InField(before, v, "bare") \in Reading
      /\ InField(Append(before, w), << >>, "start") \in Reading
  BY <1>1, <1>3, <1>4
<1> HIDE DEF v
<1> QED BY <1>5, <1>6

\* The reader behind a part of a row.
ReadStart == [fields |-> << << >> >>, mode |-> "start"]
ReadUpTo(row) == FoldLeft(ReadChar, ReadStart, row)

\* Reading is a fold.
LEMMA ReadGrows ==
  /\ ReadUpTo(<< >>) = InField(<< >>, << >>, "start")
  /\ \A row \in Seq(Char) : ReadUpTo(row) \in Reading
  /\ \A row \in Seq(Char), c \in Char :
       ReadUpTo(Append(row, c)) = ReadChar(ReadUpTo(row), c)
<1> DEFINE F == [p \in Reading \X Char |-> ReadChar(p[1], p[2])]
           R == [t \in Seq(Char) |-> ReadUpTo(t)]
<1>0. ReadStart \in Reading /\ ReadStart = InField(<< >>, << >>, "start")
  <2>1. << << >> >> \in Seq(Seq(Char)) /\ << << >> >> = Append(<< >>, << >>)
    OBVIOUS
  <2>2. << << >> >> # << >>
    OBVIOUS
  <2> QED BY <2>1, <2>2 DEF ReadStart, Reading, Modes, InField
<1>1. F \in [Reading \X Char -> Reading]
  BY ReadTypes
<1>f. \A s \in Reading, c \in Char : F[<<s, c>>] = ReadChar(s, c)
  OBVIOUS
<1>2. ASSUME NEW t \in Seq(Char)
      PROVE  EndsTrace(R[t], Reading, ReadStart, F, t)
  <2> DEFINE it == CHOOSE g : g = [x \in SUBSET DOMAIN t |->
                     IF x = {} THEN ReadStart ELSE ReadChar(g[x \ {Max(x)}], t[Max(x)])]
  <2>1. DOMAIN t = 1 .. Len(t) /\ Len(t) \in Nat /\ \A i \in 1 .. Len(t) : t[i] \in Char
    OBVIOUS
  <2>2. R[t] = it[1 .. Len(t)]
    BY <2>1, Zenon DEF ReadUpTo, FoldLeft, MapThenFoldSet
  <2> HIDE DEF F, R
  <2>3. PICK g : IsFoldAlong(g, Reading, ReadStart, F, t)
    BY <1>0, <1>1, FoldAlongExists, Zenon
  <2>4. g = [x \in SUBSET DOMAIN t |->
               IF x = {} THEN ReadStart ELSE ReadChar(g[x \ {Max(x)}], t[Max(x)])]
    BY <1>f, <2>1, <2>3 DEF IsFoldAlong
  <2>5. it = [x \in SUBSET DOMAIN t |->
                IF x = {} THEN ReadStart ELSE ReadChar(it[x \ {Max(x)}], t[Max(x)])]
    BY <2>4, Zenon
  <2> HIDE DEF it
  <2>6. \A x \in SUBSET (1 .. Len(t)) : x # {} => Max(x) \in 1 .. Len(t)
    BY <2>1, MaxIsMember
  <2>7. Unrolls(it, Reading, ReadStart, F, t)
    BY <1>f, <2>1, <2>5, <2>6 DEF Unrolls
  <2>8. EndsTrace(it[1 .. Len(t)], Reading, ReadStart, F, t)
    BY <1>0, <1>1, <2>7, FoldIsTrace
  <2> QED BY <2>2, <2>8
<1> HIDE DEF F
<1>3. Folds(R, Char, Reading, ReadStart, F)
  <2> HIDE DEF R
  <2> QED BY <1>0, <1>1, <1>2, TracesAreFolds
<1>4. << >> \in Seq(Char) /\ \A t \in Seq(Char), c \in Char : Append(t, c) \in Seq(Char)
  OBVIOUS
<1> QED BY <1>0, <1>f, <1>3, <1>4 DEF Folds

\* ConcatGrows, for texts.
LEMMA TextsGrow ==
  \A a, b \in Seq(Char), c \in Char :
    a \o b \in Seq(Char) /\ a \o Append(b, c) = Append(a \o b, c)
BY ConcatGrows

\* They may be put together in either order.
LEMMA TextsAssociate ==
  \A a, b, c \in Seq(Char) : (a \o b) \o c = a \o (b \o c)
BY ConcatAssociative

\* One character appended, or two, is a text put behind.
LEMMA AppendedIsConcat ==
  \A a \in Seq(Char), c \in Char :
    /\ <<c>> \in Seq(Char) /\ Append(a, c) \in Seq(Char)
    /\ Append(a, c) = a \o <<c>>
    /\ Append(Append(a, c), c) = a \o <<c, c>>
<1> SUFFICES ASSUME NEW a \in Seq(Char), NEW c \in Char
             PROVE  /\ <<c>> \in Seq(Char) /\ Append(a, c) \in Seq(Char)
                    /\ Append(a, c) = a \o <<c>>
                    /\ Append(Append(a, c), c) = a \o <<c, c>>
  OBVIOUS
<1>1. <<c>> \in Seq(Char) /\ Append(a, c) \in Seq(Char) /\ Append(a, c) = a \o <<c>>
  OBVIOUS
<1>2. <<c>> \o <<c>> = <<c, c>>
  <2>1. Append(<<c>>, c) = <<c, c>>
    BY TwoMembers
  <2>2. <<c>> \in Seq(Char)
    OBVIOUS
  <2> DEFINE a1 == <<c>>
  <2>3. Append(a1, c) = a1 \o <<c>>
    <3> HIDE DEF a1
    <3>1. a1 \in Seq(Char)
      BY <2>2 DEF a1
    <3> QED BY <3>1
  <2> QED BY <2>1, <2>3
<1>3. Append(Append(a, c), c) = (a \o <<c>>) \o <<c>>
  OBVIOUS
<1> QED BY <1>1, <1>2, <1>3, ConcatAssociative

\* Behind row, a field begins.
Begins(row, before) ==
  row \in Seq(Char) /\ before \in Before /\ ReadUpTo(row) = InField(before, << >>, "start")

\* The characters a field may not have if it is written without quotes.
Marks == {",", "\"", "nl", "cr"}

\* A field without them is read as it is.
LEMMA BareIsRead ==
  ASSUME NEW row, NEW before, Begins(row, before),
         NEW f \in Seq(Char), ToSet(f) \cap Marks = {}
  PROVE  ReadUpTo(row \o f) \in {InField(before, f, "start"), InField(before, f, "bare")}
<1> DEFINE Plain(u) == ToSet(u) \cap Marks = {}
           Holds(u) == Plain(u) =>
                         ReadUpTo(row \o u) \in
                           {InField(before, u, "start"), InField(before, u, "bare")}
           G == {u \in Seq(Char) : Holds(u)}
<1>1. row \in Seq(Char) /\ before \in Before /\ ReadUpTo(row) = InField(before, << >>, "start")
  BY DEF Begins
<1>2. Holds(<< >>)
  <2>1. row \o << >> = row
    BY <1>1, ConcatEmptySeq
  <2> QED BY <1>1, <2>1
<1>3. ASSUME NEW u \in Seq(Char), NEW c \in Char, Holds(u) PROVE Holds(Append(u, c))
  <2> SUFFICES ASSUME Plain(Append(u, c))
               PROVE  ReadUpTo(row \o Append(u, c)) = InField(before, Append(u, c), "bare")
    OBVIOUS
  <2>1. Plain(u) /\ c \notin {"\"", ",", "cr", "nl"}
    <3>1. ToSet(Append(u, c)) = ToSet(u) \cup {c}
      BY AppendedSet
    <3> QED BY <3>1 DEF Marks
  <2>2. row \o u \in Seq(Char) /\ row \o Append(u, c) = Append(row \o u, c)
    <3>1. row \o u \in Seq(Char)
      BY <1>1, ConcatProperties
    <3>2. row \o Append(u, c) = Append(row \o u, c)
      BY <1>1, TextsGrow
    <3> QED BY <3>1, <3>2
  <2>3. ReadUpTo(Append(row \o u, c)) = ReadChar(ReadUpTo(row \o u), c)
    BY <2>2, ReadGrows
  <2>4. ASSUME NEW mode \in {"start", "bare"}
        PROVE  ReadChar(InField(before, u, mode), c) = InField(before, Append(u, c), "bare")
    <3>1. mode \in Modes /\ mode # "quoted" /\ mode # "quote"
      BY DEF Modes
    <3> QED BY <1>1, <2>1, <3>1, ReadOne
  <2> QED BY <1>3, <2>1, <2>2, <2>3, <2>4
<1> HIDE DEF Holds
<1>4. << >> \in G /\ \A u \in Seq(Char), c \in Char : u \in G => Append(u, c) \in G
  BY <1>2, <1>3, SequencesGrow
<1> HIDE DEF G
<1>5. f \in G
  BY <1>4, SequenceInduction
<1> QED BY <1>5 DEF G, Holds

\* A quoted one is read as what is quoted.
LEMMA QuotedIsRead ==
  ASSUME NEW row, NEW before, Begins(row, before), NEW f \in Seq(Char)
  PROVE  ReadUpTo(row \o Quoted(f)) = InField(before, f, "quote")
<1> DEFINE open == Append(row, "\"")
           Holds(u) == ReadUpTo(open \o Doubled(u)) = InField(before, u, "quoted")
           G == {u \in Seq(Char) : Holds(u)}
<1>1. row \in Seq(Char) /\ before \in Before /\ ReadUpTo(row) = InField(before, << >>, "start")
  BY DEF Begins
<1>2. "\"" \in Char /\ open \in Seq(Char) /\ << >> \in Seq(Char)
      /\ {"start", "quoted", "quote"} \subseteq Modes
  <2>1. "\"" \in Char
    BY TextAssumption
  <2>2. {"start", "quoted", "quote"} \subseteq Modes
    BY DEF Modes
  <2> QED BY <1>1, <2>1, <2>2, SequencesGrow
<1>3. ReadUpTo(open) = InField(before, << >>, "quoted")
  <2>1. ReadUpTo(open) = ReadChar(InField(before, << >>, "start"), "\"")
    BY <1>1, <1>2, ReadGrows
  <2> QED BY <1>1, <1>2, <2>1, ReadOne
<1> HIDE DEF open
<1>4. Holds(<< >>)
  <2>1. open \o << >> = open
    BY <1>2, ConcatEmptySeq
  <2> QED BY <1>3, <2>1, DoubledGrows
<1>5. ASSUME NEW u \in Seq(Char), NEW c \in Char, Holds(u) PROVE Holds(Append(u, c))
  <2> DEFINE d == Doubled(u)
             so == open \o d
  <2>1. /\ d \in Seq(Char)
        /\ c = "\"" => Doubled(Append(u, c)) = d \o <<c, c>>
        /\ c # "\"" => Doubled(Append(u, c)) = d \o <<c>>
    BY DoubledGrows
  <2>2. so \in Seq(Char) /\ ReadUpTo(so) = InField(before, u, "quoted")
    BY <1>2, <1>5, <2>1, ConcatProperties
  <2> HIDE DEF d
  <2>3. CASE c # "\""
    <3>1. open \o Doubled(Append(u, c)) = Append(so, c)
      <4>1. Doubled(Append(u, c)) = Append(d, c)
        BY <2>1, <2>3, AppendedIsConcat
      <4>2. open \o Append(d, c) = Append(open \o d, c)
        BY <1>2, <2>1, TextsGrow
      <4> QED BY <4>1, <4>2
    <3>2. ReadUpTo(Append(so, c)) = ReadChar(InField(before, u, "quoted"), c)
      BY <2>2, ReadGrows
    <3>3. ReadChar(InField(before, u, "quoted"), c) = InField(before, Append(u, c), "quoted")
      BY <1>1, <1>2, <2>3, ReadOne
    <3> QED BY <3>1, <3>2, <3>3
  <2>4. CASE c = "\""
    <3>1. open \o Doubled(Append(u, c)) = Append(Append(so, c), c)
      <4>1. Doubled(Append(u, c)) = d \o <<c, c>>
        BY <2>1, <2>4
      <4>2. Append(d, c) \in Seq(Char) /\ Append(Append(d, c), c) = d \o <<c, c>>
        <5>1. d \in Seq(Char)
          BY <2>1
        <5> QED BY <5>1, AppendedIsConcat
      <4>3. open \o Append(Append(d, c), c) = Append(open \o Append(d, c), c)
        BY <1>2, <4>2, TextsGrow
      <4>4. open \o Append(d, c) = Append(open \o d, c)
        BY <1>2, <2>1, TextsGrow
      <4> QED BY <4>1, <4>2, <4>3, <4>4
    <3>2. /\ Append(so, c) \in Seq(Char)
          /\ ReadUpTo(Append(so, c)) = ReadChar(InField(before, u, "quoted"), c)
          /\ ReadUpTo(Append(Append(so, c), c)) = ReadChar(ReadUpTo(Append(so, c)), c)
      <4>1. Append(so, c) \in Seq(Char)
        BY <2>2
      <4> QED BY <2>2, <4>1, ReadGrows
    <3>3. ReadChar(InField(before, u, "quoted"), c) = InField(before, u, "quote")
      BY <1>1, <1>2, <2>4, ReadOne
    <3>4. ReadChar(InField(before, u, "quote"), c) = InField(before, Append(u, c), "quoted")
      BY <1>1, <1>2, <2>4, ReadOne
    <3> QED BY <3>1, <3>2, <3>3, <3>4
  <2> QED BY <2>3, <2>4
<1> HIDE DEF Holds
<1>6. << >> \in G /\ \A u \in Seq(Char), c \in Char : u \in G => Append(u, c) \in G
  BY <1>4, <1>5, SequencesGrow
<1> HIDE DEF G
<1>7. ReadUpTo(open \o Doubled(f)) = InField(before, f, "quoted")
  <2>1. f \in G
    BY <1>6, SequenceInduction
  <2> QED BY <2>1 DEF G, Holds
<1>8. /\ open \o Doubled(f) \in Seq(Char)
      /\ row \o Quoted(f) = Append(open \o Doubled(f), "\"")
  <2> DEFINE q == <<"\"">>
             d == Doubled(f)
  <2>1. q \in Seq(Char) /\ d \in Seq(Char) /\ open = row \o q
    <3>1. d \in Seq(Char)
      BY DoubledGrows
    <3>2. \A c \in Char : <<c>> \in Seq(Char) /\ Append(row, c) = row \o <<c>>
      BY <1>1, AppendedIsConcat
    <3>3. q \in Seq(Char) /\ Append(row, "\"") = row \o q
      BY <1>2, <3>2
    <3> QED BY <3>1, <3>3 DEF open
  <2>2. Quoted(f) = (q \o d) \o q
    BY DEF Quoted
  <2> HIDE DEF d
  <2>3. open \o d \in Seq(Char) /\ q \o d \in Seq(Char)
    BY <1>2, <2>1, ConcatProperties
  <2>4. row \o ((q \o d) \o q) = (open \o d) \o q
    <3> HIDE DEF q
    <3>1. row \o ((q \o d) \o q) = (row \o (q \o d)) \o q
      BY <1>1, <2>1, <2>3, TextsAssociate, ZenonT(30)
    <3>2. row \o (q \o d) = (row \o q) \o d
      BY <1>1, <2>1, TextsAssociate, Zenon
    <3> QED BY <2>1, <3>1, <3>2
  <2>5. Append(open \o d, "\"") = (open \o d) \o q
    BY <1>2, <2>3, AppendedIsConcat
  <2> QED BY <2>2, <2>3, <2>4, <2>5 DEF d
<1>9. ReadUpTo(row \o Quoted(f)) = ReadChar(InField(before, f, "quoted"), "\"")
  BY <1>2, <1>7, <1>8, ReadGrows
<1> QED BY <1>1, <1>2, <1>9, ReadOne

\* The reader has read a field, not in quotes still open.
HasRead(s, before, f) == \E mode \in Modes \ {"quoted"} : s = InField(before, f, mode)

\* Defusing a field changes nothing but a quote mark in front of it.
LEMMA DefusedSet ==
  ASSUME NEW f \in Seq(Char)
  PROVE  ToSet(f) \subseteq ToSet(Defused(f)) /\ ToSet(Defused(f)) \subseteq ToSet(f) \cup {"'"}
<1> DEFINE d == <<"'">> \o f
<1>1. /\ Len(f) \in Nat /\ DOMAIN f = 1 .. Len(f)
      /\ DOMAIN d = 1 .. Len(f) + 1 /\ d[1] = "'"
      /\ \A i \in 1 .. Len(f) : d[i + 1] = f[i]
  OBVIOUS
<1>2. Defused(f) = f \/ Defused(f) = d
  BY DEF Defused
<1> HIDE DEF d
<1>3. ToSet(f) \subseteq ToSet(d)
  <2>1. \A i \in 1 .. Len(f) : i + 1 \in 1 .. Len(f) + 1
    BY <1>1
  <2> QED BY <1>1, <2>1 DEF ToSet
<1>4. ToSet(d) \subseteq ToSet(f) \cup {"'"}
  <2>1. ASSUME NEW i \in 1 .. Len(f) + 1, i # 1 PROVE i - 1 \in 1 .. Len(f) /\ d[i] = f[i - 1]
    <3>1. i - 1 \in 1 .. Len(f) /\ (i - 1) + 1 = i
      BY <1>1, <2>1
    <3> QED BY <1>1, <3>1
  <2> QED BY <1>1, <2>1 DEF ToSet
<1> QED BY <1>2, <1>3, <1>4

\* An exported field is read as the field it was or with the quote mark in front of it.
LEMMA FieldIsRead ==
  ASSUME NEW row, NEW before, Begins(row, before), NEW f \in Seq(Char), ~BreaksRow(f)
  PROVE  /\ SanitizeCsvField(f) \in Seq(Char) /\ Defused(f) \in Seq(Char)
         /\ HasRead(ReadUpTo(row \o SanitizeCsvField(f)), before, Defused(f))
<1> DEFINE d == Defused(f)
<1>1. d \in Seq(Char)
  <2>1. "'" \in Char
    BY TextAssumption
  <2>2. <<"'">> \o f \in Seq(Char)
    BY <2>1
  <2> QED BY <2>2 DEF Defused
<1>2. SanitizeCsvField(f) = IF ToSet(d) \cap {",", "\"", "nl"} # {} THEN Quoted(d) ELSE d
  BY Zenon DEF SanitizeCsvField
<1>3. {"start", "bare", "quote"} \subseteq Modes \ {"quoted"}
  BY DEF Modes
<1>4. Quoted(d) \in Seq(Char)
  <2>1. "\"" \in Char
    BY TextAssumption
  <2>2. \A c \in Char : <<c>> \in Seq(Char)
    OBVIOUS
  <2>3. Doubled(d) \in Seq(Char)
    BY <1>1, DoubledGrows
  <2>4. <<"\"">> \in Seq(Char)
    BY <2>1, <2>2
  <2>5. <<"\"">> \o Doubled(d) \in Seq(Char)
    BY <2>3, <2>4, ConcatProperties
  <2>6. (<<"\"">> \o Doubled(d)) \o <<"\"">> \in Seq(Char)
    BY <2>4, <2>5, ConcatProperties
  <2> QED BY <2>6, Zenon DEF Quoted
<1> HIDE DEF d
<1>5. CASE ToSet(d) \cap {",", "\"", "nl"} # {}
  <2>1. SanitizeCsvField(f) = Quoted(d)
    BY <1>2, <1>5
  <2>2. ReadUpTo(row \o Quoted(d)) = InField(before, d, "quote")
    BY <1>1, QuotedIsRead
  <2> QED BY <1>1, <1>3, <1>4, <2>1, <2>2 DEF d, HasRead
<1>6. CASE ~(ToSet(d) \cap {",", "\"", "nl"} # {})
  <2>1. SanitizeCsvField(f) = d
    BY <1>2, <1>6
  <2>2. ReadUpTo(row \o d) \in {InField(before, d, "start"), InField(before, d, "bare")}
    <3>1. ToSet(f) \subseteq ToSet(d) /\ ToSet(d) \subseteq ToSet(f) \cup {"'"}
      BY DefusedSet DEF d
    <3>2. "cr" \notin ToSet(d)
      <4>1. ToSet(f) \cap {",", "\"", "nl"} = {}
        BY <1>6, <3>1
      <4> QED BY <3>1, <4>1 DEF BreaksRow
    <3>3. ToSet(d) \cap Marks = {}
      BY <1>6, <3>2 DEF Marks
    <3> QED BY <1>1, <3>3, BareIsRead
  <2> QED BY <1>1, <1>3, <2>1, <2>2 DEF d, HasRead
<1> QED BY <1>5, <1>6

\* A defused field opens no formula.
LEMMA DefusedIsNoFormula ==
  ASSUME NEW f \in Seq(Char)
  PROVE  Defused(f) \in {f, <<"'">> \o f} /\ ~OpensFormula(Defused(f))
<1>1. CASE ~OpensFormula(f)
  BY <1>1 DEF Defused
<1>2. CASE OpensFormula(f)
  <2> DEFINE d == <<"'">> \o f
  <2>1. Defused(f) = d
    BY <1>2 DEF Defused
  <2>2. DOMAIN d = 1 .. Len(f) + 1 /\ Len(f) \in Nat /\ d[1] = "'"
    OBVIOUS
  <2>3. "'" \notin Formula /\ "'" \notin Blank
    BY DEF Formula, Blank
  <2> HIDE DEF d
  <2>4. ASSUME OpensFormula(d) PROVE FALSE
    <3>1. PICK i \in 1 .. Len(f) + 1 :
            d[i] \in Formula /\ \A j \in 1 .. i - 1 : d[j] \in Blank
      BY <2>2, <2>4 DEF OpensFormula
    <3>2. i # 1
      BY <2>2, <2>3, <3>1
    <3>3. 1 \in 1 .. i - 1
      BY <2>2, <3>2
    <3> QED BY <2>2, <2>3, <3>1, <3>3
  <2> QED BY <2>1, <2>4 DEF d
<1> QED BY <1>1, <1>2

\* A row of two fields.
LEMMA RowIsRead ==
  ASSUME NEW f \in Seq(Char), NEW g \in Seq(Char), ~BreaksRow(f), ~BreaksRow(g)
  PROVE  ReadCsv(CsvRow(<<f, g>>)) = <<Defused(f), Defused(g)>>
<1> DEFINE a == SanitizeCsvField(f)
           b == SanitizeCsvField(g)
           x == Defused(f)
           y == Defused(g)
           none == << >>
           c == Append(a, ",")
           before == Append(none, x)
<1>1. /\ none \in Before /\ none \in Seq(Char) /\ Begins(none, none)
      /\ \A w \in Seq(Char) : none \o w = w /\ Append(none, w) \in Before
  <2>1. \A w \in Seq(Char) : none \o w = w
    BY ConcatEmptySeq
  <2> QED BY <2>1, SequencesGrow, ReadGrows DEF Before, Begins
<1> HIDE DEF none
<1>2. a \in Seq(Char) /\ x \in Seq(Char) /\ HasRead(ReadUpTo(none \o a), none, x)
  BY <1>1, FieldIsRead
<1> HIDE DEF a, x
<1>3. PICK mode \in Modes \ {"quoted"} : ReadUpTo(a) = InField(none, x, mode)
  BY <1>1, <1>2 DEF HasRead
<1>4. "," \in Char
  BY TextAssumption
<1>5. ReadUpTo(c) = InField(before, none, "start")
  <2>1. ReadUpTo(c) = ReadChar(InField(none, x, mode), ",")
    BY <1>2, <1>3, <1>4, ReadGrows
  <2>2. "," # "\"" /\ mode # "quoted" /\ mode \in Modes
    OBVIOUS
  <2>3. ReadChar(InField(none, x, mode), ",") = InField(Append(none, x), << >>, "start")
    BY <1>1, <1>2, <1>4, <2>2, ReadOne
  <2> QED BY <2>1, <2>3 DEF before, none
<1>6. Begins(c, before)
  <2>1. c \in Seq(Char)
    BY <1>2, <1>4, SequencesGrow
  <2> QED BY <1>1, <1>2, <1>5, <2>1 DEF Begins, before, none
<1>7. c = a \o <<",">>
  BY <1>2, <1>4, AppendedIsConcat
<1> HIDE DEF c, before
<1>8. y \in Seq(Char) /\ HasRead(ReadUpTo(c \o b), before, y)
  BY <1>6, FieldIsRead
<1> HIDE DEF y
<1>9. CsvRow(<<f, g>>) = c \o b
  <2>1. CsvRow(<<f, g>>) = (a \o <<",">>) \o b
    BY DEF CsvRow, a
  <2> QED BY <1>7, <2>1
<1> HIDE DEF b
<1>10. ReadCsv(CsvRow(<<f, g>>)) = ReadUpTo(c \o b).fields
  BY <1>9, Zenon DEF ReadCsv, ReadUpTo, ReadStart
<1>11. ReadUpTo(c \o b).fields = Append(before, y)
  BY <1>8 DEF HasRead, InField
<1>12. Append(before, y) = <<x, y>>
  <2>1. before = <<x>>
    BY DEF before, none
  <2> QED BY <1>2, <1>8, <2>1, TwoMembers
<1> QED BY <1>10, <1>11, <1>12 DEF x, y

\* A reader of an exported row finds as many fields, each as it was or behind a quote
\* mark, and behind its blanks none of =, +, - and @: what sanitize_csv_field makes
\* of all fields but those with a CR and nothing to be quoted for (export/mod.rs:55).
THEOREM ExportedRowsReadBack == TextSpec => []RowsReadBack
<1>1. TextInvariant => RowsReadBack
  <2> SUFFICES ASSUME TextInvariant, text.kind = "row",
                      \A i \in DOMAIN text.given : ~BreaksRow(text.given[i])
               PROVE  RowsReadBack
    BY DEF RowsReadBack
  <2>1. PICK f \in Field, g \in Field : text.given = <<f, g>> /\ text.result = CsvRow(<<f, g>>)
    BY DEF TextInvariant
  <2>2. f \in Seq(Char) /\ g \in Seq(Char) /\ ~BreaksRow(f) /\ ~BreaksRow(g)
    <3>1. DOMAIN text.given = {1, 2} /\ text.given[1] = f /\ text.given[2] = g
      BY <2>1
    <3> QED BY <3>1, TextAssumption
  <2> DEFINE read == ReadCsv(text.result)
             given == text.given
  <2>3. read = <<Defused(f), Defused(g)>>
    BY <2>1, <2>2, RowIsRead
  <2>4. /\ Defused(f) \in {f, <<"'">> \o f} /\ ~OpensFormula(Defused(f))
        /\ Defused(g) \in {g, <<"'">> \o g} /\ ~OpensFormula(Defused(g))
    BY <2>2, DefusedIsNoFormula
  <2> HIDE DEF read
  <2>5. /\ Len(read) = 2 /\ Len(given) = 2 /\ DOMAIN read = {1, 2}
        /\ read[1] = Defused(f) /\ read[2] = Defused(g) /\ given[1] = f /\ given[2] = g
    BY <2>1, <2>3
  <2>6. \A i \in DOMAIN read :
          read[i] \in {given[i], <<"'">> \o given[i]} /\ ~OpensFormula(read[i])
    BY <2>4, <2>5
  <2> QED BY <2>5, <2>6 DEF RowsReadBack, read
<1> QED BY <1>1, TextSafe, PTL

-----------------------------------------------------------------------------
(* Redacted queries. *)

\* The characters of a query that was redacted.
Marked == Char \cup {Redacted, "&"}

\* Unmarked is a fold.
LEMMA UnmarkedGrows ==
  /\ Unmarked(<< >>) = << >>
  /\ \A t \in Seq(Marked) : Unmarked(t) \in Seq(Marked)
  /\ \A t \in Seq(Marked), c \in Marked :
       /\ c = Redacted => Unmarked(Append(t, c)) = Unmarked(t)
       /\ c # Redacted => Unmarked(Append(t, c)) = Append(Unmarked(t), c)
<1> DEFINE Add(s, c) == IF c = Redacted THEN s ELSE Append(s, c)
           F == [p \in Seq(Marked) \X Marked |-> Add(p[1], p[2])]
           R == [t \in Seq(Marked) |-> Unmarked(t)]
<1>0. << >> \in Seq(Marked) /\ \A s \in Seq(Marked), c \in Marked : Add(s, c) \in Seq(Marked)
  OBVIOUS
<1>f. \A s \in Seq(Marked), c \in Marked : F[<<s, c>>] = Add(s, c)
  OBVIOUS
<1>1. F \in [Seq(Marked) \X Marked -> Seq(Marked)]
  <2> HIDE DEF Add
  <2> QED BY <1>0
<1>2. ASSUME NEW t \in Seq(Marked)
      PROVE  EndsTrace(R[t], Seq(Marked), << >>, F, t)
  <2> DEFINE it == CHOOSE g : g = [x \in SUBSET DOMAIN t |->
                     IF x = {} THEN << >> ELSE Add(g[x \ {Max(x)}], t[Max(x)])]
  <2>1. DOMAIN t = 1 .. Len(t) /\ Len(t) \in Nat /\ \A i \in 1 .. Len(t) : t[i] \in Marked
    OBVIOUS
  <2>2. R[t] = it[1 .. Len(t)]
    BY <2>1, Zenon DEF Unmarked, FoldLeft, MapThenFoldSet
  <2> HIDE DEF F, R, Add
  <2>3. PICK g : IsFoldAlong(g, Seq(Marked), << >>, F, t)
    BY <1>0, <1>1, FoldAlongExists, Zenon
  <2>4. g = [x \in SUBSET DOMAIN t |->
               IF x = {} THEN << >> ELSE Add(g[x \ {Max(x)}], t[Max(x)])]
    BY <1>f, <2>1, <2>3 DEF IsFoldAlong
  <2>5. it = [x \in SUBSET DOMAIN t |->
                IF x = {} THEN << >> ELSE Add(it[x \ {Max(x)}], t[Max(x)])]
    BY <2>4, Zenon
  <2> HIDE DEF it
  <2>6. \A x \in SUBSET (1 .. Len(t)) : x # {} => Max(x) \in 1 .. Len(t)
    BY <2>1, MaxIsMember
  <2>7. Unrolls(it, Seq(Marked), << >>, F, t)
    BY <1>f, <2>1, <2>5, <2>6 DEF Unrolls
  <2>8. EndsTrace(it[1 .. Len(t)], Seq(Marked), << >>, F, t)
    BY <1>0, <1>1, <2>7, FoldIsTrace
  <2> QED BY <2>2, <2>8
<1> HIDE DEF F
<1>3. Folds(R, Marked, Seq(Marked), << >>, F)
  <2> HIDE DEF R
  <2> QED BY <1>0, <1>1, <1>2, TracesAreFolds
<1>4. << >> \in Seq(Marked) /\ \A t \in Seq(Marked), c \in Marked : Append(t, c) \in Seq(Marked)
  OBVIOUS
<1>5. \A t \in Seq(Marked), c \in Marked : Unmarked(Append(t, c)) = Add(Unmarked(t), c)
  <2> HIDE DEF Add
  <2> QED BY <1>f, <1>3, <1>4 DEF Folds
<1> QED BY <1>3, <1>4, <1>5 DEF Folds

\* Texts put together lose their marks each.
LEMMA UnmarkedConcat ==
  ASSUME NEW a \in Seq(Marked), NEW b \in Seq(Marked)
  PROVE  Unmarked(a \o b) = Unmarked(a) \o Unmarked(b)
<1> DEFINE Holds(u) == Unmarked(a \o u) = Unmarked(a) \o Unmarked(u)
           G == {u \in Seq(Marked) : Holds(u)}
<1>1. Holds(<< >>)
  <2>1. a \o << >> = a /\ Unmarked(a) \o << >> = Unmarked(a)
    BY UnmarkedGrows, ConcatEmptySeq
  <2> QED BY <2>1, UnmarkedGrows
<1>2. ASSUME NEW u \in Seq(Marked), NEW c \in Marked, Holds(u) PROVE Holds(Append(u, c))
  <2>1. a \o u \in Seq(Marked) /\ a \o Append(u, c) = Append(a \o u, c)
    BY ConcatGrows
  <2>2. Unmarked(a) \in Seq(Marked) /\ Unmarked(u) \in Seq(Marked)
    BY UnmarkedGrows
  <2>3. Unmarked(a) \o Append(Unmarked(u), c) = Append(Unmarked(a) \o Unmarked(u), c)
    BY <2>2, ConcatGrows
  <2>4. /\ c = Redacted => /\ Unmarked(Append(a \o u, c)) = Unmarked(a \o u)
                          /\ Unmarked(Append(u, c)) = Unmarked(u)
        /\ c # Redacted => /\ Unmarked(Append(a \o u, c)) = Append(Unmarked(a \o u), c)
                           /\ Unmarked(Append(u, c)) = Append(Unmarked(u), c)
    BY <2>1, UnmarkedGrows
  <2>5. CASE c = Redacted
    BY <1>2, <2>1, <2>4, <2>5
  <2>6. CASE c # Redacted
    BY <1>2, <2>1, <2>3, <2>4, <2>6
  <2> QED BY <2>5, <2>6
<1> HIDE DEF Holds
<1>3. << >> \in G /\ \A u \in Seq(Marked), c \in Marked : u \in G => Append(u, c) \in G
  BY <1>1, <1>2, SequencesGrow
<1> HIDE DEF G
<1>4. b \in G
  BY <1>3, SequenceInduction
<1> QED BY <1>4 DEF G, Holds

\* Pairs, the last one by itself.
Pairs == {ps \in Seq(Seq(Char)) : ps # << >>}

\* Pairs are all but the last, and the last.
LEMMA LastOfPairs ==
  /\ \A front \in Seq(Seq(Char)), p \in Seq(Char) : Append(front, p) \in Pairs
  /\ \A ps \in Pairs : \E front \in Seq(Seq(Char)), p \in Seq(Char) : ps = Append(front, p)
<1>1. ASSUME NEW front \in Seq(Seq(Char)), NEW p \in Seq(Char)
      PROVE  Append(front, p) \in Pairs
  <2>1. Append(front, p) \in Seq(Seq(Char)) /\ Len(Append(front, p)) = Len(front) + 1
        /\ Len(front) \in Nat
    OBVIOUS
  <2>2. Len(<< >>) = 0
    OBVIOUS
  <2> HIDE DEF Pairs
  <2>3. Append(front, p) # << >>
    BY <2>1, <2>2
  <2> QED BY <2>1, <2>3 DEF Pairs
<1>2. ASSUME NEW ps \in Pairs
      PROVE  \E front \in Seq(Seq(Char)), p \in Seq(Char) : ps = Append(front, p)
  <2> DEFINE n == Len(ps)
             front == SubSeq(ps, 1, n - 1)
  <2>1. ps \in Seq(Seq(Char)) /\ n \in Nat /\ n >= 1
    BY DEF Pairs
  <2> HIDE DEF n
  <2>2. ps[n] \in Seq(Char) /\ front \in Seq(Seq(Char)) /\ ps = Append(front, ps[n])
    BY <2>1 DEF n
  <2> QED BY <2>2
<1> QED BY <1>1, <1>2

\* SplitAt is a fold.
LEMMA SplitGrows ==
  /\ SplitAt(<< >>, "&") = << << >> >>
  /\ \A q \in Seq(Char) : SplitAt(q, "&") \in Pairs
  /\ \A q \in Seq(Char), c \in Char, front \in Seq(Seq(Char)), p \in Seq(Char) :
       SplitAt(q, "&") = Append(front, p) =>
         /\ c = "&" => SplitAt(Append(q, c), "&") = Append(Append(front, p), << >>)
         /\ c # "&" => SplitAt(Append(q, c), "&") = Append(front, Append(p, c))
<1> DEFINE base == << << >> >>
           Look(ps, c) == IF c = "&" THEN Append(ps, << >>)
                          ELSE [ps EXCEPT ![Len(ps)] = Append(@, c)]
           F == [x \in Pairs \X Char |-> Look(x[1], x[2])]
           R == [t \in Seq(Char) |-> SplitAt(t, "&")]
<1>a. ASSUME NEW front \in Seq(Seq(Char)), NEW p \in Seq(Char), NEW c \in Char, c # "&"
      PROVE  Look(Append(front, p), c) = Append(front, Append(p, c))
  <2> DEFINE ps == Append(front, p)
             v == Append(p, c)
  <2>1. ps[Len(ps)] = p /\ v \in Seq(Char)
    OBVIOUS
  <2>2. [ps EXCEPT ![Len(ps)] = v] = Append(front, v)
    <3> DEFINE S == Seq(Char)
    <3>1. front \in Seq(S) /\ p \in S /\ v \in S
      OBVIOUS
    <3> HIDE DEF S, v
    <3> QED BY <3>1, LastReplaced
  <2> HIDE DEF ps
  <2>3. Look(ps, c) = [ps EXCEPT ![Len(ps)] = Append(ps[Len(ps)], c)]
    BY <1>a, Zenon
  <2>4. Look(ps, c) = Append(front, v)
    BY <2>1, <2>2, <2>3
  <2> QED BY <2>4 DEF ps
<1>0. base \in Pairs /\ \A ps \in Pairs, c \in Char : Look(ps, c) \in Pairs
  <2>1. base \in Pairs
    <3>1. << >> \in Seq(Char) /\ << >> \in Seq(Seq(Char)) /\ base = Append(<< >>, << >>)
      OBVIOUS
    <3> QED BY <3>1, LastOfPairs
  <2>2. ASSUME NEW ps \in Pairs, NEW c \in Char PROVE Look(ps, c) \in Pairs
    <3>1. PICK front \in Seq(Seq(Char)), p \in Seq(Char) : ps = Append(front, p)
      BY LastOfPairs
    <3>2. CASE c = "&"
      <4>1. << >> \in Seq(Char) /\ ps \in Seq(Seq(Char))
        BY SequencesGrow DEF Pairs
      <4> QED BY <3>2, <4>1, LastOfPairs
    <3>3. CASE c # "&"
      <4>1. Look(ps, c) = Append(front, Append(p, c))
        BY <1>a, <3>1, <3>3
      <4>2. Append(p, c) \in Seq(Char)
        OBVIOUS
      <4> HIDE DEF Look
      <4> QED BY <4>1, <4>2, LastOfPairs
    <3> QED BY <3>2, <3>3
  <2> QED BY <2>1, <2>2
<1>f. \A ps \in Pairs, c \in Char : F[<<ps, c>>] = Look(ps, c)
  OBVIOUS
<1>1. F \in [Pairs \X Char -> Pairs]
  <2> HIDE DEF Look
  <2> QED BY <1>0
<1>2. ASSUME NEW t \in Seq(Char)
      PROVE  EndsTrace(R[t], Pairs, base, F, t)
  <2> DEFINE it == CHOOSE g : g = [x \in SUBSET DOMAIN t |->
                     IF x = {} THEN base ELSE Look(g[x \ {Max(x)}], t[Max(x)])]
  <2>1. DOMAIN t = 1 .. Len(t) /\ Len(t) \in Nat /\ \A i \in 1 .. Len(t) : t[i] \in Char
    OBVIOUS
  <2>2. R[t] = it[1 .. Len(t)]
    BY <2>1, Zenon DEF SplitAt, FoldLeft, MapThenFoldSet
  <2> HIDE DEF F, R, Look, base
  <2>3. PICK g : IsFoldAlong(g, Pairs, base, F, t)
    BY <1>0, <1>1, FoldAlongExists, Zenon
  <2>4. g = [x \in SUBSET DOMAIN t |->
               IF x = {} THEN base ELSE Look(g[x \ {Max(x)}], t[Max(x)])]
    BY <1>f, <2>1, <2>3 DEF IsFoldAlong
  <2>5. it = [x \in SUBSET DOMAIN t |->
                IF x = {} THEN base ELSE Look(it[x \ {Max(x)}], t[Max(x)])]
    BY <2>4, Zenon
  <2> HIDE DEF it
  <2>6. \A x \in SUBSET (1 .. Len(t)) : x # {} => Max(x) \in 1 .. Len(t)
    BY <2>1, MaxIsMember
  <2>7. Unrolls(it, Pairs, base, F, t)
    BY <1>f, <2>1, <2>5, <2>6 DEF Unrolls
  <2>8. EndsTrace(it[1 .. Len(t)], Pairs, base, F, t)
    BY <1>0, <1>1, <2>7, FoldIsTrace
  <2> QED BY <2>2, <2>8
<1> HIDE DEF F
<1>3. Folds(R, Char, Pairs, base, F)
  <2> HIDE DEF R, base
  <2> QED BY <1>0, <1>1, <1>2, TracesAreFolds
<1>4. << >> \in Seq(Char) /\ \A t \in Seq(Char), c \in Char : Append(t, c) \in Seq(Char)
  OBVIOUS
<1>5. /\ \A q \in Seq(Char) : SplitAt(q, "&") \in Pairs
      /\ \A q \in Seq(Char), c \in Char : SplitAt(Append(q, c), "&") = Look(SplitAt(q, "&"), c)
  <2> HIDE DEF Look
  <2> QED BY <1>f, <1>3, <1>4 DEF Folds
<1>6. SplitAt(<< >>, "&") = << << >> >>
  BY <1>3, <1>4 DEF Folds
<1>7. ASSUME NEW q \in Seq(Char), NEW c \in Char, NEW front \in Seq(Seq(Char)), NEW p \in Seq(Char),
             SplitAt(q, "&") = Append(front, p)
      PROVE  /\ c = "&" => SplitAt(Append(q, c), "&") = Append(Append(front, p), << >>)
             /\ c # "&" => SplitAt(Append(q, c), "&") = Append(front, Append(p, c))
  <2>1. SplitAt(Append(q, c), "&") = Look(Append(front, p), c)
    BY <1>5, <1>7
  <2>2. c = "&" => Look(Append(front, p), c) = Append(Append(front, p), << >>)
    OBVIOUS
  <2> HIDE DEF Look
  <2>3. c # "&" => Look(Append(front, p), c) = Append(front, Append(p, c))
    BY <1>a
  <2> QED BY <2>1, <2>2, <2>3
<1>8. \A q \in Seq(Char), c \in Char, front \in Seq(Seq(Char)), p \in Seq(Char) :
        SplitAt(q, "&") = Append(front, p) =>
          /\ c = "&" => SplitAt(Append(q, c), "&") = Append(Append(front, p), << >>)
          /\ c # "&" => SplitAt(Append(q, c), "&") = Append(front, Append(p, c))
  BY <1>7
<1> QED BY <1>5, <1>6, <1>8, Zenon

\* One more character begins a pair or goes to the last.
LEMMA SplitStep ==
  ASSUME NEW q \in Seq(Char), NEW c \in Char, NEW front \in Seq(Seq(Char)), NEW p \in Seq(Char),
         SplitAt(q, "&") = Append(front, p)
  PROVE  /\ c = "&" => SplitAt(Append(q, c), "&") = Append(Append(front, p), << >>)
         /\ c # "&" => SplitAt(Append(q, c), "&") = Append(front, Append(p, c))
BY SplitGrows

-----------------------------------------------------------------------------
\* What a pair becomes, and the pairs put together.
Piece(i, p) == (IF i = 1 THEN << >> ELSE <<"&">>) \o RedactPair(p)
PutTogether(ps) == FlattenSeq([i \in DOMAIN ps |-> Piece(i, ps[i])])

\* The first "=" of a pair, and whether its key has a secret's name.
FirstAt(p, e) == e \in DOMAIN p /\ p[e] = "=" /\ \A j \in 1 .. e - 1 : p[j] # "="
Bears(p) == \E e \in DOMAIN p : FirstAt(p, e) /\ \E k \in 1 .. e - 1 : p[k] = "secret"

\* What RedactPair cuts, and where.
LEMMA PairRedacted ==
  ASSUME NEW p \in Seq(Char)
  PROVE  /\ ~Bears(p) => RedactPair(p) = p
         /\ \A e \in DOMAIN p :
              FirstAt(p, e) /\ Bears(p) => RedactPair(p) = SubSeq(p, 1, e) \o <<Redacted>>
<1> DEFINE eqs == {i \in DOMAIN p : p[i] = "="}
           first == CHOOSE i \in eqs : \A j \in eqs : i <= j
<1>1. DOMAIN p = 1 .. Len(p) /\ Len(p) \in Nat
  OBVIOUS
<1>2. RedactPair(p) =
        IF eqs # {} /\ "secret" \in ToSet(SubSeq(p, 1, first - 1))
          THEN SubSeq(p, 1, first) \o <<Redacted>>
          ELSE p
  BY Zenon DEF RedactPair
<1>3. CASE eqs = {}
  <2>1. RedactPair(p) = p
    BY <1>2, <1>3
  <2>2. \A e \in DOMAIN p : ~FirstAt(p, e)
    BY <1>3 DEF FirstAt
  <2> QED BY <2>1, <2>2 DEF Bears
<1>4. CASE eqs # {}
  <2>1. PICK e \in eqs : \A j \in eqs : e <= j
    <3>1. eqs \subseteq Nat
      BY <1>1
    <3> HIDE DEF eqs
    <3> QED BY <1>4, <3>1, LeastMember
  <2>2. first \in eqs /\ \A j \in eqs : first <= j
    <3> HIDE DEF eqs
    <3> QED BY <2>1, Zenon
  <2> HIDE DEF first
  <2>3. FirstAt(p, first)
    BY <1>1, <2>2 DEF FirstAt
  <2>4. \A d \in DOMAIN p : FirstAt(p, d) => d = first
    <3>1. ASSUME NEW d \in DOMAIN p, FirstAt(p, d) PROVE d = first
      <4>1. d \in eqs /\ first <= d /\ d \in Nat /\ first \in Nat
        BY <1>1, <2>2, <3>1 DEF FirstAt
      <4>2. ~(first < d)
        <5>1. first < d => first \in 1 .. d - 1
          BY <1>1, <2>2, <4>1
        <5> QED BY <2>2, <3>1, <5>1 DEF FirstAt
      <4> QED BY <4>1, <4>2
    <3> QED BY <3>1
  <2>5. Bears(p) <=> \E k \in 1 .. first - 1 : p[k] = "secret"
    BY <1>1, <2>2, <2>3, <2>4 DEF Bears
  <2>6. "secret" \in ToSet(SubSeq(p, 1, first - 1)) <=> \E k \in 1 .. first - 1 : p[k] = "secret"
    <3> DEFINE t == SubSeq(p, 1, first - 1)
    <3>1. DOMAIN t = 1 .. first - 1 /\ \A k \in 1 .. first - 1 : t[k] = p[k]
      BY <1>1, <2>2
    <3> HIDE DEF t
    <3>2. "secret" \in ToSet(t) <=> \E k \in 1 .. first - 1 : p[k] = "secret"
      BY <3>1 DEF ToSet
    <3> QED BY <3>2 DEF t
  <2> QED BY <1>2, <1>4, <2>4, <2>5, <2>6
<1> QED BY <1>3, <1>4

\* It is a marked text.
LEMMA PairIsMarked ==
  ASSUME NEW p \in Seq(Char)
  PROVE  p \in Seq(Marked) /\ RedactPair(p) \in Seq(Marked)
<1>1. p \in Seq(Marked)
  BY DEF Marked
<1>2. CASE ~Bears(p)
  BY <1>1, <1>2, PairRedacted
<1>3. CASE Bears(p)
  <2>1. PICK e \in DOMAIN p : FirstAt(p, e)
    BY <1>3 DEF Bears
  <2>2. RedactPair(p) = SubSeq(p, 1, e) \o <<Redacted>>
    BY <1>3, <2>1, PairRedacted
  <2>3. SubSeq(p, 1, e) \in Seq(Marked)
    BY <1>1
  <2>4. <<Redacted>> \in Seq(Marked)
    BY DEF Marked
  <2> QED BY <1>1, <2>2, <2>3, <2>4, ConcatProperties
<1> QED BY <1>2, <1>3

\* So is it with the & in front.
LEMMA PieceIsMarked ==
  ASSUME NEW p \in Seq(Char), NEW i
  PROVE  /\ Piece(i, p) \in Seq(Marked)
         /\ \E s \in Seq(Marked) : Piece(i, p) = s \o RedactPair(p)
<1> DEFINE s == IF i = 1 THEN << >> ELSE <<"&">>
<1>1. s \in Seq(Marked)
  <2>1. << >> \in Seq(Marked) /\ <<"&">> \in Seq(Marked)
    BY DEF Marked
  <2> QED BY <2>1
<1>2. Piece(i, p) = s \o RedactPair(p)
  BY Zenon DEF Piece
<1> HIDE DEF s
<1> QED BY <1>1, <1>2, PairIsMarked, ConcatProperties

\* One more pair put behind the others.
LEMMA PutTogetherGrows ==
  ASSUME NEW front \in Seq(Seq(Char)), NEW p \in Seq(Char)
  PROVE  /\ PutTogether(front) \in Seq(Marked)
         /\ PutTogether(Append(front, p)) = PutTogether(front) \o Piece(Len(front) + 1, p)
<1> DEFINE n == Len(front)
           ps == Append(front, p)
           a == [i \in DOMAIN front |-> Piece(i, front[i])]
           b == [i \in DOMAIN ps |-> Piece(i, ps[i])]
           x == Piece(n + 1, p)
<1>1. /\ n \in Nat /\ DOMAIN front = 1 .. n /\ DOMAIN ps = 1 .. n + 1
      /\ \A i \in 1 .. n : ps[i] = front[i] /\ front[i] \in Seq(Char)
      /\ ps[n + 1] = p
  OBVIOUS
<1> HIDE DEF n, ps
<1>2. /\ \A i \in 1 .. n : Piece(i, front[i]) \in Seq(Marked)
      /\ x \in Seq(Marked)
  BY <1>1, PieceIsMarked
<1>3. a \in Seq(Seq(Marked)) /\ Len(a) = n /\ \A i \in 1 .. n : a[i] = Piece(i, front[i])
  <2> DEFINE S == Seq(Marked)
  <2>1. \A i \in 1 .. n : Piece(i, front[i]) \in S
    BY <1>2
  <2> HIDE DEF S
  <2>2. a \in Seq(S) /\ Len(a) = n /\ \A i \in 1 .. n : a[i] = Piece(i, front[i])
    BY <1>1, <2>1
  <2> QED BY <2>2 DEF S
<1>4. b = Append(a, x)
  <2> DEFINE S == Seq(Marked)
             d == Append(a, x)
  <2>1. b = [i \in 1 .. n + 1 |-> Piece(i, ps[i])]
    BY <1>1
  <2>2. \A i \in 1 .. n + 1 : Piece(i, ps[i]) \in S
    <3>1. ASSUME NEW i \in 1 .. n + 1 PROVE Piece(i, ps[i]) \in S
      <4>1. CASE i = n + 1
        BY <1>1, <1>2, <4>1
      <4>2. CASE i # n + 1
        <5>1. i \in 1 .. n
          BY <1>1, <4>2
        <5> QED BY <1>1, <1>2, <5>1
      <4> QED BY <4>1, <4>2
    <3> QED BY <3>1
  <2>3. a \in Seq(S) /\ x \in S
    BY <1>2, <1>3
  <2> HIDE DEF S, a, x, b
  <2>4. b \in Seq(S) /\ Len(b) = n + 1 /\ \A i \in 1 .. n + 1 : b[i] = Piece(i, ps[i])
    BY <1>1, <2>1, <2>2
  <2>5. d \in Seq(S) /\ Len(d) = n + 1 /\ d[n + 1] = x /\ \A i \in 1 .. n : d[i] = a[i]
    BY <1>1, <1>3, <2>3
  <2> HIDE DEF d
  <2>6. \A i \in 1 .. n + 1 : b[i] = d[i]
    <3>1. ASSUME NEW i \in 1 .. n + 1 PROVE b[i] = d[i]
      <4>1. CASE i = n + 1
        BY <1>1, <2>4, <2>5, <4>1 DEF x
      <4>2. CASE i # n + 1
        <5>1. i \in 1 .. n
          BY <1>1, <4>2
        <5> QED BY <1>1, <1>3, <2>4, <2>5, <5>1
      <4> QED BY <4>1, <4>2
    <3> QED BY <3>1
  <2>7. b = d
    BY <2>4, <2>5, <2>6, SeqEqual
  <2> QED BY <2>7 DEF d
<1>5. PutTogether(front) = FlattenSeq(a) /\ PutTogether(ps) = FlattenSeq(b)
  BY Zenon DEF PutTogether
<1> HIDE DEF a, x, b
<1>6. FlattenSeq(a) \in Seq(Marked) /\ FlattenSeq(Append(a, x)) = FlattenSeq(a) \o x
  BY <1>2, <1>3, FlattenGrows
<1> QED BY <1>4, <1>5, <1>6 DEF ps, x, n

\* One more character in a pair.
LEMMA PairGrows ==
  ASSUME NEW p \in Seq(Char), NEW c \in Char
  PROVE  /\ Bears(p) => RedactPair(Append(p, c)) = RedactPair(p)
         /\ ~Bears(p) => /\ RedactPair(p) = p
                         /\ Unmarked(RedactPair(Append(p, c))) = Unmarked(Append(p, c))
<1> DEFINE n == Len(p)
           u == Append(p, c)
<1>1. /\ n \in Nat /\ DOMAIN p = 1 .. n /\ DOMAIN u = 1 .. n + 1 /\ u \in Seq(Char)
      /\ \A i \in 1 .. n : u[i] = p[i]
      /\ u[n + 1] = c
  OBVIOUS
<1>2. CASE Bears(p)
  <2>1. PICK e \in DOMAIN p : FirstAt(p, e) /\ \E k \in 1 .. e - 1 : p[k] = "secret"
    BY <1>2 DEF Bears
  <2>2. \A j \in 1 .. e : u[j] = p[j] /\ j \in 1 .. n
    BY <1>1, <2>1
  <2>3. e \in DOMAIN u /\ FirstAt(u, e) /\ Bears(u)
    <3> HIDE DEF u, n
    <3>1. e \in 1 .. e /\ \A j \in 1 .. e - 1 : j \in 1 .. e
      BY <1>1
    <3>2. e \in DOMAIN u /\ u[e] = "=" /\ \A j \in 1 .. e - 1 : u[j] # "=" /\ u[j] = p[j]
      BY <1>1, <2>1, <2>2, <3>1 DEF FirstAt
    <3> QED BY <2>1, <3>2 DEF FirstAt, Bears
  <2>4. SubSeq(u, 1, e) = SubSeq(p, 1, e)
    BY <1>1, <2>1, <2>2
  <2> HIDE DEF u
  <2>5. RedactPair(u) = SubSeq(u, 1, e) \o <<Redacted>>
    BY <1>1, <2>3, PairRedacted
  <2>6. RedactPair(p) = SubSeq(p, 1, e) \o <<Redacted>>
    BY <1>2, <2>1, PairRedacted
  <2> QED BY <1>2, <2>4, <2>5, <2>6 DEF u
<1>3. CASE ~Bears(p)
  <2>1. RedactPair(p) = p
    BY <1>3, PairRedacted
  <2>2. CASE ~Bears(u)
    <3> HIDE DEF u
    <3>1. RedactPair(u) = u
      BY <1>1, <2>2, PairRedacted
    <3> QED BY <1>3, <2>1, <3>1 DEF u
  <2>3. CASE Bears(u)
    <3>1. PICK e \in DOMAIN u : FirstAt(u, e) /\ \E k \in 1 .. e - 1 : u[k] = "secret"
      BY <2>3 DEF Bears
    <3> HIDE DEF u, n
    <3>2. e = n + 1
      <4>1. SUFFICES ASSUME e # n + 1 PROVE Bears(p)
        BY <1>3
      <4>2. e \in 1 .. n /\ \A j \in 1 .. e - 1 : j \in 1 .. n
        BY <1>1, <4>1
      <4>3. FirstAt(p, e) /\ \E k \in 1 .. e - 1 : p[k] = "secret"
        BY <1>1, <3>1, <4>2 DEF FirstAt
      <4> QED BY <1>1, <4>2, <4>3 DEF Bears
    <3>3. SubSeq(u, 1, e) = u
      <4>1. Len(u) = n + 1
        BY <1>1
      <4> QED BY <1>1, <3>2, <4>1, SubSeqFull
    <3>4. RedactPair(u) = u \o <<Redacted>>
      BY <1>1, <2>3, <3>1, <3>3, PairRedacted
    <3>5. u \in Seq(Marked) /\ Redacted \in Marked
      BY <1>1, PairIsMarked DEF Marked
    <3>6. u \o <<Redacted>> = Append(u, Redacted)
      BY <3>5
    <3>7. Unmarked(Append(u, Redacted)) = Unmarked(u)
      BY <3>5, UnmarkedGrows
    <3> QED BY <1>3, <2>1, <3>4, <3>6, <3>7 DEF u
  <2> QED BY <2>2, <2>3
<1> QED BY <1>2, <1>3

\* p is the pair that q ends with.
EndsWith(q, p) ==
  /\ Len(p) <= Len(q)
  /\ Len(p) = Len(q) \/ q[Len(q) - Len(p)] = "&"
  /\ \A i \in 1 .. Len(p) : p[i] = q[Len(q) - Len(p) + i] /\ p[i] # "&"

\* What one more character does to the positions of secrets.
LEMMA SecretsGrow ==
  ASSUME NEW q \in Seq(Char), NEW c \in Char
  PROVE  \A i \in 1 .. Len(q) : i \in SecretAt(Append(q, c)) <=> i \in SecretAt(q)
<1> DEFINE n == Len(q)
           u == Append(q, c)
<1>1. /\ n \in Nat /\ DOMAIN q = 1 .. n /\ DOMAIN u = 1 .. n + 1
      /\ \A j \in 1 .. n : u[j] = q[j]
  OBVIOUS
<1> HIDE DEF u, n
<1>2. ASSUME NEW i \in 1 .. n
      PROVE  i \in SecretAt(u) <=> i \in SecretAt(q)
  <2>1. i \in DOMAIN u /\ i \in DOMAIN q /\ 1 .. i \subseteq 1 .. n
    BY <1>1
  <2>2. ASSUME NEW s \in 1 .. i - 1, NEW e \in 1 .. i - 1
        PROVE  /\ s # 1 => u[s - 1] = q[s - 1]
               /\ \A j \in s .. i : u[j] = q[j]
               /\ u[e] = q[e]
               /\ \A j \in s .. e - 1 : u[j] = q[j]
    <3>1. /\ s # 1 => s - 1 \in 1 .. n
          /\ \A j \in s .. i : j \in 1 .. n
          /\ e \in 1 .. n
          /\ \A j \in s .. e - 1 : j \in 1 .. n
      BY <1>1
    <3> QED BY <1>1, <3>1
  <2> QED BY <2>1, <2>2, SMTT(30) DEF SecretAt
<1> QED BY <1>2 DEF u, n

\* Where a query ends, a value of a secret is kept back if the last pair bears one.
LEMMA SecretAtEnd ==
  ASSUME NEW q \in Seq(Char), NEW c \in Char, NEW p \in Seq(Char), EndsWith(q, p)
  PROVE  Len(q) + 1 \in SecretAt(Append(q, c)) <=> c # "&" /\ Bears(p)
<1> DEFINE n == Len(q)
           m == Len(p)
           o == n - m
           u == Append(q, c)
<1>1. /\ n \in Nat /\ m \in Nat /\ o \in Nat /\ o + m = n
      /\ DOMAIN u = 1 .. n + 1 /\ DOMAIN p = 1 .. m
      /\ \A j \in 1 .. n : u[j] = q[j]
      /\ u[n + 1] = c
  BY DEF EndsWith
<1>2. /\ o = 0 \/ u[o] = "&"
      /\ \A i \in 1 .. m : p[i] = u[o + i] /\ p[i] # "&"
  <2>1. o # 0 => q[o] = "&"
    <3>1. o # 0 => m # n
      <4> HIDE DEF n, m, o, u
      <4> QED BY <1>1
    <3>2. Len(p) = Len(q) \/ q[o] = "&"
      BY DEF EndsWith
    <3> QED BY <3>1, <3>2
  <2>2. o # 0 => o \in 1 .. n
    <3> HIDE DEF n, m, o
    <3> QED BY <1>1
  <2>3. \A i \in 1 .. m : o + i \in 1 .. n /\ p[i] = q[o + i] /\ p[i] # "&"
    <3>1. \A i \in 1 .. m : o + i \in 1 .. n
      BY <1>1
    <3>2. \A i \in 1 .. m : p[i] = q[o + i] /\ p[i] # "&"
      BY DEF EndsWith
    <3> QED BY <3>1, <3>2
  <2> HIDE DEF u, n, m, o
  <2> QED BY <1>1, <2>1, <2>2, <2>3
<1> HIDE DEF u, n, m, o
\* The positions of p in q.
<1>3. \A j \in o + 1 .. n : j - o \in 1 .. m /\ o + (j - o) = j
  BY <1>1
<1>4. ASSUME c # "&", Bears(p) PROVE n + 1 \in SecretAt(u)
  <2>1. PICK e \in 1 .. m : FirstAt(p, e) /\ \E k \in 1 .. e - 1 : p[k] = "secret"
    BY <1>1, <1>4 DEF Bears
  <2>2. PICK k \in 1 .. e - 1 : p[k] = "secret"
    BY <2>1
  <2>3. /\ o + 1 \in 1 .. (n + 1) - 1 /\ o + e \in 1 .. (n + 1) - 1 /\ n + 1 \in DOMAIN u
        /\ o + k \in o + 1 .. (o + e) - 1 /\ (o + 1) - 1 = o /\ k \in 1 .. m
    BY <1>1, <2>1, <2>2
  <2>4. o + 1 = 1 \/ u[(o + 1) - 1] = "&"
    BY <1>1, <1>2, <2>3
  <2>5. \A j \in o + 1 .. n + 1 : u[j] # "&"
    <3>1. ASSUME NEW j \in o + 1 .. n + 1 PROVE u[j] # "&"
      <4>1. CASE j = n + 1
        BY <1>1, <1>4, <4>1
      <4>2. CASE j # n + 1
        <5>1. j \in o + 1 .. n
          BY <1>1, <4>2
        <5>2. j - o \in 1 .. m /\ o + (j - o) = j
          BY <1>3, <5>1
        <5>3. p[j - o] = u[o + (j - o)] /\ p[j - o] # "&"
          BY <1>2, <5>2
        <5> QED BY <5>2, <5>3
      <4> QED BY <4>1, <4>2
    <3> QED BY <3>1
  <2>6. u[o + e] = "="
    BY <1>2, <2>1 DEF FirstAt
  <2>7. \A j \in o + 1 .. (o + e) - 1 : u[j] # "="
    <3>1. ASSUME NEW j \in o + 1 .. (o + e) - 1 PROVE u[j] # "="
      <4>1. j - o \in 1 .. e - 1 /\ j - o \in 1 .. m /\ o + (j - o) = j
        BY <1>1, <2>1
      <4>2. p[j - o] # "=" /\ p[j - o] = u[o + (j - o)]
        BY <1>2, <2>1, <4>1 DEF FirstAt
      <4> QED BY <4>1, <4>2
    <3> QED BY <3>1
  <2>8. u[o + k] = "secret"
    BY <1>2, <2>2, <2>3
  <2> QED BY <2>3, <2>4, <2>5, <2>6, <2>7, <2>8 DEF SecretAt
<1>5. ASSUME n + 1 \in SecretAt(u) PROVE c # "&" /\ Bears(p)
  <2>1. PICK s \in 1 .. (n + 1) - 1, e \in 1 .. (n + 1) - 1 :
          /\ s = 1 \/ u[s - 1] = "&"
          /\ \A j \in s .. n + 1 : u[j] # "&"
          /\ u[e] = "=" /\ \A j \in s .. e - 1 : u[j] # "="
          /\ \E k \in s .. e - 1 : u[k] = "secret"
    BY <1>5 DEF SecretAt
  <2>2. PICK k \in s .. e - 1 : u[k] = "secret"
    BY <2>1
  <2>3. s \in Nat /\ s >= 1 /\ s <= n /\ e \in Nat /\ e <= n /\ k \in Nat /\ s <= k /\ k < e
    BY <1>1, <2>1, <2>2
  <2>4. c # "&"
    <3>1. n + 1 \in s .. n + 1
      BY <1>1, <2>3
    <3> QED BY <1>1, <2>1, <3>1
  <2>5. s = o + 1
    <3>1. ~(s < o + 1)
      <4>1. s < o + 1 => o \in s .. n + 1 /\ o # 0
        BY <1>1, <2>3
      <4> QED BY <1>2, <2>1, <4>1
    <3>2. ~(s > o + 1)
      <4>1. SUFFICES ASSUME s > o + 1 PROVE FALSE
        OBVIOUS
      <4>2. s - 1 \in o + 1 .. n /\ s # 1
        BY <1>1, <2>3, <4>1
      <4>3. u[s - 1] = "&"
        BY <2>1, <4>2
      <4>4. (s - 1) - o \in 1 .. m /\ o + ((s - 1) - o) = s - 1
        BY <1>3, <4>2
      <4>5. p[(s - 1) - o] = u[o + ((s - 1) - o)] /\ p[(s - 1) - o] # "&"
        BY <1>2, <4>4
      <4> QED BY <4>3, <4>4, <4>5
    <3> QED BY <1>1, <2>3, <3>1, <3>2
  <2>6. /\ e - o \in 1 .. m /\ o + (e - o) = e
        /\ k - o \in 1 .. (e - o) - 1 /\ k - o \in 1 .. m /\ o + (k - o) = k
    BY <1>1, <2>3, <2>5
  <2>7. p[e - o] = "=" /\ p[k - o] = "secret"
    <3>1. p[e - o] = u[o + (e - o)] /\ p[k - o] = u[o + (k - o)]
      BY <1>2, <2>6
    <3> QED BY <2>1, <2>2, <2>6, <3>1
  <2>8. ASSUME NEW j \in 1 .. (e - o) - 1 PROVE p[j] # "="
    <3>1. j \in 1 .. m /\ o + j \in s .. e - 1
      BY <1>1, <2>3, <2>5, <2>6
    <3>2. p[j] = u[o + j]
      BY <1>2, <3>1
    <3> QED BY <2>1, <3>1, <3>2
  <2>9. FirstAt(p, e - o)
    BY <1>1, <2>6, <2>7, <2>8 DEF FirstAt
  <2>10. Bears(p)
    BY <1>1, <2>6, <2>7, <2>9 DEF Bears
  <2> QED BY <2>4, <2>10
<1> QED BY <1>4, <1>5 DEF u, n

\* Masked, with one more character.
LEMMA MaskedGrows ==
  ASSUME NEW q \in Seq(Char), NEW c \in Char, NEW p \in Seq(Char), EndsWith(q, p)
  PROVE  /\ Masked(q) \in Seq(Marked)
         /\ c # "&" /\ Bears(p) => Masked(Append(q, c)) = Append(Masked(q), Redacted)
         /\ ~(c # "&" /\ Bears(p)) => Masked(Append(q, c)) = Append(Masked(q), c)
<1> DEFINE n == Len(q)
           u == Append(q, c)
           a == Masked(q)
           b == Masked(u)
           x == IF c # "&" /\ Bears(p) THEN Redacted ELSE c
           d == Append(a, x)
<1>1. /\ n \in Nat /\ DOMAIN q = 1 .. n /\ DOMAIN u = 1 .. n + 1
      /\ \A j \in 1 .. n : u[j] = q[j] /\ q[j] \in Marked
      /\ u[n + 1] = c /\ c \in Marked /\ Redacted \in Marked
  BY DEF Marked
<1>2. /\ \A i \in 1 .. n : i \in SecretAt(u) <=> i \in SecretAt(q)
      /\ n + 1 \in SecretAt(u) <=> c # "&" /\ Bears(p)
  BY SecretsGrow, SecretAtEnd
<1>3. x \in Marked
  BY <1>1
<1> HIDE DEF u, n
<1>4. /\ a \in Seq(Marked) /\ Len(a) = n
      /\ \A i \in 1 .. n : a[i] = IF i \in SecretAt(q) THEN Redacted ELSE q[i]
  <2> DEFINE g(i) == IF i \in SecretAt(q) THEN Redacted ELSE q[i]
  <2>1. \A i \in 1 .. n : g(i) \in Marked
    BY <1>1
  <2>2. a = [i \in 1 .. n |-> g(i)]
    BY <1>1 DEF Masked
  <2> HIDE DEF g, a
  <2>3. a \in Seq(Marked) /\ Len(a) = n /\ \A i \in 1 .. n : a[i] = g(i)
    BY <1>1, <2>1, <2>2
  <2> QED BY <2>3 DEF g
<1>5. /\ b \in Seq(Marked) /\ Len(b) = n + 1
      /\ \A i \in 1 .. n + 1 : b[i] = IF i \in SecretAt(u) THEN Redacted ELSE u[i]
  <2> DEFINE g(i) == IF i \in SecretAt(u) THEN Redacted ELSE u[i]
  <2>1. \A i \in 1 .. n + 1 : g(i) \in Marked
    <3>1. \A i \in 1 .. n + 1 : u[i] \in Marked
      BY <1>1
    <3> QED BY <1>1, <3>1
  <2>2. b = [i \in 1 .. n + 1 |-> g(i)]
    BY <1>1 DEF Masked
  <2> HIDE DEF g, b
  <2>3. b \in Seq(Marked) /\ Len(b) = n + 1 /\ \A i \in 1 .. n + 1 : b[i] = g(i)
    BY <1>1, <2>1, <2>2
  <2> QED BY <2>3 DEF g
<1> HIDE DEF a, b
<1>6. d \in Seq(Marked) /\ Len(d) = n + 1 /\ d[n + 1] = x /\ \A i \in 1 .. n : d[i] = a[i]
  <2> HIDE DEF x
  <2> QED BY <1>1, <1>3, <1>4
<1> HIDE DEF d
<1>7. \A i \in 1 .. n + 1 : b[i] = d[i]
  <2>1. ASSUME NEW i \in 1 .. n + 1 PROVE b[i] = d[i]
    <3>1. CASE i = n + 1
      BY <1>1, <1>2, <1>5, <1>6, <3>1
    <3>2. CASE i # n + 1
      <4>1. i \in 1 .. n
        BY <1>1, <3>2
      <4> QED BY <1>1, <1>2, <1>4, <1>5, <1>6, <4>1
    <3> QED BY <3>1, <3>2
  <2> QED BY <2>1
<1>8. b = d
  BY <1>5, <1>6, <1>7, SeqEqual
<1> QED BY <1>4, <1>8 DEF a, b, d, u

\* The redacted query and the masked one are the same without the marks.
LEMMA RedactedIsMasked ==
  ASSUME NEW q \in Seq(Char)
  PROVE  Unmarked(SanitizeQueryString(q)) = Unmarked(Masked(q))
<1> DEFINE Alike(t) == Unmarked(PutTogether(SplitAt(t, "&"))) = Unmarked(Masked(t))
           Ends(t, front, p) == SplitAt(t, "&") = Append(front, p) /\ EndsWith(t, p)
           Holds(t) == Alike(t) /\ \E front \in Seq(Seq(Char)), p \in Seq(Char) : Ends(t, front, p)
           G == {t \in Seq(Char) : Holds(t)}
<1>1. Holds(<< >>)
  <2> DEFINE none == << >>
  <2>1. /\ none \in Seq(Char) /\ none \in Seq(Seq(Char)) /\ Len(none) = 0 /\ none \in Seq(Marked)
        /\ << << >> >> = Append(none, none)
    OBVIOUS
  <2>2. SplitAt(none, "&") = Append(none, none)
    BY <2>1, SplitGrows
  <2>3. EndsWith(none, none)
    BY <2>1 DEF EndsWith
  <2>4. ~Bears(none) /\ RedactPair(none) = none
    <3>1. DOMAIN none = {}
      OBVIOUS
    <3>2. ~Bears(none)
      BY <3>1 DEF Bears
    <3> QED BY <2>1, <3>2, PairRedacted
  <2>5. Piece(1, none) = none
    <3>1. Piece(1, none) = none \o RedactPair(none)
      BY Zenon DEF Piece
    <3>2. none \o none = none
      BY <2>1, ConcatEmptySeq
    <3> QED BY <2>4, <3>1, <3>2
  <2>6. PutTogether(none) = none
    <3>1. [i \in DOMAIN none |-> Piece(i, none[i])] = none
      OBVIOUS
    <3>2. FlattenSeq(none) = none
      BY <2>1 DEF FlattenSeq
    <3> QED BY <3>1, <3>2 DEF PutTogether
  <2>7. Masked(none) = none
    BY DEF Masked
  <2> HIDE DEF none
  <2>8. PutTogether(Append(none, none)) = none
    <3>1. PutTogether(Append(none, none)) = PutTogether(none) \o Piece(Len(none) + 1, none)
      BY <2>1, PutTogetherGrows
    <3>2. none \o none = none
      BY <2>1, ConcatEmptySeq DEF none
    <3> QED BY <2>1, <2>5, <2>6, <3>1, <3>2
  <2>9. Holds(none)
    BY <2>1, <2>2, <2>3, <2>7, <2>8
  <2> QED BY <2>9 DEF none
<1>2. ASSUME NEW t \in Seq(Char), NEW c \in Char, Holds(t) PROVE Holds(Append(t, c))
  <2> DEFINE u == Append(t, c)
  <2>1. PICK front \in Seq(Seq(Char)), p \in Seq(Char) : Ends(t, front, p)
    BY <1>2
  <2>2. u \in Seq(Char) /\ Alike(t) /\ SplitAt(t, "&") = Append(front, p) /\ EndsWith(t, p)
    BY <1>2, <2>1
  <2> DEFINE ps == Append(front, p)
             a == PutTogether(front)
  <2>3. ps \in Seq(Seq(Char)) /\ << >> \in Seq(Char)
    OBVIOUS
  <2>4. a \in Seq(Marked) /\ PutTogether(ps) \in Seq(Marked)
    BY <2>3, PutTogetherGrows
  <2>5. Masked(t) \in Seq(Marked)
    BY <2>2, MaskedGrows
  <2> HIDE DEF Alike, u, ps, a, Ends
  <2>6. CASE c = "&"
    <3>1. SplitAt(u, "&") = Append(ps, << >>)
      <4>1. SplitAt(t, "&") = Append(front, p)
        BY <2>2
      <4> QED BY <2>6, <4>1, SplitStep, Zenon DEF u, ps
    <3>2. EndsWith(u, << >>)
      <4>1. Len(<< >>) = 0 /\ Len(u) \in Nat /\ u[Len(u)] = "&" /\ Len(u) - 0 = Len(u)
        BY <2>6 DEF u
      <4> QED BY <4>1 DEF EndsWith
    <3>3. PutTogether(Append(ps, << >>)) = Append(PutTogether(ps), "&")
      <4>1. RedactPair(<< >>) = << >>
        <5>1. ~Bears(<< >>)
          BY DEF Bears
        <5> QED BY <2>3, <5>1, PairRedacted
      <4>2. Len(ps) + 1 # 1
        <5>1. Len(ps) = Len(front) + 1 /\ Len(front) \in Nat
          BY DEF ps
        <5> QED BY <5>1
      <4>3. Piece(Len(ps) + 1, << >>) = <<"&">> \o << >>
        BY <4>1, <4>2, Zenon DEF Piece
      <4>4. <<"&">> \in Seq(Marked)
        BY DEF Marked
      <4>5. <<"&">> \o << >> = <<"&">>
        BY <4>4, ConcatEmptySeq
      <4>6. PutTogether(Append(ps, << >>)) = PutTogether(ps) \o <<"&">>
        BY <2>3, <4>3, <4>5, PutTogetherGrows
      <4> QED BY <2>4, <4>6 DEF Marked
    <3>4. "&" \in Marked /\ "&" # Redacted
      BY DEF Marked, Redacted
    <3>5. Unmarked(PutTogether(Append(ps, << >>))) = Append(Unmarked(PutTogether(ps)), "&")
      BY <2>4, <3>3, <3>4, UnmarkedGrows
    <3>6. Masked(u) = Append(Masked(t), c)
      BY <2>2, <2>6, MaskedGrows DEF u
    <3>7. Unmarked(Masked(u)) = Append(Unmarked(Masked(t)), "&")
      BY <2>5, <2>6, <3>4, <3>6, UnmarkedGrows
    <3>8. Alike(u)
      BY <2>2, <3>1, <3>5, <3>7 DEF Alike, ps
    <3> QED BY <2>3, <3>1, <3>2, <3>8 DEF u, Ends
  <2>7. CASE c # "&"
    <3> DEFINE v == Append(p, c)
    <3>1. SplitAt(u, "&") = Append(front, v) /\ v \in Seq(Char)
      <4>1. SplitAt(u, "&") = Append(front, v)
        BY <2>2, <2>7, SplitStep DEF u
      <4> QED BY <4>1
    <3>2. EndsWith(u, v)
      <4>1. /\ Len(u) = Len(t) + 1 /\ Len(v) = Len(p) + 1 /\ Len(t) \in Nat /\ Len(p) \in Nat
            /\ \A i \in 1 .. Len(t) : u[i] = t[i]
            /\ \A i \in 1 .. Len(p) : v[i] = p[i]
            /\ u[Len(t) + 1] = c /\ v[Len(p) + 1] = c
        BY DEF u
      <4> DEFINE o == Len(t) - Len(p)
      <4>2. /\ Len(p) <= Len(t) /\ o \in Nat /\ Len(u) - Len(v) = o /\ Len(v) <= Len(u)
            /\ o = 0 \/ (o \in 1 .. Len(t) /\ t[o] = "&")
            /\ o = 0 => Len(v) = Len(u)
        BY <2>2, <4>1 DEF EndsWith
      <4>3. \A i \in 1 .. Len(p) : p[i] = t[o + i] /\ p[i] # "&"
        BY <2>2 DEF EndsWith
      <4> HIDE DEF v
      <4>4. ASSUME NEW i \in 1 .. Len(v) PROVE v[i] = u[o + i] /\ v[i] # "&"
        <5>1. CASE i = Len(v)
          <6>1. o + i = Len(t) + 1 /\ i = Len(p) + 1
            BY <4>1, <4>2, <5>1
          <6> QED BY <2>7, <4>1, <6>1
        <5>2. CASE i # Len(v)
          <6>1. i \in 1 .. Len(p) /\ o + i \in 1 .. Len(t)
            BY <4>1, <4>2, <5>2
          <6> QED BY <4>1, <4>3, <6>1
        <5> QED BY <5>1, <5>2
      <4> HIDE DEF o
      <4> QED BY <4>1, <4>2, <4>4 DEF EndsWith
    <3> DEFINE s == IF Len(front) + 1 = 1 THEN << >> ELSE <<"&">>
    <3>3. s \in Seq(Marked)
      <4>1. << >> \in Seq(Marked) /\ <<"&">> \in Seq(Marked)
        BY DEF Marked
      <4> QED BY <4>1
    <3>4. /\ PutTogether(ps) = a \o (s \o RedactPair(p))
          /\ PutTogether(Append(front, v)) = a \o (s \o RedactPair(v))
      <4> HIDE DEF v
      <4>1. \A w \in Seq(Char) : PutTogether(Append(front, w)) = a \o Piece(Len(front) + 1, w)
        BY PutTogetherGrows DEF a
      <4>2. \A w : Piece(Len(front) + 1, w) = s \o RedactPair(w)
        BY Zenon DEF Piece
      <4> HIDE DEF s
      <4> QED BY <3>1, <4>1, <4>2 DEF ps
    <3> HIDE DEF s, v
    <3>5. RedactPair(p) \in Seq(Marked) /\ RedactPair(v) \in Seq(Marked)
      BY <3>1, PairIsMarked
    <3>6. ASSUME NEW r \in Seq(Marked)
          PROVE  Unmarked(a \o (s \o r)) = (Unmarked(a) \o Unmarked(s)) \o Unmarked(r)
      <4>1. s \o r \in Seq(Marked)
        BY <3>3, ConcatProperties
      <4>2. Unmarked(a \o (s \o r)) = Unmarked(a) \o Unmarked(s \o r)
        BY <2>4, <4>1, UnmarkedConcat
      <4>3. Unmarked(s \o r) = Unmarked(s) \o Unmarked(r)
        BY <3>3, UnmarkedConcat
      <4>4. Unmarked(a) \in Seq(Marked) /\ Unmarked(s) \in Seq(Marked) /\ Unmarked(r) \in Seq(Marked)
        BY <2>4, <3>3, UnmarkedGrows
      <4> DEFINE x == Unmarked(a)
                 y == Unmarked(s)
                 z == Unmarked(r)
      <4> HIDE DEF x, y, z
      <4>5. (x \o y) \o z = x \o (y \o z)
        BY <4>4, ConcatAssociative, SMTT(30) DEF x, y, z
      <4> QED BY <4>2, <4>3, <4>5 DEF x, y, z
    <3> DEFINE k == Unmarked(a) \o Unmarked(s)
    <3>7. k \in Seq(Marked)
      <4>1. Unmarked(a) \in Seq(Marked) /\ Unmarked(s) \in Seq(Marked)
        BY <2>4, <3>3, UnmarkedGrows
      <4> QED BY <4>1, ConcatProperties
    <3>8. /\ Unmarked(PutTogether(ps)) = k \o Unmarked(RedactPair(p))
          /\ Unmarked(PutTogether(Append(front, v))) = k \o Unmarked(RedactPair(v))
      BY <3>4, <3>5, <3>6
    <3> HIDE DEF k
    <3>9. Unmarked(Masked(t)) = k \o Unmarked(RedactPair(p))
      BY <2>2, <3>8 DEF Alike, ps
    <3>10. c \in Marked /\ Redacted \in Marked /\ p \in Seq(Marked)
      BY PairIsMarked DEF Marked
    <3>11. CASE Bears(p)
      <4>1. RedactPair(v) = RedactPair(p)
        BY <3>11, PairGrows DEF v
      <4>2. Masked(u) = Append(Masked(t), Redacted)
        BY <2>2, <2>7, <3>11, MaskedGrows DEF u
      <4>3. Unmarked(Masked(u)) = Unmarked(Masked(t))
        BY <2>5, <3>10, <4>2, UnmarkedGrows
      <4>4. Alike(u)
        BY <3>1, <3>8, <3>9, <4>1, <4>3 DEF Alike
      <4> QED BY <3>1, <3>2, <4>4 DEF u, Ends
    <3>12. CASE ~Bears(p)
      <4>1. RedactPair(p) = p /\ Unmarked(RedactPair(v)) = Unmarked(v)
        BY <3>12, PairGrows DEF v
      <4>2. Masked(u) = Append(Masked(t), c)
        BY <2>2, <3>12, MaskedGrows DEF u
      <4>3. Unmarked(p) \in Seq(Marked)
        BY <3>10, UnmarkedGrows
      <4>4. k \o Unmarked(v) = Unmarked(Masked(u))
        <5>1. CASE c = Redacted
          <6>1. Unmarked(v) = Unmarked(p) /\ Unmarked(Masked(u)) = Unmarked(Masked(t))
            BY <2>5, <3>10, <4>2, <5>1, UnmarkedGrows DEF v
          <6> QED BY <3>9, <4>1, <6>1
        <5>2. CASE c # Redacted
          <6>1. /\ Unmarked(v) = Append(Unmarked(p), c)
                /\ Unmarked(Masked(u)) = Append(Unmarked(Masked(t)), c)
            BY <2>5, <3>10, <4>2, <5>2, UnmarkedGrows DEF v
          <6>2. k \o Append(Unmarked(p), c) = Append(k \o Unmarked(p), c)
            BY <3>7, <3>10, <4>3, ConcatGrows
          <6> QED BY <3>9, <4>1, <6>1, <6>2
        <5> QED BY <5>1, <5>2
      <4>5. Alike(u)
        BY <3>1, <3>8, <4>1, <4>4 DEF Alike
      <4> QED BY <3>1, <3>2, <4>5 DEF u, Ends
    <3> QED BY <3>11, <3>12
  <2> QED BY <2>6, <2>7
<1> HIDE DEF Holds
<1>3. << >> \in G /\ \A t \in Seq(Char), c \in Char : t \in G => Append(t, c) \in G
  BY <1>1, <1>2, SequencesGrow
<1> HIDE DEF G
<1>4. q \in G
  BY <1>3, SequenceInduction
<1>5. Unmarked(PutTogether(SplitAt(q, "&"))) = Unmarked(Masked(q))
  BY <1>4 DEF G, Holds
<1>6. SanitizeQueryString(q) = PutTogether(SplitAt(q, "&"))
  BY Zenon DEF SanitizeQueryString, PutTogether, Piece
<1> QED BY <1>5, <1>6

\* What telemetry keeps of a query is all of it but the values of secrets, however the
\* query is made: sanitize_query_string for every query.
THEOREM QueriesAreRedacted == TextSpec => []SecretsStayOut
<1>1. TextInvariant => SecretsStayOut
  <2>1. Query \subseteq Seq(Char)
    BY TextAssumption
  <2> QED BY <2>1, RedactedIsMasked DEF TextInvariant, SecretsStayOut
<1> QED BY <1>1, TextSafe, PTL

-----------------------------------------------------------------------------
(* The bytes of a ClientHello. *)

\* Two bytes make the number they were made of.
LEMMA BytesAreRead ==
  \A v \in Word : /\ v \div 256 \in Byte /\ v % 256 \in Byte
                  /\ 256 * (v \div 256) + (v % 256) = v
BY DEF Word, Byte

\* What Bytes gives.
LEMMA BytesParts ==
  \A v \in Word : /\ Bytes(v) \in Seq(Byte) /\ Len(Bytes(v)) = 2
                  /\ Bytes(v)[1] = v \div 256 /\ Bytes(v)[2] = v % 256
<1> SUFFICES ASSUME NEW v \in Word
             PROVE  /\ Bytes(v) \in Seq(Byte) /\ Len(Bytes(v)) = 2
                    /\ Bytes(v)[1] = v \div 256 /\ Bytes(v)[2] = v % 256
  OBVIOUS
<1> DEFINE p == v \div 256
           q == v % 256
<1>1. p \in Byte /\ q \in Byte
  BY BytesAreRead
<1> HIDE DEF p, q
<1>2. <<p, q>> \in Seq(Byte) /\ Len(<<p, q>>) = 2 /\ <<p, q>>[1] = p /\ <<p, q>>[2] = q
  BY <1>1
<1>3. Bytes(v) = <<p, q>>
  BY DEF Bytes, p, q
<1> QED BY <1>2, <1>3 DEF p, q

\* The same of bytes.
LEMMA BytesConcat ==
  \A a, b \in Seq(Byte) :
    /\ a \o b \in Seq(Byte) /\ Len(a \o b) = Len(a) + Len(b)
    /\ \A i \in 1 .. Len(a) : (a \o b)[i] = a[i]
    /\ \A i \in 1 .. Len(b) : (a \o b)[Len(a) + i] = b[i]
BY ConcatParts

\* The bytes of the ciphers.
CiphersLie(cs) ==
  /\ CipherBytes(cs) \in Seq(Byte) /\ Len(CipherBytes(cs)) = 2 * Len(cs)
  /\ \A i \in 1 .. Len(cs) : /\ CipherBytes(cs)[2 * i - 1] = cs[i] \div 256
                             /\ CipherBytes(cs)[2 * i] = cs[i] % 256

\* One more cipher puts its bytes behind the others.
LEMMA CipherBytesGrow ==
  /\ CipherBytes(<< >>) = << >>
  /\ \A cs \in Seq(Word), c \in Word :
       CipherBytes(cs) \in Seq(Byte) /\ CipherBytes(Append(cs, c)) = CipherBytes(cs) \o Bytes(c)
<1> DEFINE F == [c \in Word |-> Bytes(c)]
<1>1. \A c \in Word : F[c] \in Seq(Byte) /\ F[c] = Bytes(c)
  BY BytesParts
<1>2. \A cs \in Seq(Word) :
        [i \in DOMAIN cs |-> Bytes(cs[i])] = [i \in DOMAIN cs |-> F[cs[i]]]
  OBVIOUS
<1>3. \A cs \in Seq(Word) : CipherBytes(cs) = FlatMap(F, cs)
  <2> HIDE DEF F
  <2> QED BY <1>2, Zenon DEF CipherBytes, FlatMap
<1> HIDE DEF F
<1>4. ASSUME NEW cs \in Seq(Word), NEW c \in Word
      PROVE  CipherBytes(cs) \in Seq(Byte) /\ CipherBytes(Append(cs, c)) = CipherBytes(cs) \o Bytes(c)
  <2>1. Append(cs, c) \in Seq(Word)
    OBVIOUS
  <2>2. FlatMap(F, cs) \in Seq(Byte) /\ FlatMap(F, Append(cs, c)) = FlatMap(F, cs) \o F[c]
    <3>1. \A d \in Word : F[d] \in Seq(Byte)
      BY <1>1
    <3>2. \A u \in Seq(Word), d \in Word :
            FlatMap(F, u) \in Seq(Byte) /\ FlatMap(F, Append(u, d)) = FlatMap(F, u) \o F[d]
      BY <3>1, FlattenMapped
    <3> QED BY <3>2, Zenon
  <2> QED BY <1>1, <1>3, <2>1, <2>2, Zenon
<1>5. CipherBytes(<< >>) = << >>
  <2>1. << >> \in Seq(Word)
    OBVIOUS
  <2> QED BY <1>3, <2>1, FlattenNone, Zenon
<1> QED BY <1>4, <1>5

\* So the bytes of every list of ciphers lie as they should.
LEMMA CiphersAreLaid == \A cs \in Seq(Word) : CiphersLie(cs)
<1> DEFINE G == {cs \in Seq(Word) : CiphersLie(cs)}
<1>1. CiphersLie(<< >>)
  <2> DEFINE e == << >>
  <2>1. e \in Seq(Byte) /\ Len(e) = 0
    OBVIOUS
  <2>2. CipherBytes(e) = e
    BY CipherBytesGrow
  <2> HIDE DEF e
  <2>3. CiphersLie(e)
    BY <2>1, <2>2 DEF CiphersLie
  <2> QED BY <2>3 DEF e
<1>2. ASSUME NEW cs \in Seq(Word), NEW c \in Word, CiphersLie(cs) PROVE CiphersLie(Append(cs, c))
  <2> DEFINE a == CipherBytes(cs)
             n == Len(cs)
             t == Append(cs, c)
             b == CipherBytes(t)
             d == Bytes(c)
  <2>1. n \in Nat /\ Len(t) = n + 1 /\ t[n + 1] = c /\ \A i \in 1 .. n : t[i] = cs[i]
    OBVIOUS
  <2>2. /\ a \in Seq(Byte) /\ Len(a) = 2 * n
        /\ \A i \in 1 .. n : a[2 * i - 1] = cs[i] \div 256 /\ a[2 * i] = cs[i] % 256
    BY <1>2 DEF CiphersLie
  <2>3. d \in Seq(Byte) /\ Len(d) = 2 /\ d[1] = c \div 256 /\ d[2] = c % 256
    BY BytesParts
  <2>4. b = a \o d
    BY CipherBytesGrow
  <2> HIDE DEF a, b, d, n, t
  <2>5. /\ b \in Seq(Byte) /\ Len(b) = 2 * (n + 1)
        /\ \A i \in 1 .. 2 * n : b[i] = a[i]
        /\ b[2 * n + 1] = d[1] /\ b[2 * n + 2] = d[2]
    <3>1. /\ b \in Seq(Byte) /\ Len(b) = 2 * n + 2
          /\ \A i \in 1 .. 2 * n : b[i] = a[i]
          /\ \A i \in 1 .. 2 : b[2 * n + i] = d[i]
      <4>1. /\ a \o d \in Seq(Byte) /\ Len(a \o d) = Len(a) + Len(d)
            /\ \A i \in 1 .. Len(a) : (a \o d)[i] = a[i]
            /\ \A i \in 1 .. Len(d) : (a \o d)[Len(a) + i] = d[i]
        BY <2>2, <2>3, BytesConcat, ZenonT(30)
      <4> QED BY <2>2, <2>3, <2>4, <4>1
    <3> QED BY <2>1, <3>1
  <2>6. ASSUME NEW i \in 1 .. n + 1
        PROVE  b[2 * i - 1] = t[i] \div 256 /\ b[2 * i] = t[i] % 256
    <3>1. CASE i = n + 1
      <4>1. 2 * i - 1 = 2 * n + 1 /\ 2 * i = 2 * n + 2
        BY <2>1, <3>1
      <4> QED BY <2>1, <2>3, <2>5, <3>1, <4>1
    <3>2. CASE i # n + 1
      <4>1. i \in 1 .. n /\ 2 * i - 1 \in 1 .. 2 * n /\ 2 * i \in 1 .. 2 * n
        BY <2>1, <3>2
      <4> QED BY <2>1, <2>2, <2>5, <4>1
    <3> QED BY <3>1, <3>2
  <2> QED BY <2>1, <2>5, <2>6 DEF CiphersLie, b, t
<1> HIDE DEF CiphersLie
<1>3. << >> \in G /\ \A cs \in Seq(Word), c \in Word : cs \in G => Append(cs, c) \in G
  BY <1>1, <1>2, SequencesGrow
<1> HIDE DEF G
<1>4. Seq(Word) \subseteq G
  BY <1>3, SequenceInduction
<1> QED BY <1>4 DEF G

\* What an extension is on the wire.
ExtensionLies(b, at, e) ==
  /\ b[at + 1] = e.type \div 256 /\ b[at + 2] = e.type % 256
  /\ b[at + 3] = Len(e.body) \div 256 /\ b[at + 4] = Len(e.body) % 256
  /\ \A j \in 1 .. Len(e.body) : b[at + 4 + j] = e.body[j]

\* So it is, on its own.
LEMMA ExtensionParts ==
  \A e \in ExtensionFields :
    /\ Extension(e) \in Seq(Byte) /\ Len(Extension(e)) = 4 + Len(e.body)
    /\ ExtensionLies(Extension(e), 0, e)
<1> SUFFICES ASSUME NEW e \in ExtensionFields
             PROVE  /\ Extension(e) \in Seq(Byte) /\ Len(Extension(e)) = 4 + Len(e.body)
                    /\ ExtensionLies(Extension(e), 0, e)
  OBVIOUS
<1> DEFINE t == Bytes(e.type)
           u == e.body
           l == Bytes(Len(u))
           p == t \o l
           q == p \o u
<1>1. e.type \in Word /\ Len(u) \in Word /\ u \in Seq(Byte)
  BY DEF ExtensionFields
<1>2. /\ t \in Seq(Byte) /\ Len(t) = 2 /\ t[1] = e.type \div 256 /\ t[2] = e.type % 256
      /\ l \in Seq(Byte) /\ Len(l) = 2 /\ l[1] = Len(u) \div 256 /\ l[2] = Len(u) % 256
  <2> HIDE DEF u
  <2> QED BY <1>1, BytesParts
<1> HIDE DEF t, l
<1>3. /\ p \in Seq(Byte) /\ Len(p) = 4
      /\ p[1] = t[1] /\ p[2] = t[2] /\ p[3] = l[1] /\ p[4] = l[2]
  <2>1. /\ p \in Seq(Byte) /\ Len(p) = Len(t) + Len(l)
        /\ \A i \in 1 .. Len(t) : p[i] = t[i]
        /\ \A i \in 1 .. Len(l) : p[Len(t) + i] = l[i]
    BY <1>2, BytesConcat, ZenonT(30)
  <2> HIDE DEF p
  <2>2. Len(p) = 4 /\ (\A i \in 1 .. 2 : p[i] = t[i]) /\ (\A i \in 1 .. 2 : p[2 + i] = l[i])
    BY <1>2, <2>1
  <2>3. 1 \in 1 .. 2 /\ 2 \in 1 .. 2 /\ 2 + 1 = 3 /\ 2 + 2 = 4
    OBVIOUS
  <2>4. p[1] = t[1] /\ p[2] = t[2] /\ p[2 + 1] = l[1] /\ p[2 + 2] = l[2]
    BY <2>2, <2>3, Zenon
  <2> QED BY <2>1, <2>2, <2>3, <2>4
<1> HIDE DEF p
<1>4. /\ q \in Seq(Byte) /\ Len(q) = 4 + Len(u)
      /\ \A i \in 1 .. 4 : q[i] = p[i]
      /\ \A i \in 1 .. Len(u) : q[4 + i] = u[i]
  <2>1. /\ q \in Seq(Byte) /\ Len(q) = Len(p) + Len(u)
        /\ \A i \in 1 .. Len(p) : q[i] = p[i]
        /\ \A i \in 1 .. Len(u) : q[Len(p) + i] = u[i]
    BY <1>1, <1>3, BytesConcat, Zenon
  <2> HIDE DEF q
  <2> QED BY <1>1, <1>3, <2>1
<1>5. Extension(e) = q
  BY Zenon DEF Extension, q, p, t, l, u
<1> HIDE DEF q
<1>6. 0 + 1 = 1 /\ 0 + 2 = 2 /\ 0 + 3 = 3 /\ 0 + 4 = 4
  OBVIOUS
<1>7. /\ q[1] = e.type \div 256 /\ q[2] = e.type % 256
      /\ q[3] = Len(u) \div 256 /\ q[4] = Len(u) % 256
  <2>1. 1 \in 1 .. 4 /\ 2 \in 1 .. 4 /\ 3 \in 1 .. 4 /\ 4 \in 1 .. 4
    OBVIOUS
  <2>2. q[1] = p[1] /\ q[2] = p[2] /\ q[3] = p[3] /\ q[4] = p[4]
    BY <1>4, <2>1, Zenon
  <2> QED BY <1>2, <1>3, <2>2
<1>8. ExtensionLies(q, 0, e)
  <2>1. \A j \in 1 .. Len(u) : 0 + 4 + j = 4 + j
    BY <1>1
  <2>2. \A j \in 1 .. Len(u) : q[0 + 4 + j] = u[j]
    BY <1>4, <2>1, Zenon
  <2>3. /\ q[0 + 1] = e.type \div 256 /\ q[0 + 2] = e.type % 256
        /\ q[0 + 3] = Len(u) \div 256 /\ q[0 + 4] = Len(u) % 256
    BY <1>6, <1>7, Zenon
  <2> QED BY <2>2, <2>3, Zenon DEF ExtensionLies, u
<1> QED BY <1>4, <1>5, <1>8 DEF u

\* Bytes that are the same mean the same extension.
LEMMA LiesElsewhere ==
  ASSUME NEW a, NEW b, NEW o \in Nat, NEW p \in Nat, NEW e \in ExtensionFields,
         ExtensionLies(a, p, e), \A k \in 1 .. 4 + Len(e.body) : b[o + k] = a[p + k]
  PROVE  ExtensionLies(b, o, e)
<1> DEFINE l == Len(e.body)
<1>1. l \in Nat
  BY DEF ExtensionFields
<1> HIDE DEF l
<1>2. /\ 1 \in 1 .. 4 + l /\ 2 \in 1 .. 4 + l /\ 3 \in 1 .. 4 + l /\ 4 \in 1 .. 4 + l
      /\ \A j \in 1 .. l : /\ 4 + j \in 1 .. 4 + l
                           /\ o + (4 + j) = o + 4 + j /\ p + (4 + j) = p + 4 + j
  BY <1>1
<1>3. \A k \in 1 .. 4 + l : b[o + k] = a[p + k]
  BY DEF l
<1>4. b[o + 1] = a[p + 1] /\ b[o + 2] = a[p + 2] /\ b[o + 3] = a[p + 3] /\ b[o + 4] = a[p + 4]
  BY <1>2, <1>3, Zenon
<1>5. \A j \in 1 .. l : b[o + 4 + j] = a[p + 4 + j]
  BY <1>2, <1>3
<1> QED BY <1>4, <1>5, Zenon DEF ExtensionLies, l

\* One more extension puts its bytes behind the others.
LEMMA BlockGrows ==
  /\ Block(<< >>) = << >>
  /\ \A es \in Seq(ExtensionFields), e \in ExtensionFields :
       Block(es) \in Seq(Byte) /\ Block(Append(es, e)) = Block(es) \o Extension(e)
<1> DEFINE F == [e \in ExtensionFields |-> Extension(e)]
<1>1. \A e \in ExtensionFields : F[e] \in Seq(Byte) /\ F[e] = Extension(e)
  BY ExtensionParts
<1>2. \A es \in Seq(ExtensionFields) :
        [i \in DOMAIN es |-> Extension(es[i])] = [i \in DOMAIN es |-> F[es[i]]]
  OBVIOUS
<1>3. \A es \in Seq(ExtensionFields) : Block(es) = FlatMap(F, es)
  <2> HIDE DEF F
  <2> QED BY <1>2, Zenon DEF Block, FlatMap
<1> HIDE DEF F
<1>4. ASSUME NEW es \in Seq(ExtensionFields), NEW e \in ExtensionFields
      PROVE  Block(es) \in Seq(Byte) /\ Block(Append(es, e)) = Block(es) \o Extension(e)
  <2>1. Append(es, e) \in Seq(ExtensionFields)
    OBVIOUS
  <2>2. FlatMap(F, es) \in Seq(Byte) /\ FlatMap(F, Append(es, e)) = FlatMap(F, es) \o F[e]
    <3>1. \A d \in ExtensionFields : F[d] \in Seq(Byte)
      BY <1>1
    <3>2. \A u \in Seq(ExtensionFields), d \in ExtensionFields :
            FlatMap(F, u) \in Seq(Byte) /\ FlatMap(F, Append(u, d)) = FlatMap(F, u) \o F[d]
      BY <3>1, FlattenMapped
    <3> QED BY <3>2, Zenon
  <2> QED BY <1>1, <1>3, <2>1, <2>2, Zenon
<1>5. Block(<< >>) = << >>
  <2>1. << >> \in Seq(ExtensionFields)
    OBVIOUS
  <2> QED BY <1>3, <2>1, FlattenNone, Zenon
<1> QED BY <1>4, <1>5

\* off[i]: where the i-th extension begins in the block, and where the block ends.
Layout(off, es) ==
  /\ off \in [1 .. Len(es) + 1 -> Nat]
  /\ off[1] = 0 /\ off[Len(es) + 1] = Len(Block(es))
  /\ \A i \in 1 .. Len(es) : /\ off[i + 1] = off[i] + 4 + Len(es[i].body)
                             /\ off[i + 1] <= Len(Block(es))
                             /\ ExtensionLies(Block(es), off[i], es[i])

\* There are such places.
IsLaidOut(es) == Block(es) \in Seq(Byte) /\ \E off : Layout(off, es)

\* In every block of extensions there are.
LEMMA BlocksAreLaidOut == \A es \in Seq(ExtensionFields) : IsLaidOut(es)
<1> DEFINE X == ExtensionFields
           G == {es \in Seq(X) : IsLaidOut(es)}
<1>1. IsLaidOut(<< >>)
  <2> DEFINE es == << >>
             off == [i \in 1 .. 1 |-> 0]
  <2>1. es \in Seq(Byte) /\ Len(es) = 0 /\ Block(es) = es
    BY BlockGrows
  <2> HIDE DEF es
  <2>2. Layout(off, es)
    BY <2>1 DEF Layout
  <2> HIDE DEF off
  <2>3. IsLaidOut(es)
    BY <2>1, <2>2, Zenon DEF IsLaidOut
  <2> QED BY <2>3 DEF es
<1>2. ASSUME NEW es \in Seq(X), NEW e \in X, IsLaidOut(es) PROVE IsLaidOut(Append(es, e))
  <2> DEFINE a == Block(es)
             n == Len(es)
             t == Append(es, e)
             b == Block(t)
             d == Extension(e)
             l == Len(e.body)
  <2>1. PICK off : Layout(off, es)
    BY <1>2, Zenon DEF IsLaidOut
  <2> DEFINE to == [i \in 1 .. n + 2 |-> IF i = n + 2 THEN Len(b) ELSE off[i]]
  <2>2. n \in Nat /\ Len(t) = n + 1 /\ t[n + 1] = e /\ \A i \in 1 .. n : t[i] = es[i] /\ es[i] \in X
    OBVIOUS
  <2>3. /\ a \in Seq(Byte) /\ off \in [1 .. n + 1 -> Nat] /\ off[1] = 0 /\ off[n + 1] = Len(a)
        /\ \A i \in 1 .. n : /\ off[i + 1] = off[i] + 4 + Len(es[i].body)
                             /\ off[i + 1] <= Len(a)
                             /\ ExtensionLies(a, off[i], es[i])
    BY <1>2, <2>1 DEF IsLaidOut, Layout
  <2>4. /\ d \in Seq(Byte) /\ Len(d) = 4 + l /\ ExtensionLies(d, 0, e) /\ l \in Nat
        /\ \A i \in 1 .. n : Len(es[i].body) \in Nat
    <3>1. \A x \in X : Len(x.body) \in Nat
      BY DEF ExtensionFields
    <3> HIDE DEF X
    <3>2. \A i \in 1 .. n : Len(es[i].body) \in Nat
      BY <2>2, <3>1
    <3> QED BY <3>1, <3>2, ExtensionParts DEF X
  <2>5. b = a \o d
    BY BlockGrows
  <2> HIDE DEF a, b, d, n, t, l, to, X
  <2>6. /\ b \in Seq(Byte) /\ Len(b) = Len(a) + Len(d) /\ Len(a) \in Nat
        /\ \A i \in 1 .. Len(a) : b[i] = a[i]
        /\ \A i \in 1 .. Len(d) : b[Len(a) + i] = d[i]
    <3>1. /\ a \o d \in Seq(Byte) /\ Len(a \o d) = Len(a) + Len(d)
          /\ \A i \in 1 .. Len(a) : (a \o d)[i] = a[i]
          /\ \A i \in 1 .. Len(d) : (a \o d)[Len(a) + i] = d[i]
      BY <2>3, <2>4, BytesConcat, Zenon
    <3>2. Len(a) \in Nat
      BY <2>3
    <3> QED BY <2>5, <3>1, <3>2
  <2>7. /\ to \in [1 .. n + 2 -> Nat] /\ to[1] = 0 /\ to[n + 2] = Len(b)
        /\ \A i \in 1 .. n + 1 : to[i] = off[i]
    <3>1. Len(b) \in Nat
      BY <2>6
    <3> QED BY <2>2, <2>3, <3>1 DEF to
  <2>8. ASSUME NEW i \in 1 .. n
        PROVE  /\ to[i + 1] = to[i] + 4 + Len(t[i].body) /\ to[i + 1] <= Len(b)
               /\ ExtensionLies(b, to[i], t[i])
    <3>1. i \in 1 .. n + 1 /\ i + 1 \in 1 .. n + 1 /\ t[i] = es[i]
      BY <2>2
    <3>2. /\ to[i] = off[i] /\ to[i + 1] = off[i + 1] /\ off[i] \in Nat
          /\ off[i + 1] = off[i] + 4 + Len(es[i].body) /\ off[i + 1] <= Len(a)
          /\ ExtensionLies(a, off[i], es[i]) /\ Len(es[i].body) \in Nat
      BY <2>3, <2>4, <2>7, <3>1
    <3>3. to[i + 1] <= Len(b)
      <4>1. off[i + 1] \in Nat
        BY <2>3, <3>1
      <4>2. Len(a) <= Len(b) /\ Len(a) \in Nat /\ Len(b) \in Nat
        BY <2>4, <2>6
      <4> QED BY <3>2, <4>1, <4>2
    <3>4. \A k \in 1 .. 4 + Len(es[i].body) : b[off[i] + k] = a[off[i] + k]
      <4> DEFINE o == off[i]
                 m == Len(es[i].body)
      <4>1. o \in Nat /\ m \in Nat /\ o + 4 + m <= Len(a) /\ Len(a) \in Nat
        BY <2>6, <3>2
      <4> HIDE DEF o, m
      <4>2. \A k \in 1 .. 4 + m : o + k \in 1 .. Len(a)
        BY <4>1
      <4>3. \A k \in 1 .. 4 + m : b[o + k] = a[o + k]
        BY <2>6, <4>2
      <4> QED BY <4>3 DEF o, m
    <3>5. ExtensionLies(b, off[i], es[i])
      BY <2>2, <3>2, <3>4, LiesElsewhere DEF X
    <3> QED BY <3>1, <3>2, <3>3, <3>5
  <2>9. /\ to[n + 2] = to[n + 1] + 4 + Len(t[n + 1].body) /\ to[n + 2] <= Len(b)
        /\ ExtensionLies(b, to[n + 1], t[n + 1])
    <3>1. n + 1 \in 1 .. n + 1 /\ to[n + 1] = Len(a)
      BY <2>2, <2>3, <2>7
    <3>2. to[n + 2] = to[n + 1] + 4 + l /\ to[n + 2] <= Len(b)
      BY <2>4, <2>6, <2>7, <3>1
    <3>3. ExtensionLies(b, Len(a), e)
      <4>1. \A k \in 1 .. 4 + l : b[Len(a) + k] = d[k] /\ 0 + k = k
        BY <2>4, <2>6
      <4>2. \A k \in 1 .. 4 + Len(e.body) : b[Len(a) + k] = d[0 + k]
        BY <4>1 DEF l
      <4>3. e \in ExtensionFields
        BY DEF X
      <4> QED BY <2>4, <2>6, <4>2, <4>3, LiesElsewhere
    <3> QED BY <2>2, <3>1, <3>2, <3>3 DEF l
  <2>10. Layout(to, t)
    <3>1. ASSUME NEW i \in 1 .. n + 1
          PROVE  /\ to[i + 1] = to[i] + 4 + Len(t[i].body) /\ to[i + 1] <= Len(b)
                 /\ ExtensionLies(b, to[i], t[i])
      <4>1. CASE i = n + 1
        <5>1. i + 1 = n + 2
          BY <2>2, <4>1
        <5> QED BY <2>9, <4>1, <5>1
      <4>2. CASE i # n + 1
        <5>1. i \in 1 .. n
          BY <2>2, <4>2
        <5> QED BY <2>8, <5>1
      <4> QED BY <4>1, <4>2
    <3>2. (n + 1) + 1 = n + 2
      BY <2>2
    <3> QED BY <2>2, <2>7, <3>1, <3>2 DEF Layout, b
  <2> QED BY <2>6, <2>10, Zenon DEF IsLaidOut, b, t
<1> HIDE DEF IsLaidOut
<1>3. << >> \in G /\ \A es \in Seq(X), e \in X : es \in G => Append(es, e) \in G
  <2> HIDE DEF X
  <2> QED BY <1>1, <1>2, SequencesGrow
<1> HIDE DEF G, X
<1>4. Seq(X) \subseteq G
  BY <1>3, SequenceInduction
<1> QED BY <1>4 DEF G, X

\* What a sequence starts with, so does it with more behind it.
LEMMA StartsConcat ==
  \A a, b \in Seq(Byte) :
    /\ a \o b \in Seq(Byte) /\ Len(a \o b) = Len(a) + Len(b) /\ Starts(a, a \o b)
    /\ \A i \in 1 .. Len(b) : (a \o b)[Len(a) + i] = b[i]
<1> SUFFICES ASSUME NEW a \in Seq(Byte), NEW b \in Seq(Byte)
             PROVE  /\ a \o b \in Seq(Byte) /\ Len(a \o b) = Len(a) + Len(b) /\ Starts(a, a \o b)
                    /\ \A i \in 1 .. Len(b) : (a \o b)[Len(a) + i] = b[i]
  OBVIOUS
<1> DEFINE c == a \o b
<1>1. /\ c \in Seq(Byte) /\ Len(c) = Len(a) + Len(b)
      /\ \A i \in 1 .. Len(a) : c[i] = a[i]
      /\ \A i \in 1 .. Len(b) : c[Len(a) + i] = b[i]
  BY BytesConcat, Zenon
<1>2. Len(a) \in Nat /\ Len(b) \in Nat
  OBVIOUS
<1> HIDE DEF c
<1>3. Starts(a, c)
  BY <1>1, <1>2 DEF Starts
<1> QED BY <1>1, <1>3 DEF c

\* And what the beginning starts with, the whole starts with.
LEMMA StartsThrough ==
  \A a, b, c \in Seq(Byte) : Starts(a, b) /\ Starts(b, c) => Starts(a, c)
<1> SUFFICES ASSUME NEW a \in Seq(Byte), NEW b \in Seq(Byte), NEW c \in Seq(Byte),
                    Starts(a, b), Starts(b, c)
             PROVE  Starts(a, c)
  OBVIOUS
<1>1. Len(a) \in Nat /\ Len(b) \in Nat /\ Len(c) \in Nat
  OBVIOUS
<1> QED BY <1>1 DEF Starts

\* What is left zero is bytes.
LEMMA ZeroBytes == \A n \in Nat : Zeros(n) \in Seq(Byte) /\ Len(Zeros(n)) = n
BY DEF Zeros, Byte

\* A byte alone.
LEMMA OneByte == \A v \in Byte : <<v>> \in Seq(Byte) /\ Len(<<v>>) = 1 /\ <<v>>[1] = v
OBVIOUS

\* Where the fields of a hello are: its session id's length is the byte 44, the list of
\* ciphers ends behind CiphersEnd, the compression methods behind FieldsEnd.
CiphersEnd(h) == 46 + h.session + 2 * Len(h.ciphers)
FieldsEnd(h) == CiphersEnd(h) + 1 + h.compression

\* The headers, the version and the random.
FixedPart == <<22>> \o Zeros(4) \o <<1>> \o Zeros(37)

\* They are 43 bytes, and the two that are read are what they should be.
LEMMA FixedPartLies ==
  FixedPart \in Seq(Byte) /\ Len(FixedPart) = 43 /\ FixedPart[1] = 22 /\ FixedPart[6] = 1
<1> DEFINE a == <<22>>
           z == Zeros(4)
           b == a \o z
           o == <<1>>
           c == b \o o
           y == Zeros(37)
           d == c \o y
<1>1. /\ a \in Seq(Byte) /\ Len(a) = 1 /\ a[1] = 22 /\ o \in Seq(Byte) /\ Len(o) = 1 /\ o[1] = 1
  <2>1. 22 \in Byte /\ 1 \in Byte
    BY DEF Byte
  <2> QED BY <2>1, OneByte
<1>2. z \in Seq(Byte) /\ Len(z) = 4 /\ y \in Seq(Byte) /\ Len(y) = 37
  BY ZeroBytes
<1> HIDE DEF a, z, o, y
<1>3. b \in Seq(Byte) /\ Len(b) = 5 /\ Starts(a, b)
  <2>1. b \in Seq(Byte) /\ Len(b) = Len(a) + Len(z) /\ Starts(a, b)
    BY <1>1, <1>2, StartsConcat, Zenon
  <2> HIDE DEF b
  <2> QED BY <1>1, <1>2, <2>1
<1> HIDE DEF b
<1>4. c \in Seq(Byte) /\ Len(c) = 6 /\ Starts(b, c) /\ c[6] = 1
  <2>1. /\ c \in Seq(Byte) /\ Len(c) = Len(b) + Len(o) /\ Starts(b, c)
        /\ \A i \in 1 .. Len(o) : c[Len(b) + i] = o[i]
    BY <1>1, <1>3, StartsConcat, Zenon
  <2> HIDE DEF c
  <2>2. Len(c) = 6 /\ 1 \in 1 .. Len(o) /\ Len(b) + 1 = 6
    BY <1>1, <1>3, <2>1
  <2>3. c[Len(b) + 1] = o[1]
    BY <2>1, <2>2, Zenon
  <2> QED BY <1>1, <2>1, <2>2, <2>3
<1> HIDE DEF c
<1>5. d \in Seq(Byte) /\ Len(d) = 43 /\ Starts(c, d)
  <2>1. d \in Seq(Byte) /\ Len(d) = Len(c) + Len(y) /\ Starts(c, d)
    BY <1>2, <1>4, StartsConcat, Zenon
  <2> HIDE DEF d
  <2> QED BY <1>2, <1>4, <2>1
<1>6. FixedPart = d
  BY Zenon DEF FixedPart, d, c, b, a, z, o, y
<1> HIDE DEF d
<1>7. d[1] = 22 /\ d[6] = 1
  <2>1. b[1] = a[1] /\ c[1] = b[1] /\ d[1] = c[1] /\ d[6] = c[6]
    BY <1>1, <1>3, <1>4, <1>5 DEF Starts
  <2> QED BY <1>1, <1>4, <2>1
<1> QED BY <1>5, <1>6, <1>7

\* The fields of a hello in its bytes.
FieldsLie(h, w) ==
  LET s == h.session
      n == Len(h.ciphers)
      x == CiphersEnd(h)
  IN  /\ w \in Seq(Byte) /\ FieldsEnd(h) <= Len(w)
      /\ w[1] = 22 /\ w[6] = 1 /\ w[44] = s
      /\ w[45 + s] = (2 * n) \div 256 /\ w[46 + s] = (2 * n) % 256
      /\ \A i \in 1 .. n : /\ w[46 + s + (2 * i - 1)] = h.ciphers[i] \div 256
                           /\ w[46 + s + 2 * i] = h.ciphers[i] % 256
      /\ w[x + 1] = h.compression

\* The extension block behind them.
BlockLies(h, w) ==
  LET block == Block(h.extensions)
      y == FieldsEnd(h)
  IN  /\ block \in Seq(Byte)
      /\ block = << >> => Len(w) = y
      /\ block # << >> => /\ Len(w) = y + 2 + Len(block)
                          /\ w[y + 1] = Len(block) \div 256 /\ w[y + 2] = Len(block) % 256
                          /\ \A j \in 1 .. Len(block) : w[y + 2 + j] = block[j]

\* What a hello has.
LEMMA HelloParts ==
  ASSUME NEW h \in Hello
  PROVE  /\ h.session \in Byte /\ h.compression \in Byte /\ h.ciphers \in Seq(Word)
         /\ h.extensions \in Seq(ExtensionFields)
         /\ Len(h.ciphers) \in Nat /\ 2 * Len(h.ciphers) \in Word
         /\ Len(Block(h.extensions)) \in Word
BY HelloAssumption

\* On the wire the fields and the block of any hello lie at these places.
LEMMA EncodedFieldsLie ==
  ASSUME NEW h \in Hello
  PROVE  FieldsLie(h, Encode(h)) /\ BlockLies(h, Encode(h))
<1> DEFINE s == h.session
           cs == h.ciphers
           n == Len(cs)
           k == h.compression
           es == h.extensions
           block == Block(es)
           m == Len(block)
           p1 == <<s>>
           p2 == Zeros(s)
           p3 == Bytes(2 * n)
           p4 == CipherBytes(cs)
           p5 == <<k>>
           p6 == Zeros(k)
           p7 == IF block = << >> THEN << >> ELSE Bytes(m) \o block
           a0 == FixedPart
           a1 == a0 \o p1
           a2 == a1 \o p2
           a3 == a2 \o p3
           a4 == a3 \o p4
           a5 == a4 \o p5
           a6 == a5 \o p6
           a7 == a6 \o p7
<1>1. /\ s \in Byte /\ k \in Byte /\ cs \in Seq(Word) /\ n \in Nat /\ 2 * n \in Word
      /\ es \in Seq(ExtensionFields) /\ m \in Word
  BY HelloParts
<1>2. s \in Nat /\ k \in Nat /\ m \in Nat
  <2>1. (\A v \in Byte : v \in Nat) /\ (\A v \in Word : v \in Nat)
    BY DEF Byte, Word
  <2> HIDE DEF s, k, m
  <2> QED BY <1>1, <2>1
<1>enc. Encode(h) = a7
  BY Zenon DEF Encode, FixedPart, a7, a6, a5, a4, a3, a2, a1, a0, p7, p6, p5, p4, p3, p2, p1,
               m, block, es, k, n, cs, s
<1> HIDE DEF s, cs, n, k, es
<1>3. block \in Seq(Byte)
  BY <1>1, BlockGrows
<1>p1. p1 \in Seq(Byte) /\ Len(p1) = 1 /\ p1[1] = s
  BY <1>1, OneByte
<1>p2. p2 \in Seq(Byte) /\ Len(p2) = s
  BY <1>2, ZeroBytes
<1>p3. p3 \in Seq(Byte) /\ Len(p3) = 2 /\ p3[1] = (2 * n) \div 256 /\ p3[2] = (2 * n) % 256
  BY <1>1, BytesParts, Zenon
<1>p4. /\ p4 \in Seq(Byte) /\ Len(p4) = 2 * n
       /\ \A i \in 1 .. n : p4[2 * i - 1] = cs[i] \div 256 /\ p4[2 * i] = cs[i] % 256
  BY <1>1, CiphersAreLaid, Zenon DEF CiphersLie, n
<1>p5. p5 \in Seq(Byte) /\ Len(p5) = 1 /\ p5[1] = k
  BY <1>1, OneByte
<1>p6. p6 \in Seq(Byte) /\ Len(p6) = k
  BY <1>2, ZeroBytes
<1> HIDE DEF block, m
<1>p7. /\ p7 \in Seq(Byte)
       /\ block = << >> => Len(p7) = 0
       /\ block # << >> => /\ Len(p7) = 2 + m /\ p7[1] = m \div 256 /\ p7[2] = m % 256
                           /\ \A j \in 1 .. m : p7[2 + j] = block[j]
  <2>1. CASE block = << >>
    <3>1. p7 = << >>
      BY <2>1
    <3> HIDE DEF p7
    <3> QED BY <2>1, <3>1
  <2>2. CASE block # << >>
    <3> DEFINE d == Bytes(m)
    <3>1. d \in Seq(Byte) /\ Len(d) = 2 /\ d[1] = m \div 256 /\ d[2] = m % 256
      BY <1>1, BytesParts
    <3>2. p7 = d \o block
      BY <2>2
    <3> HIDE DEF d, p7
    <3>3. /\ d \o block \in Seq(Byte) /\ Len(d \o block) = Len(d) + Len(block)
          /\ Starts(d, d \o block)
          /\ \A i \in 1 .. Len(block) : (d \o block)[Len(d) + i] = block[i]
      BY <1>3, <3>1, StartsConcat, Zenon
    <3>4. /\ p7 \in Seq(Byte) /\ Len(p7) = 2 + m /\ \A i \in 1 .. m : p7[2 + i] = block[i]
      BY <3>1, <3>2, <3>3 DEF m
    <3>5. 1 \in 1 .. Len(d) /\ 2 \in 1 .. Len(d)
      BY <3>1
    <3>6. p7[1] = d[1] /\ p7[2] = d[2]
      BY <3>2, <3>3, <3>5, Zenon DEF Starts
    <3> QED BY <2>2, <3>1, <3>4, <3>6
  <2> QED BY <2>1, <2>2
<1> HIDE DEF p1, p2, p3, p4, p5, p6, p7, a0
<1>a0. a0 \in Seq(Byte) /\ Len(a0) = 43 /\ a0[1] = 22 /\ a0[6] = 1
  BY FixedPartLies DEF a0
<1>a1. /\ a1 \in Seq(Byte) /\ Len(a1) = Len(a0) + Len(p1) /\ Starts(a0, a1)
       /\ \A i \in 1 .. Len(p1) : a1[Len(a0) + i] = p1[i]
  BY <1>a0, <1>p1, StartsConcat, Zenon
<1> HIDE DEF a1
<1>a2. /\ a2 \in Seq(Byte) /\ Len(a2) = Len(a1) + Len(p2) /\ Starts(a1, a2)
  BY <1>a1, <1>p2, StartsConcat, Zenon
<1> HIDE DEF a2
<1>a3. /\ a3 \in Seq(Byte) /\ Len(a3) = Len(a2) + Len(p3) /\ Starts(a2, a3)
       /\ \A i \in 1 .. Len(p3) : a3[Len(a2) + i] = p3[i]
  BY <1>a2, <1>p3, StartsConcat, Zenon
<1> HIDE DEF a3
<1>a4. /\ a4 \in Seq(Byte) /\ Len(a4) = Len(a3) + Len(p4) /\ Starts(a3, a4)
       /\ \A i \in 1 .. Len(p4) : a4[Len(a3) + i] = p4[i]
  BY <1>a3, <1>p4, StartsConcat, Zenon
<1> HIDE DEF a4
<1>a5. /\ a5 \in Seq(Byte) /\ Len(a5) = Len(a4) + Len(p5) /\ Starts(a4, a5)
       /\ \A i \in 1 .. Len(p5) : a5[Len(a4) + i] = p5[i]
  BY <1>a4, <1>p5, StartsConcat, Zenon
<1> HIDE DEF a5
<1>a6. /\ a6 \in Seq(Byte) /\ Len(a6) = Len(a5) + Len(p6) /\ Starts(a5, a6)
  BY <1>a5, <1>p6, StartsConcat, Zenon
<1> HIDE DEF a6
<1>a7. /\ a7 \in Seq(Byte) /\ Len(a7) = Len(a6) + Len(p7) /\ Starts(a6, a7)
       /\ \A i \in 1 .. Len(p7) : a7[Len(a6) + i] = p7[i]
  BY <1>a6, <1>p7, StartsConcat, Zenon
<1> HIDE DEF a7
<1>st. Starts(a0, a7) /\ Starts(a1, a7) /\ Starts(a3, a7) /\ Starts(a4, a7) /\ Starts(a5, a7)
  <2>1. Starts(a5, a7)
    BY <1>a5, <1>a6, <1>a7, StartsThrough, Zenon
  <2>2. Starts(a4, a7)
    BY <1>a4, <1>a5, <1>a7, <2>1, StartsThrough, Zenon
  <2>3. Starts(a3, a7)
    BY <1>a3, <1>a4, <1>a7, <2>2, StartsThrough, Zenon
  <2>4. Starts(a2, a7)
    BY <1>a2, <1>a3, <1>a7, <2>3, StartsThrough, Zenon
  <2>5. Starts(a1, a7)
    BY <1>a1, <1>a2, <1>a7, <2>4, StartsThrough, Zenon
  <2>6. Starts(a0, a7)
    BY <1>a0, <1>a1, <1>a7, <2>5, StartsThrough, Zenon
  <2> QED BY <2>1, <2>2, <2>3, <2>5, <2>6
<1>len. /\ Len(a0) = 43 /\ Len(a1) = 44 /\ Len(a2) = 44 + s /\ Len(a3) = 46 + s
        /\ Len(a4) = 46 + s + 2 * n /\ Len(a5) = 46 + s + 2 * n + 1
        /\ Len(a6) = 46 + s + 2 * n + 1 + k /\ Len(a7) = Len(a6) + Len(p7) /\ Len(p7) \in Nat
  <2>1. Len(a0) = 43 /\ Len(a1) = 44 /\ Len(a2) = 44 + s
    BY <1>2, <1>a0, <1>a1, <1>a2, <1>p1, <1>p2
  <2>2. Len(a3) = 46 + s
    BY <1>2, <1>a3, <1>p3, <2>1
  <2>3. Len(a4) = 46 + s + 2 * n /\ Len(a5) = 46 + s + 2 * n + 1
    BY <1>1, <1>2, <1>a4, <1>a5, <1>p4, <1>p5, <2>2
  <2>4. Len(a6) = 46 + s + 2 * n + 1 + k
    BY <1>1, <1>2, <1>a6, <1>p6, <2>3
  <2>5. Len(p7) \in Nat
    BY <1>p7
  <2> QED BY <1>a7, <2>1, <2>2, <2>3, <2>4, <2>5
<1>4. a7[1] = 22 /\ a7[6] = 1 /\ a7[44] = s
  <2>1. 1 \in 1 .. Len(a0) /\ 6 \in 1 .. Len(a0) /\ 44 \in 1 .. Len(a1) /\ 1 \in 1 .. Len(p1)
        /\ Len(a0) + 1 = 44
    BY <1>len, <1>p1
  <2>2. a7[1] = a0[1] /\ a7[6] = a0[6] /\ a7[44] = a1[44] /\ a1[Len(a0) + 1] = p1[1]
    BY <1>st, <1>a1, <2>1, Zenon DEF Starts
  <2> QED BY <1>a0, <1>p1, <2>1, <2>2
<1>5. a7[45 + s] = (2 * n) \div 256 /\ a7[46 + s] = (2 * n) % 256
  <2>1. 1 \in 1 .. Len(p3) /\ 2 \in 1 .. Len(p3) /\ Len(a2) + 1 = 45 + s /\ Len(a2) + 2 = 46 + s
        /\ 45 + s \in 1 .. Len(a3) /\ 46 + s \in 1 .. Len(a3)
    BY <1>2, <1>len, <1>p3
  <2>2. /\ a7[45 + s] = a3[45 + s] /\ a7[46 + s] = a3[46 + s]
        /\ a3[Len(a2) + 1] = p3[1] /\ a3[Len(a2) + 2] = p3[2]
    BY <1>st, <1>a3, <2>1, Zenon DEF Starts
  <2> QED BY <1>p3, <2>1, <2>2
<1>6. ASSUME NEW i \in 1 .. n
      PROVE  /\ a7[46 + s + (2 * i - 1)] = cs[i] \div 256
             /\ a7[46 + s + 2 * i] = cs[i] % 256
  <2>1. /\ 2 * i - 1 \in 1 .. Len(p4) /\ 2 * i \in 1 .. Len(p4)
        /\ 46 + s + (2 * i - 1) \in 1 .. Len(a4) /\ 46 + s + 2 * i \in 1 .. Len(a4)
    BY <1>1, <1>2, <1>len, <1>p4
  <2>2. /\ a7[46 + s + (2 * i - 1)] = a4[46 + s + (2 * i - 1)]
        /\ a7[46 + s + 2 * i] = a4[46 + s + 2 * i]
    BY <1>st, <2>1, Zenon DEF Starts
  <2>3. /\ a4[46 + s + (2 * i - 1)] = p4[2 * i - 1]
        /\ a4[46 + s + 2 * i] = p4[2 * i]
    <3>1. a4[Len(a3) + (2 * i - 1)] = p4[2 * i - 1] /\ a4[Len(a3) + 2 * i] = p4[2 * i]
      BY <1>a4, <2>1, Zenon
    <3>2. Len(a3) = 46 + s
      BY <1>len
    <3> QED BY <3>1, <3>2
  <2> QED BY <1>p4, <2>2, <2>3
<1>7. a7[46 + s + 2 * n + 1] = k
  <2>1. 1 \in 1 .. Len(p5) /\ Len(a4) + 1 = 46 + s + 2 * n + 1
        /\ 46 + s + 2 * n + 1 \in 1 .. Len(a5)
    BY <1>1, <1>2, <1>len, <1>p5
  <2>2. a7[46 + s + 2 * n + 1] = a5[46 + s + 2 * n + 1] /\ a5[Len(a4) + 1] = p5[1]
    BY <1>st, <1>a5, <2>1, Zenon DEF Starts
  <2> QED BY <1>p5, <2>1, <2>2
<1> DEFINE x == 46 + s + 2 * n
           y == 46 + s + 2 * n + 1 + k
<1>8. x = CiphersEnd(h) /\ y = FieldsEnd(h)
  BY Zenon DEF CiphersEnd, FieldsEnd, x, y, s, n, cs, k
<1>9. /\ block = << >> => Len(a7) = y
      /\ block # << >> => /\ Len(a7) = y + 2 + m
                          /\ a7[y + 1] = m \div 256 /\ a7[y + 2] = m % 256
                          /\ \A j \in 1 .. m : a7[y + 2 + j] = block[j]
  <2>1. Len(a6) = y /\ y \in Nat
    BY <1>1, <1>2, <1>len
  <2> HIDE DEF y
  <2>2. CASE block = << >>
    BY <1>len, <1>p7, <2>1, <2>2
  <2>3. CASE block # << >>
    <3>1. Len(a7) = y + 2 + m
      <4>1. Len(p7) = 2 + m /\ Len(a7) = y + Len(p7)
        BY <1>len, <1>p7, <2>1, <2>3
      <4> QED BY <1>2, <2>1, <4>1
    <3>2. 1 \in 1 .. Len(p7) /\ 2 \in 1 .. Len(p7)
          /\ \A j \in 1 .. m : 2 + j \in 1 .. Len(p7) /\ y + (2 + j) = y + 2 + j
      BY <1>2, <1>p7, <2>1, <2>3
    <3>3. \A i \in 1 .. Len(p7) : a7[y + i] = p7[i]
      BY <1>a7, <2>1
    <3>4. a7[y + 1] = p7[1] /\ a7[y + 2] = p7[2]
      BY <3>2, <3>3, Zenon
    <3>5. \A j \in 1 .. m : a7[y + 2 + j] = p7[2 + j]
      BY <3>2, <3>3
    <3> QED BY <1>p7, <2>3, <3>1, <3>4, <3>5
  <2> QED BY <2>2, <2>3
<1>10. y <= Len(a7)
  BY <1>1, <1>2, <1>len
<1> HIDE DEF x, y
<1>11. FieldsLie(h, a7)
  <2>1. a7[x + 1] = k
    BY <1>7 DEF x
  <2> QED BY <1>4, <1>5, <1>6, <1>8, <1>10, <1>a7, <2>1, Zenon DEF FieldsLie, s, cs, n, k
<1>12. BlockLies(h, a7)
  BY <1>3, <1>8, <1>9, Zenon DEF BlockLies, m, block, es
<1> QED BY <1>enc, <1>11, <1>12

\* Bytes are counted with.
LEMMA BytesAreNumbers == \A v \in Byte : v \in Nat
BY DEF Byte

\* How far the fields go.
LEMMA FieldsFit ==
  ASSUME NEW h \in Hello
  PROVE  /\ CiphersEnd(h) \in Nat /\ FieldsEnd(h) \in Nat /\ FieldsEnd(h) > CiphersEnd(h)
         /\ Len(Encode(h)) \in Nat /\ FieldsEnd(h) <= Len(Encode(h))
<1>1. h.session \in Byte /\ h.compression \in Byte /\ Len(h.ciphers) \in Nat
  BY HelloParts
<1> DEFINE s == h.session
           k == h.compression
           l == Len(h.ciphers)
<1>2. s \in Nat /\ k \in Nat /\ l \in Nat
  BY <1>1, BytesAreNumbers
<1>3. CiphersEnd(h) = 46 + s + 2 * l /\ FieldsEnd(h) = 46 + s + 2 * l + 1 + k
  BY DEF CiphersEnd, FieldsEnd
<1> HIDE DEF s, k, l
<1>4. CiphersEnd(h) \in Nat /\ FieldsEnd(h) \in Nat /\ FieldsEnd(h) > CiphersEnd(h)
  BY <1>2, <1>3
<1>5. Encode(h) \in Seq(Byte) /\ FieldsEnd(h) <= Len(Encode(h))
  BY EncodedFieldsLie, Zenon DEF FieldsLie
<1> QED BY <1>4, <1>5

-----------------------------------------------------------------------------
(* What a peek reads of them. *)

\* What a peek of n bytes finds.
Peeked(h, n) == SubSeq(Encode(h), 1, n)

LEMMA PeekedParts ==
  ASSUME NEW h \in Hello, NEW n \in 1 .. Len(Encode(h))
  PROVE  /\ Peeked(h, n) \in Seq(Byte) /\ Len(Peeked(h, n)) = n
         /\ \A i \in 1 .. n : Peeked(h, n)[i] = Encode(h)[i] /\ Peeked(h, n)[i] \in Byte
<1> DEFINE w == Encode(h)
           b == SubSeq(w, 1, n)
<1>1. w \in Seq(Byte) /\ n \in 1 .. Len(w)
  BY EncodedFieldsLie DEF FieldsLie
<1> HIDE DEF w
<1>2. b \in Seq(Byte) /\ Len(b) = n /\ \A i \in 1 .. n : b[i] = w[i]
  BY <1>1
<1>3. \A i \in 1 .. n : b[i] \in Byte
  BY <1>2
<1> QED BY <1>2, <1>3, Zenon DEF Peeked, w

\* Two bytes are read as what they were made of.
LEMMA WordIsRead ==
  ASSUME NEW b, NEW i \in Nat, NEW v \in Word,
         b[i + 1] = v \div 256, b[i + 2] = v % 256
  PROVE  U16(b, i) = v
<1>1. (i + 1) + 1 = i + 2
  OBVIOUS
<1>2. U16(b, i) = 256 * (v \div 256) + (v % 256)
  BY <1>1 DEF U16, At
<1> QED BY <1>2, BytesAreRead

\* There is a profile as soon as something has arrived behind the ciphers.
LEMMA ParsedBehindCiphers ==
  ASSUME NEW h \in Hello, NEW n \in 1 .. Len(Encode(h))
  PROVE  ParseClientHello(Peeked(h, n)) =
           IF n > CiphersEnd(h)
             THEN {ProfileAt(Peeked(h, n), 46 + h.session, 2 * Len(h.ciphers), FieldsEnd(h))}
             ELSE {}
<1> DEFINE b == Peeked(h, n)
           w == Encode(h)
           s == h.session
           l == 2 * Len(h.ciphers)
           x == CiphersEnd(h)
<1>1. /\ n \in Nat /\ Len(b) = n /\ \A i \in 1 .. n : b[i] = w[i]
  BY PeekedParts
<1>2. /\ w[1] = 22 /\ w[6] = 1 /\ w[44] = s
      /\ w[45 + s] = l \div 256 /\ w[46 + s] = l % 256
      /\ w[x + 1] = h.compression
  BY EncodedFieldsLie, ZenonT(30) DEF FieldsLie
<1>3. s \in Nat /\ l \in Nat /\ l \in Word /\ x = 46 + s + l /\ FieldsEnd(h) = x + 1 + h.compression
  <2>1. s \in Byte /\ Len(h.ciphers) \in Nat /\ l \in Word
    BY HelloParts
  <2>2. s \in Nat
    BY <2>1, BytesAreNumbers
  <2> QED BY <2>1, <2>2 DEF CiphersEnd, FieldsEnd
<1> HIDE DEF b, w, s, l, x
<1>4. CASE n <= 43
  <2>1. ~(Len(b) > 43) /\ ~(n > x)
    BY <1>1, <1>3, <1>4
  <2>2. ParseClientHello(b) = {}
    BY <2>1 DEF ParseClientHello
  <2> QED BY <2>1, <2>2 DEF b, x
<1>5. CASE n > 43
  <2>1. At(b, 43) = s /\ At(b, 0) = 22 /\ At(b, 5) = 1
    <3>1. 43 + 1 = 44 /\ 0 + 1 = 1 /\ 5 + 1 = 6
          /\ 44 \in 1 .. n /\ 1 \in 1 .. n /\ 6 \in 1 .. n
      BY <1>1, <1>5
    <3> QED BY <1>1, <1>2, <3>1 DEF At
  <2>2. ParseClientHello(b) =
          IF /\ Len(b) > 43 /\ At(b, 0) = 22 /\ At(b, 5) = 1
             /\ Len(b) >= (44 + s) + 2 /\ Len(b) > (44 + s) + 2 + U16(b, 44 + s)
            THEN {ProfileAt(b, (44 + s) + 2, U16(b, 44 + s),
                            (44 + s) + 2 + U16(b, 44 + s) + 1
                              + At(b, (44 + s) + 2 + U16(b, 44 + s)))}
            ELSE {}
    BY <2>1, Zenon DEF ParseClientHello
  <2>3. (44 + s) + 2 = 46 + s
    BY <1>3
  <2>4. CASE n < 46 + s
    <3>1. ~(Len(b) >= 46 + s) /\ ~(n > x)
      BY <1>1, <1>3, <2>4
    <3>2. ParseClientHello(b) = {}
      BY <2>2, <2>3, <3>1
    <3> QED BY <3>1, <3>2 DEF b, x
  <2>5. CASE n >= 46 + s
    <3>1. U16(b, 44 + s) = l
      <4>1. 44 + s \in Nat /\ (44 + s) + 1 = 45 + s /\ (44 + s) + 2 = 46 + s
            /\ 45 + s \in 1 .. n /\ 46 + s \in 1 .. n
        BY <1>1, <1>3, <2>5
      <4>2. b[(44 + s) + 1] = l \div 256 /\ b[(44 + s) + 2] = l % 256
        BY <1>1, <1>2, <4>1
      <4> QED BY <1>3, <4>1, <4>2, WordIsRead
    <3>2. ParseClientHello(b) =
            IF Len(b) > x THEN {ProfileAt(b, 46 + s, l, x + 1 + At(b, x))} ELSE {}
      <4>1. Len(b) > 43 /\ Len(b) >= 46 + s /\ (44 + s) + 2 + U16(b, 44 + s) = x
        BY <1>1, <1>3, <1>5, <2>3, <2>5, <3>1
      <4> QED BY <2>1, <2>2, <2>3, <3>1, <4>1, Zenon
    <3>3. CASE n > x
      <4>1. At(b, x) = h.compression
        <5>1. x + 1 \in 1 .. n
          BY <1>1, <1>3, <3>3
        <5> QED BY <1>1, <1>2, <5>1 DEF At
      <4>2. ParseClientHello(b) = {ProfileAt(b, 46 + s, l, FieldsEnd(h))}
        BY <1>1, <1>3, <3>2, <3>3, <4>1
      <4> QED BY <3>3, <4>2 DEF b, s, l, x
    <3>4. CASE ~(n > x)
      <4>1. ParseClientHello(b) = {}
        BY <1>1, <3>2, <3>4
      <4> QED BY <3>4, <4>1 DEF b, x
    <3> QED BY <3>3, <3>4
  <2> QED BY <1>1, <1>3, <2>4, <2>5
<1> QED BY <1>1, <1>4, <1>5

\* The ciphers are then read as they are.
LEMMA CiphersAreRead ==
  ASSUME NEW h \in Hello, NEW n \in 1 .. Len(Encode(h)), n > CiphersEnd(h)
  PROVE  /\ (2 * Len(h.ciphers)) \div 2 = Len(h.ciphers)
         /\ [i \in 1 .. (2 * Len(h.ciphers)) \div 2 |->
               U16(Peeked(h, n), (46 + h.session) + 2 * (i - 1))] = h.ciphers
<1> DEFINE b == Peeked(h, n)
           w == Encode(h)
           s == h.session
           cs == h.ciphers
           l == Len(cs)
           c == 46 + s
<1>1. /\ n \in Nat /\ \A i \in 1 .. n : b[i] = w[i]
  BY PeekedParts
<1>2. \A i \in 1 .. l : /\ w[c + (2 * i - 1)] = cs[i] \div 256
                        /\ w[c + 2 * i] = cs[i] % 256
  BY EncodedFieldsLie, Zenon DEF FieldsLie
<1>3. s \in Nat /\ cs \in Seq(Word) /\ l \in Nat /\ c + 2 * l < n /\ n \in Nat
  <2>1. s \in Byte /\ cs \in Seq(Word)
    BY HelloParts
  <2>2. s \in Nat
    BY <2>1, BytesAreNumbers
  <2> QED BY <1>1, <2>1, <2>2 DEF CiphersEnd
<1> HIDE DEF b, w, s, cs
<1>4. (2 * l) \div 2 = l
  <2> HIDE DEF l
  <2> QED BY <1>3
<1>5. ASSUME NEW i \in 1 .. l PROVE U16(b, c + 2 * (i - 1)) = cs[i]
  <2> DEFINE j == c + 2 * (i - 1)
  <2>1. j \in Nat /\ j + 1 = c + (2 * i - 1) /\ j + 2 = c + 2 * i
        /\ c + (2 * i - 1) \in 1 .. n /\ c + 2 * i \in 1 .. n
    BY <1>3
  <2> HIDE DEF j
  <2>2. b[j + 1] = cs[i] \div 256 /\ b[j + 2] = cs[i] % 256
    <3>1. w[c + (2 * i - 1)] = cs[i] \div 256 /\ w[c + 2 * i] = cs[i] % 256
      BY <1>2, Zenon
    <3>2. b[c + (2 * i - 1)] = w[c + (2 * i - 1)] /\ b[c + 2 * i] = w[c + 2 * i]
      BY <1>1, <2>1, Zenon
    <3>3. j + 1 = c + (2 * i - 1) /\ j + 2 = c + 2 * i
      BY <2>1
    <3> HIDE DEF c, l
    <3> QED BY <3>1, <3>2, <3>3, Zenon
  <2>3. cs[i] \in Word
    BY <1>3
  <2>4. U16(b, j) = cs[i]
    BY <2>1, <2>2, <2>3, WordIsRead
  <2> QED BY <2>4 DEF j
<1>6. [i \in 1 .. l |-> U16(b, c + 2 * (i - 1))] = cs
  <2>1. cs = [i \in 1 .. l |-> cs[i]]
    BY <1>3
  <2> HIDE DEF c
  <2> QED BY <1>5, <2>1
<1> QED BY <1>4, <1>6 DEF b, s, cs, l, c

-----------------------------------------------------------------------------
(* The walk along the extensions. *)

\* One step of the walk along the extensions.
Stepped(g, rec, next, end, i) == IF i + 4 > end THEN {} ELSE {rec[i]} \cup g[next[i]]

\* g has a result of the walk from everywhere.
IsWalk(g, rec, next, end) == \A i \in Nat : g[i] = Stepped(g, rec, next, end, i)

\* The walk goes on behind where it is, finding members of R.
GoesOn(rec, next, end, R) ==
  \A i \in Nat : i + 4 <= end => rec[i] \in R /\ next[i] \in Nat /\ next[i] > i

\* Such a walk, which always goes on behind where it is, has a result from everywhere.
LEMMA WalkExists ==
  ASSUME NEW R, NEW rec, NEW next, NEW end \in Nat, GoesOn(rec, next, end, R)
  PROVE  \E g \in [Nat -> SUBSET R] : IsWalk(g, rec, next, end)
<1> USE DEF GoesOn, IsWalk
<1> DEFINE Known(g, d) == \A i \in Nat : i + 4 + d > end => g[i] = Stepped(g, rec, next, end, i)
           G == {d \in Nat : \E g \in [Nat -> SUBSET R] : Known(g, d)}
<1>1. 0 \in G
  <2> DEFINE g == [i \in Nat |-> {}]
  <2>1. g \in [Nat -> SUBSET R]
    OBVIOUS
  <2>2. \A i \in Nat : i + 4 + 0 > end => g[i] = {} /\ i + 4 > end
    OBVIOUS
  <2>3. Known(g, 0)
    BY <2>2 DEF Stepped
  <2> QED BY <2>1, <2>3
<1>2. ASSUME NEW d \in 0 .. end - 1, d \in G PROVE d + 1 \in G
  <2>1. PICK g \in [Nat -> SUBSET R] : Known(g, d)
    BY <1>2
  <2>2. CASE ~(d + 4 <= end)
    <3>1. \A i \in Nat : i + 4 + (d + 1) > end => i + 4 + d > end
      BY <2>2
    <3>2. Known(g, d + 1)
      BY <2>1, <3>1
    <3> QED BY <3>2
  <2>3. CASE d + 4 <= end
    <3> DEFINE k == end - 4 - d
               h == [g EXCEPT ![k] = {rec[k]} \cup g[next[k]]]
    <3>1. k \in Nat /\ k + 4 <= end
      BY <2>3
    <3>2. rec[k] \in R /\ next[k] \in Nat /\ next[k] > k
      BY <3>1
    <3> HIDE DEF k
    <3>3. g[next[k]] \in SUBSET R
      BY <3>2
    <3>4. h \in [Nat -> SUBSET R]
      BY <3>2, <3>3
    <3>5. h[k] = {rec[k]} \cup g[next[k]] /\ \A i \in Nat : i # k => h[i] = g[i]
      BY <3>1
    <3> HIDE DEF h
    <3>6. ASSUME NEW i \in Nat, i + 4 + (d + 1) > end PROVE h[i] = Stepped(h, rec, next, end, i)
      <4>1. k = end - 4 - d
        BY DEF k
      <4>2. i = k \/ (i > k /\ i + 4 + d > end)
        BY <3>6, <4>1
      <4>3. CASE i = k
        <5>1. next[k] # k
          BY <3>1, <3>2
        <5>2. h[next[k]] = g[next[k]] /\ ~(k + 4 > end)
          BY <3>1, <3>2, <3>5, <5>1
        <5>3. h[k] = Stepped(h, rec, next, end, k)
          BY <3>5, <5>2, Zenon DEF Stepped
        <5> QED BY <4>3, <5>3
      <4>4. CASE i > k /\ i + 4 + d > end
        <5>1. i # k /\ h[i] = g[i] /\ g[i] = Stepped(g, rec, next, end, i)
          BY <2>1, <3>1, <3>5, <4>4
        <5>2. CASE i + 4 > end
          BY <5>1, <5>2 DEF Stepped
        <5>3. CASE ~(i + 4 > end)
          <6>1. next[i] \in Nat /\ next[i] > i
            BY <5>3
          <6>2. next[i] # k
            BY <3>1, <4>4, <6>1
          <6>3. h[next[i]] = g[next[i]]
            BY <3>5, <6>1, <6>2
          <6> QED BY <5>1, <6>3 DEF Stepped
        <5> QED BY <5>2, <5>3
      <4> QED BY <4>2, <4>3, <4>4
    <3>7. Known(h, d + 1)
      BY <3>6
    <3> HIDE DEF Known
    <3> QED BY <3>4, <3>7
  <2> QED BY <2>2, <2>3
<1> HIDE DEF G
<1>3. 0 .. end \subseteq G
  BY <1>1, <1>2, InductiveUpTo
<1>4. PICK g \in [Nat -> SUBSET R] : Known(g, end)
  <2>1. end \in G
    BY <1>3
  <2> QED BY <2>1 DEF G
<1>5. \A i \in Nat : i + 4 + end > end
  OBVIOUS
<1>6. \A i \in Nat : g[i] = Stepped(g, rec, next, end, i)
  BY <1>4, <1>5
<1> QED BY <1>6

\* What the bytes say of an extension's header at i.
Header(b, i) == [type |-> U16(b, i), body |-> i + 4, len |-> U16(b, i + 2)]

\* What f finds from i on.
Walks(f, b, end) ==
  \A i \in Nat : f[i] = IF i + 4 > end THEN {}
                        ELSE {Header(b, i)} \cup f[i + 4 + U16(b, i + 2)]

\* Two bytes are read as a number.
LEMMA WordIsNatural ==
  ASSUME NEW b \in Seq(Byte), NEW i \in Nat, i + 2 <= Len(b)
  PROVE  U16(b, i) \in Nat
<1>1. (i + 1) + 1 = i + 2 /\ i + 1 \in 1 .. Len(b) /\ i + 2 \in 1 .. Len(b)
  OBVIOUS
<1>2. b[i + 1] \in Byte /\ b[i + 2] \in Byte
  BY <1>1
<1>3. b[i + 1] \in Nat /\ b[i + 2] \in Nat
  BY <1>2, BytesAreNumbers
<1> DEFINE x == b[i + 1]
           y == b[i + 2]
<1>4. U16(b, i) = 256 * x + y
  BY <1>1 DEF U16, At
<1> HIDE DEF x, y
<1>5. x \in Nat /\ y \in Nat
  BY <1>3 DEF x, y
<1> QED BY <1>4, <1>5

\* So the extensions are what such a walk finds.
LEMMA ExtensionsAreWalked ==
  ASSUME NEW b \in Seq(Byte), NEW end \in Nat, end <= Len(b), NEW start
  PROVE  \E f : Walks(f, b, end) /\ ExtensionsAt(b, start, end) = f[start]
<1> DEFINE rec == [i \in Nat |-> Header(b, i)]
           next == [i \in Nat |-> i + 4 + U16(b, i + 2)]
           R == {Header(b, i) : i \in Nat}
           P(f) == f = [i \in Nat |->
                          IF i + 4 > end THEN {}
                          ELSE {[type |-> U16(b, i), body |-> i + 4, len |-> U16(b, i + 2)]}
                                 \cup f[i + 4 + U16(b, i + 2)]]
<1>1. \A i \in Nat : i + 4 <= end => rec[i] \in R /\ next[i] \in Nat /\ next[i] > i
  <2> SUFFICES ASSUME NEW i \in Nat, i + 4 <= end
               PROVE  rec[i] \in R /\ next[i] \in Nat /\ next[i] > i
    OBVIOUS
  <2>1. i + 2 \in Nat /\ (i + 2) + 2 <= Len(b)
    OBVIOUS
  <2>2. U16(b, i + 2) \in Nat
    BY <2>1, WordIsNatural
  <2> QED BY <2>2
<1>2. PICK g \in [Nat -> SUBSET R] : \A i \in Nat : g[i] = Stepped(g, rec, next, end, i)
  <2> HIDE DEF rec, next, R
  <2>1. GoesOn(rec, next, end, R)
    BY <1>1 DEF GoesOn
  <2>2. \E g \in [Nat -> SUBSET R] : IsWalk(g, rec, next, end)
    BY <2>1, WalkExists
  <2> QED BY <2>2 DEF IsWalk
<1>3. P(g)
  <2> DEFINE h == [i \in Nat |->
                     IF i + 4 > end THEN {}
                     ELSE {[type |-> U16(b, i), body |-> i + 4, len |-> U16(b, i + 2)]}
                            \cup g[i + 4 + U16(b, i + 2)]]
  <2>1. ASSUME NEW i \in Nat PROVE g[i] = h[i]
    <3>1. rec[i] = [type |-> U16(b, i), body |-> i + 4, len |-> U16(b, i + 2)]
          /\ next[i] = i + 4 + U16(b, i + 2)
      BY DEF Header
    <3>2. g[i] = IF i + 4 > end THEN {} ELSE {rec[i]} \cup g[next[i]]
      BY <1>2 DEF Stepped
    <3> HIDE DEF rec, next
    <3> QED BY <3>1, <3>2
  <2>2. g = [i \in Nat |-> g[i]]
    BY <1>2
  <2> QED BY <2>1, <2>2
<1> DEFINE f == CHOOSE x : P(x)
<1>4. P(f)
  <2> HIDE DEF P
  <2> QED BY <1>3, Zenon
<1>5. ExtensionsAt(b, start, end) = f[start]
  BY Zenon DEF ExtensionsAt
<1>6. Walks(f, b, end)
  <2> HIDE DEF f
  <2>1. f = [i \in Nat |->
                          IF i + 4 > end THEN {}
                          ELSE {[type |-> U16(b, i), body |-> i + 4, len |-> U16(b, i + 2)]}
                                 \cup f[i + 4 + U16(b, i + 2)]]
    BY <1>4
  <2>2. \A i \in Nat : f[i] = 
                          IF i + 4 > end THEN {}
                          ELSE {[type |-> U16(b, i), body |-> i + 4, len |-> U16(b, i + 2)]}
                                 \cup f[i + 4 + U16(b, i + 2)]
    BY <2>1, Zenon
  <2> QED BY <2>2, Zenon DEF Walks, Header
<1> HIDE DEF f
<1> QED BY <1>5, <1>6

\* b shows a beginning of the extensions' block behind start, and nothing else there.
ShowsBlock(b, start, es) ==
  /\ b \in Seq(Byte) /\ start \in Nat /\ es \in Seq(ExtensionFields)
  /\ Block(es) \in Seq(Byte)
  /\ Len(b) <= start + Len(Block(es))
  /\ \A j \in 1 .. Len(Block(es)) : start + j <= Len(b) => b[start + j] = Block(es)[j]

\* The header of an extension that starts behind at, and those that b shows whole, from the
\* k-th extension on.
HeaderOf(e, at) == [type |-> e.type, body |-> at + 4, len |-> Len(e.body)]

HeadersIn(b, start, es, off, k) == {i \in k .. Len(es) : start + off[i] + 4 <= Len(b)}

HeadersFrom(b, start, es, off, k) == {HeaderOf(es[i], start + off[i]) : i \in HeadersIn(b, start, es, off, k)}

\* What an extension has.
LEMMA FieldsParts ==
  \A e \in ExtensionFields :
    e.type \in Word /\ e.body \in Seq(Byte) /\ Len(e.body) \in Word /\ Len(e.body) \in Nat
<1> SUFFICES ASSUME NEW e \in ExtensionFields
             PROVE  e.type \in Word /\ e.body \in Seq(Byte) /\ Len(e.body) \in Word
                    /\ Len(e.body) \in Nat
  OBVIOUS
<1>1. e.type \in Word /\ e.body \in Seq(Byte) /\ Len(e.body) \in Word
  BY DEF ExtensionFields
<1>2. Len(e.body) \in Nat
  BY <1>1
<1> QED BY <1>1, <1>2

\* An extension ends where the next one starts.
LEMMA ExtensionFits ==
  ASSUME NEW es \in Seq(ExtensionFields), NEW off, Layout(off, es), NEW i \in 1 .. Len(es)
  PROVE  /\ off[i] \in Nat /\ Len(es[i].body) \in Nat
         /\ off[i] + 4 + Len(es[i].body) <= Len(Block(es))
<1>1. es[i] \in ExtensionFields
  OBVIOUS
<1>2. Len(es[i].body) \in Nat
  BY <1>1, FieldsParts
<1>3. off[i + 1] = off[i] + 4 + Len(es[i].body) /\ off[i + 1] <= Len(Block(es))
  BY Zenon DEF Layout
<1>4. off[i] \in Nat
  <2>1. off \in [1 .. Len(es) + 1 -> Nat]
    BY Zenon DEF Layout
  <2>2. i \in 1 .. Len(es) + 1
    OBVIOUS
  <2> QED BY <2>1, <2>2
<1> QED BY <1>2, <1>3, <1>4

\* Such a header is read as it is.
LEMMA HeaderIsRead ==
  ASSUME NEW b, NEW start, NEW es, ShowsBlock(b, start, es), NEW off, Layout(off, es),
         NEW i \in 1 .. Len(es), start + off[i] + 4 <= Len(b)
  PROVE  /\ Header(b, start + off[i]) = HeaderOf(es[i], start + off[i])
         /\ U16(b, start + off[i] + 2) = Len(es[i].body)
<1> DEFINE block == Block(es)
           at == start + off[i]
           e == es[i]
           o == off[i]
           l == Len(block)
           t == e.type
           u == Len(e.body)
<1>1. /\ start \in Nat /\ block \in Seq(Byte)
      /\ \A j \in 1 .. l : start + j <= Len(b) => b[start + j] = block[j]
      /\ es \in Seq(ExtensionFields) /\ Len(b) \in Nat
  BY DEF ShowsBlock
<1>2. /\ off[i] \in Nat /\ off[i + 1] = off[i] + 4 + u /\ off[i + 1] <= l
      /\ ExtensionLies(block, o, e)
  <2>1. off[i] \in Nat
    BY <1>1, ExtensionFits
  <2> QED BY <2>1, Zenon DEF Layout
<1>3. e \in ExtensionFields
  BY <1>1
<1>4. t \in Word /\ u \in Word /\ u \in Nat
  BY <1>3, FieldsParts
<1>5. /\ block[o + 1] = t \div 256 /\ block[o + 2] = t % 256
      /\ block[o + 3] = u \div 256 /\ block[o + 4] = u % 256
  BY <1>2 DEF ExtensionLies
<1>6. l \in Nat
  BY <1>1
<1> HIDE DEF block, e, l, t, u
<1>7. /\ o \in Nat /\ at = start + o /\ o + 4 <= l /\ at + 4 <= Len(b)
  BY <1>2, <1>4, <1>6
<1> HIDE DEF o
<1>8. /\ at \in Nat
      /\ o + 1 \in 1 .. l /\ start + (o + 1) <= Len(b) /\ start + (o + 1) = at + 1
      /\ o + 2 \in 1 .. l /\ start + (o + 2) <= Len(b) /\ start + (o + 2) = at + 2
      /\ o + 3 \in 1 .. l /\ start + (o + 3) <= Len(b) /\ start + (o + 3) = (at + 2) + 1
      /\ o + 4 \in 1 .. l /\ start + (o + 4) <= Len(b) /\ start + (o + 4) = (at + 2) + 2
  BY <1>1, <1>6, <1>7
<1> HIDE DEF at
<1>9. b[at + 1] = t \div 256 /\ b[at + 2] = t % 256
      /\ b[(at + 2) + 1] = u \div 256 /\ b[(at + 2) + 2] = u % 256
  <2>1. /\ b[start + (o + 1)] = block[o + 1] /\ b[start + (o + 2)] = block[o + 2]
        /\ b[start + (o + 3)] = block[o + 3] /\ b[start + (o + 4)] = block[o + 4]
    BY <1>1, <1>8, Zenon
  <2>2. /\ start + (o + 1) = at + 1 /\ start + (o + 2) = at + 2
        /\ start + (o + 3) = (at + 2) + 1 /\ start + (o + 4) = (at + 2) + 2
    BY <1>8
  <2> QED BY <1>5, <2>1, <2>2
<1>10. U16(b, at) = t
  <2>1. at \in Nat /\ t \in Word
    BY <1>4, <1>8
  <2>2. b[at + 1] = t \div 256 /\ b[at + 2] = t % 256
    BY <1>9
  <2> QED BY <2>1, <2>2, WordIsRead
<1>11. U16(b, at + 2) = u
  <2> DEFINE k == at + 2
  <2>1. k \in Nat /\ u \in Word
    BY <1>4, <1>8
  <2>2. b[k + 1] = u \div 256 /\ b[k + 2] = u % 256
    BY <1>9
  <2> HIDE DEF k
  <2>3. U16(b, k) = u
    BY <2>1, <2>2, WordIsRead
  <2> QED BY <2>3 DEF k
<1> QED BY <1>10, <1>11 DEF Header, HeaderOf, at, e, t, u

\* The walk finds those that b shows.
LEMMA ShownAreFound ==
  ASSUME NEW b, NEW start, NEW es, ShowsBlock(b, start, es), NEW off, Layout(off, es),
         NEW f, Walks(f, b, Len(b))
  PROVE  f[start] = HeadersFrom(b, start, es, off, 1)
<1> DEFINE n == Len(b)
           N == Len(es)
           l == Len(Block(es))
           G == {d \in Nat : f[start + off[N + 1 - d]] = HeadersFrom(b, start, es, off, N + 1 - d)}
<1>1. n \in Nat /\ N \in Nat /\ start \in Nat /\ l \in Nat /\ n <= start + l
      /\ es \in Seq(ExtensionFields)
  BY DEF ShowsBlock
<1>2. /\ \A i \in 1 .. N + 1 : off[i] \in Nat
      /\ off[1] = 0 /\ off[N + 1] = l
      /\ \A i \in 1 .. N : off[i + 1] = off[i] + 4 + Len(es[i].body)
  BY DEF Layout
<1>3. \A i \in Nat : f[i] = IF i + 4 > n THEN {} ELSE {Header(b, i)} \cup f[i + 4 + U16(b, i + 2)]
  BY DEF Walks
<1> HIDE DEF n, N, l
<1>4. 0 \in G
  <2>1. N + 1 - 0 = N + 1 /\ start + l \in Nat /\ start + l + 4 > n
    BY <1>1
  <2>2. f[start + off[N + 1]] = {}
    BY <1>2, <1>3, <2>1
  <2>3. (N + 1) .. N = {}
    BY <1>1
  <2>4. HeadersIn(b, start, es, off, N + 1) = {}
    BY <2>3 DEF HeadersIn, N
  <2>5. HeadersFrom(b, start, es, off, N + 1) = {}
    BY <2>4 DEF HeadersFrom
  <2> QED BY <2>1, <2>2, <2>5
<1>5. ASSUME NEW d \in 0 .. N - 1, d \in G PROVE d + 1 \in G
  <2> DEFINE k == N - d
             at == start + off[k]
  <2>1. k \in 1 .. N /\ N + 1 - d = k + 1 /\ N + 1 - (d + 1) = k /\ k + 1 \in 1 .. N + 1
    BY <1>1
  <2> HIDE DEF k
  <2>2. f[start + off[k + 1]] = HeadersFrom(b, start, es, off, k + 1)
    BY <1>5, <2>1
  <2>3. es[k] \in ExtensionFields /\ Len(es[k].body) \in Nat
    <3>1. k \in 1 .. Len(es)
      BY <2>1 DEF N
    <3>2. es[k] \in ExtensionFields
      BY <1>1, <3>1
    <3> QED BY <3>2, FieldsParts
  <2>4. off[k] \in Nat /\ at \in Nat /\ start + off[k + 1] = at + 4 + Len(es[k].body)
        /\ start + off[k + 1] \in Nat /\ start + off[k + 1] >= at
    <3>1. off[k] \in Nat /\ off[k + 1] = off[k] + 4 + Len(es[k].body)
      <4>1. k \in 1 .. N + 1
        BY <1>1, <2>1
      <4> QED BY <1>2, <2>1, <4>1
    <3> DEFINE o == off[k]
               p == off[k + 1]
               u == Len(es[k].body)
    <3>2. o \in Nat /\ p = o + 4 + u /\ u \in Nat
      BY <2>3, <3>1
    <3> HIDE DEF o, p, u
    <3>3. o \in Nat /\ start + o \in Nat /\ start + p = start + o + 4 + u
          /\ start + p \in Nat /\ start + p >= start + o
      BY <1>1, <3>2
    <3> QED BY <3>3 DEF o, p, u
  <2> HIDE DEF at
  <2>8. d + 1 \in Nat
    BY <1>1
  <2>5. k .. N = {k} \cup (k + 1) .. N
    BY <1>1, <2>1
  <2>6. CASE at + 4 > n
    <3>1. f[at] = {}
      BY <1>3, <2>4, <2>6
    <3>2. f[start + off[k + 1]] = {}
      <4>1. (start + off[k + 1]) + 4 > n
        <5> DEFINE p == start + off[k + 1]
        <5>1. p \in Nat /\ p >= at
          BY <2>4
        <5> HIDE DEF p
        <5>2. p + 4 > n
          BY <1>1, <2>4, <2>6, <5>1
        <5> QED BY <5>2 DEF p
      <4> QED BY <1>3, <2>4, <4>1
    <3>3. ~(at + 4 <= n)
      BY <1>1, <2>4, <2>6
    <3>4. HeadersIn(b, start, es, off, k) = HeadersIn(b, start, es, off, k + 1)
      BY <2>5, <3>3, Zenon DEF HeadersIn, n, N, at
    <3>5. HeadersFrom(b, start, es, off, k) = HeadersFrom(b, start, es, off, k + 1)
      BY <3>4 DEF HeadersFrom
    <3>6. f[start + off[k]] = HeadersFrom(b, start, es, off, k)
      BY <2>2, <3>1, <3>2, <3>5 DEF at
    <3> QED BY <2>1, <2>8, <3>6
  <2>7. CASE ~(at + 4 > n)
    <3>1. at + 4 <= n
      BY <1>1, <2>4, <2>7
    <3>2. Header(b, at) = HeaderOf(es[k], at) /\ U16(b, at + 2) = Len(es[k].body)
      <4>1. k \in 1 .. Len(es) /\ start + off[k] + 4 <= Len(b)
        BY <2>1, <3>1 DEF n, N, at
      <4> QED BY <4>1, HeaderIsRead DEF at
    <3>3. f[at] = {HeaderOf(es[k], at)} \cup f[start + off[k + 1]]
      BY <1>3, <2>4, <2>7, <3>2
    <3>4. HeadersIn(b, start, es, off, k) = {k} \cup HeadersIn(b, start, es, off, k + 1)
      BY <2>5, <3>1, Zenon DEF HeadersIn, n, N, at
    <3>5. HeadersFrom(b, start, es, off, k) = {HeaderOf(es[k], at)} \cup HeadersFrom(b, start, es, off, k + 1)
      BY <3>4 DEF HeadersFrom, at
    <3>6. f[start + off[k]] = HeadersFrom(b, start, es, off, k)
      BY <2>2, <3>3, <3>5 DEF at
    <3> QED BY <2>1, <2>8, <3>6
  <2> QED BY <2>6, <2>7
<1> HIDE DEF G
<1>6. 0 .. N \subseteq G
  BY <1>1, <1>4, <1>5, InductiveUpTo
<1>7. N \in G /\ N + 1 - N = 1
  BY <1>1, <1>6
<1>8. f[start + off[1]] = HeadersFrom(b, start, es, off, 1)
  BY <1>7 DEF G
<1>9. start + off[1] = start
  BY <1>1, <1>2
<1> QED BY <1>8, <1>9

-----------------------------------------------------------------------------
(* The profile. *)

\* Two bytes that are read as "h2" are those of its letters.
LEMMA PairIsRead ==
  \A s \in Seq(Byte), j \in Nat :
    1 <= j /\ j + 1 <= Len(s) =>
      (256 * s[j] + s[j + 1] = 256 * 104 + 50 <=> SubSeq(s, j, j + 1) = <<104, 50>>)
<1> SUFFICES ASSUME NEW s \in Seq(Byte), NEW j \in Nat, 1 <= j, j + 1 <= Len(s)
             PROVE  256 * s[j] + s[j + 1] = 256 * 104 + 50 <=> SubSeq(s, j, j + 1) = <<104, 50>>
  OBVIOUS
<1> DEFINE p == s[j]
           q == s[j + 1]
           t == SubSeq(s, j, j + 1)
<1>1. p \in Byte /\ q \in Byte
  OBVIOUS
<1>2. t \in Seq(Byte) /\ Len(t) = 2 /\ t[1] = p /\ t[2] = q
  OBVIOUS
<1> HIDE DEF p, q, t
<1>3. t = <<104, 50>> <=> p = 104 /\ q = 50
  <2>1. t = << t[1], t[2] >>
    BY <1>2
  <2> QED BY <1>2, <2>1
<1>4. 256 * p + q = 256 * 104 + 50 <=> p = 104 /\ q = 50
  BY <1>1 DEF Byte
<1> QED BY <1>3, <1>4 DEF p, q, t

\* The extension says "h2" somewhere.
SaysH2(e) == \E j \in 1 .. Len(e.body) - 1 : SubSeq(e.body, j, j + 1) = <<104, 50>>

\* A body that b shows whole is read as it is.
LEMMA BodyIsRead ==
  ASSUME NEW b, NEW start, NEW es, ShowsBlock(b, start, es), NEW off, Layout(off, es),
         NEW i \in 1 .. Len(es), start + off[i] + 4 + Len(es[i].body) <= Len(b)
  PROVE  (\E k \in start + off[i] + 4 .. start + off[i] + 4 + Len(es[i].body) - 2 :
            U16(b, k) = 256 * 104 + 50)
         <=> SaysH2(es[i])
<1> DEFINE block == Block(es)
           s == es[i].body
           u == Len(s)
           o == off[i]
           at == start + o + 4
           l == Len(block)
           n == Len(b)
           H(k) == U16(b, k) = 256 * 104 + 50
           T(j) == SubSeq(s, j, j + 1) = <<104, 50>>
<1>1. /\ start \in Nat /\ n \in Nat /\ l \in Nat
      /\ \A j \in 1 .. l : start + j <= n => b[start + j] = block[j]
      /\ es \in Seq(ExtensionFields)
  BY DEF ShowsBlock
<1>2. es[i] \in ExtensionFields
  BY <1>1
<1>3. s \in Seq(Byte) /\ u \in Nat
  BY <1>2, FieldsParts
<1>4. o \in Nat /\ off[i + 1] = o + 4 + u /\ off[i + 1] <= l
      /\ \A j \in 1 .. u : block[o + 4 + j] = s[j]
  <2>1. o \in Nat
    BY <1>1, ExtensionFits
  <2> HIDE DEF s, u, o, l, n, block
  <2>2. off[i + 1] = o + 4 + u /\ off[i + 1] <= l /\ ExtensionLies(block, o, es[i])
    BY Zenon DEF Layout, s, u, o, l, block
  <2> QED BY <2>1, <2>2, Zenon DEF ExtensionLies, s, u
<1> HIDE DEF s, u, o, l, n, block
<1>5. o + 4 + u <= l /\ at + u <= n /\ at \in Nat
  BY <1>1, <1>3, <1>4 DEF s, u, o, n
<1>6. ASSUME NEW j \in 1 .. u PROVE b[at + j] = s[j]
  <2>1. o + 4 + j \in 1 .. l /\ start + (o + 4 + j) <= n /\ start + (o + 4 + j) = at + j
    BY <1>1, <1>3, <1>4, <1>5
  <2>2. b[start + (o + 4 + j)] = block[o + 4 + j]
    BY <1>1, <2>1
  <2> QED BY <1>4, <2>1, <2>2
<1>7. ASSUME NEW j \in 1 .. u - 1 PROVE H(at + (j - 1)) <=> T(j)
  <2>1. j \in 1 .. u /\ j + 1 \in 1 .. u /\ (at + (j - 1)) + 1 = at + j
        /\ at + j + 1 = at + (j + 1) /\ 1 <= j /\ j + 1 <= u /\ j \in Nat
    BY <1>3, <1>5
  <2>2. U16(b, at + (j - 1)) = 256 * b[at + j] + b[at + j + 1]
    BY <2>1, Zenon DEF U16, At
  <2>3. U16(b, at + (j - 1)) = 256 * s[j] + s[j + 1]
    BY <1>6, <2>1, <2>2
  <2>4. 256 * s[j] + s[j + 1] = 256 * 104 + 50 <=> T(j)
    BY <1>3, <2>1, PairIsRead DEF u
  <2> QED BY <2>3, <2>4
<1> HIDE DEF H, T
<1>8. ASSUME NEW k \in at .. at + u - 2, H(k) PROVE \E j \in 1 .. u - 1 : T(j)
  <2> DEFINE j == k - at + 1
  <2>1. j \in 1 .. u - 1 /\ at + (j - 1) = k
    BY <1>3, <1>5
  <2> HIDE DEF j
  <2> QED BY <1>7, <1>8, <2>1
<1>9. ASSUME NEW j \in 1 .. u - 1, T(j) PROVE \E k \in at .. at + u - 2 : H(k)
  <2>1. at + (j - 1) \in at .. at + u - 2
    BY <1>3, <1>5
  <2> QED BY <1>7, <1>9, <2>1
<1>10. (\E k \in at .. at + u - 2 : H(k)) <=> \E j \in 1 .. u - 1 : T(j)
  BY <1>8, <1>9
<1> QED BY <1>10, Zenon DEF SaysH2, H, T, at, u, s, o

\* What is found of h's extensions when n bytes have arrived.
Arrives(h, n, found) ==
  LET start == FieldsEnd(h) + 2
  IN  /\ n < start => found = {}
      /\ n >= start =>
           /\ ShowsBlock(Peeked(h, n), start, h.extensions)
           /\ \E off : /\ Layout(off, h.extensions)
                       /\ found = HeadersFrom(Peeked(h, n), start, h.extensions, off, 1)

\* The profile when found has been found.
ProfileWith(h, n, found) ==
  [has_grease |-> HasGrease(h.ciphers, found),
   cipher_count |-> Len(h.ciphers),
   offers_h2 |-> OffersH2(Peeked(h, n), found, n),
   has_sni |-> \E e \in found : e.type = 0,
   primary_ciphers |-> Primary(h.ciphers)]

\* A profile has the ciphers of the hello, and what has been found of its extensions.
LEMMA ProfileIsOfHello ==
  ASSUME NEW h \in Hello, NEW n \in 1 .. Len(Encode(h)), n > CiphersEnd(h)
  PROVE  \E found : /\ Arrives(h, n, found)
                    /\ ProfileAt(Peeked(h, n), 46 + h.session, 2 * Len(h.ciphers), FieldsEnd(h))
                         = ProfileWith(h, n, found)
<1> DEFINE b == Peeked(h, n)
           w == Encode(h)
           y == FieldsEnd(h)
           es == h.extensions
           block == Block(es)
           c == 46 + h.session
           k == 2 * Len(h.ciphers)
           ciphers == [i \in 1 .. k \div 2 |-> U16(b, c + 2 * (i - 1))]
           has_block == Len(b) >= y + 2
           block_end == y + 2 + U16(b, y)
           end == IF block_end < Len(b) THEN block_end ELSE Len(b)
           found == IF has_block THEN ExtensionsAt(b, y + 2, end) ELSE {}
<1>1. /\ n \in Nat /\ Len(b) = n /\ b \in Seq(Byte) /\ \A i \in 1 .. n : b[i] = w[i]
  BY PeekedParts
<1>2. /\ es \in Seq(ExtensionFields) /\ Len(block) \in Word
  BY HelloParts
<1>3. y \in Nat
  BY FieldsFit
<1>4. k \div 2 = Len(h.ciphers) /\ ciphers = h.ciphers
  BY CiphersAreRead
<1>5. ProfileAt(b, c, k, y) =
        [has_grease |-> HasGrease(ciphers, found),
         cipher_count |-> k \div 2,
         offers_h2 |-> OffersH2(b, found, end),
         has_sni |-> \E e \in found : e.type = 0,
         primary_ciphers |-> Primary(ciphers)]
  BY Zenon DEF ProfileAt
<1>6. BlockLies(h, w)
  BY EncodedFieldsLie
<1> HIDE DEF b, w, y, es, block, c, k, ciphers
<1> HIDE DEF has_block, end, found
<1>7. CASE n < y + 2
  <2>1. ~has_block
    BY <1>1, <1>3, <1>7 DEF has_block
  <2>2. found = {}
    BY <2>1 DEF found
  <2>3. Arrives(h, n, found)
    <3>1. ~(n >= y + 2)
      BY <1>1, <1>3, <1>7
    <3> QED BY <1>7, <2>2, <3>1, Zenon DEF Arrives, y
  <2>4. OffersH2(b, found, end) = OffersH2(b, found, n)
    BY <2>2 DEF OffersH2
  <2> QED BY <1>4, <1>5, <2>3, <2>4, Zenon DEF ProfileWith, b, c, k, y
<1>8. CASE ~(n < y + 2)
  <2>1. n >= y + 2 /\ n > y /\ y + 2 \in Nat
    BY <1>1, <1>3, <1>8
  <2>2. n <= Len(w) /\ Len(w) \in Nat
    <3>1. n \in 1 .. Len(w) /\ w \in Seq(Byte)
      BY EncodedFieldsLie DEF w, FieldsLie
    <3> QED BY <3>1
  <2>3. /\ block \in Seq(Byte) /\ Len(w) = y + 2 + Len(block)
        /\ w[y + 1] = Len(block) \div 256 /\ w[y + 2] = Len(block) % 256
        /\ \A j \in 1 .. Len(block) : w[y + 2 + j] = block[j]
    <3>1. block # << >>
      <4> SUFFICES ASSUME block = << >> PROVE FALSE
        OBVIOUS
      <4>1. Len(w) = y
        BY <1>6, Zenon DEF BlockLies, block, es, y
      <4> QED BY <1>1, <1>3, <2>1, <2>2, <4>1
    <3> QED BY <1>6, <3>1, Zenon DEF BlockLies, block, es, y
  <2>4. U16(b, y) = Len(block)
    <3>1. y + 1 \in 1 .. n /\ y + 2 \in 1 .. n
      BY <1>1, <1>3, <2>1
    <3>2. b[y + 1] = Len(block) \div 256 /\ b[y + 2] = Len(block) % 256
      BY <1>1, <2>3, <3>1, Zenon
    <3> QED BY <1>2, <1>3, <3>2, WordIsRead
  <2>5. end = n
    <3>1. ~(block_end < Len(b))
      BY <1>1, <1>3, <2>2, <2>3, <2>4
    <3>2. end = Len(b)
      BY <3>1, Zenon DEF end
    <3> QED BY <1>1, <3>2
  <2>6. found = ExtensionsAt(b, y + 2, n)
    <3>1. has_block
      BY <1>1, <2>1 DEF has_block
    <3> QED BY <2>5, <3>1, Zenon DEF found
  <2> HIDE DEF block_end
  <2>7. ShowsBlock(b, y + 2, es)
    <3>1. Len(b) <= (y + 2) + Len(block)
      BY <1>1, <2>2, <2>3
    <3>2. ASSUME NEW j \in 1 .. Len(block), (y + 2) + j <= Len(b) PROVE b[(y + 2) + j] = block[j]
      <4>1. (y + 2) + j \in 1 .. n
        BY <1>1, <1>3, <2>3, <3>2
      <4>2. b[(y + 2) + j] = w[(y + 2) + j]
        BY <1>1, <4>1, Zenon
      <4> QED BY <2>3, <4>2, Zenon
    <3> QED BY <1>1, <1>2, <2>1, <2>3, <3>1, <3>2, Zenon DEF ShowsBlock, block
  <2>8. PICK off : Layout(off, es)
    BY <1>2, BlocksAreLaidOut DEF IsLaidOut
  <2>9. PICK f : Walks(f, b, n) /\ ExtensionsAt(b, y + 2, n) = f[y + 2]
    <3>1. n <= Len(b)
      BY <1>1
    <3> QED BY <1>1, <3>1, ExtensionsAreWalked
  <2>10. f[y + 2] = HeadersFrom(b, y + 2, es, off, 1)
    <3>1. Walks(f, b, Len(b))
      BY <1>1, <2>9
    <3> QED BY <2>7, <2>8, <3>1, ShownAreFound
  <2>11. Arrives(h, n, found)
    <3>1. found = HeadersFrom(b, y + 2, es, off, 1)
      BY <2>6, <2>9, <2>10
    <3>2. \E off_ : /\ Layout(off_, es) /\ found = HeadersFrom(b, y + 2, es, off_, 1)
      BY <2>8, <3>1
    <3> QED BY <1>8, <2>7, <3>2, Zenon DEF Arrives, y, b, es
  <2>12. OffersH2(b, found, end) = OffersH2(b, found, n)
    BY <2>5
  <2> QED BY <1>4, <1>5, <2>11, <2>12, Zenon DEF ProfileWith, b, c, k, y
<1> QED BY <1>7, <1>8

\* Nothing is found that the client did not send.
LEMMA FoundIsSent ==
  ASSUME NEW h \in Hello, NEW n \in 1 .. Len(Encode(h)), NEW found, Arrives(h, n, found)
  PROVE  /\ \A e \in found : \E i \in 1 .. Len(h.extensions) : e.type = h.extensions[i].type
         /\ OffersH2(Peeked(h, n), found, n) =>
              \E i \in 1 .. Len(h.extensions) :
                h.extensions[i].type = 16 /\ SaysH2(h.extensions[i])
<1> DEFINE b == Peeked(h, n)
           start == FieldsEnd(h) + 2
           es == h.extensions
<1>1. n \in Nat /\ Len(b) = n /\ FieldsEnd(h) \in Nat
  BY FieldsFit, PeekedParts
<1>2. /\ n < start => found = {}
      /\ n >= start => /\ ShowsBlock(b, start, es)
                       /\ \E off : Layout(off, es) /\ found = HeadersFrom(b, start, es, off, 1)
  BY Zenon DEF Arrives
<1>3. start \in Nat
  BY <1>1
<1> HIDE DEF b, start, es
<1>4. CASE n < start
  BY <1>2, <1>4 DEF OffersH2
<1>5. CASE n >= start
  <2>1. ShowsBlock(b, start, es)
    BY <1>2, <1>5
  <2>2. PICK off : Layout(off, es) /\ found = HeadersFrom(b, start, es, off, 1)
    BY <1>2, <1>5
  <2>3. ASSUME NEW e \in found
        PROVE  \E i \in 1 .. Len(es) : e = HeaderOf(es[i], start + off[i])
    BY <2>2 DEF HeadersFrom, HeadersIn
  <2>4. \A e \in found : \E i \in 1 .. Len(es) : e.type = es[i].type
    BY <2>3 DEF HeaderOf
  <2>5. ASSUME OffersH2(b, found, n)
        PROVE  \E i \in 1 .. Len(es) : es[i].type = 16 /\ SaysH2(es[i])
    <3>1. PICK e \in found : /\ e.type = 16 /\ e.body + e.len <= n
                             /\ \E k \in e.body .. e.body + e.len - 2 : U16(b, k) = 256 * 104 + 50
      BY <2>5, Zenon DEF OffersH2
    <3>2. PICK i \in 1 .. Len(es) : e = HeaderOf(es[i], start + off[i])
      BY <2>3
    <3>3. e.type = es[i].type /\ e.body = start + off[i] + 4 /\ e.len = Len(es[i].body)
      BY <3>2 DEF HeaderOf
    <3>4. /\ start + off[i] + 4 + Len(es[i].body) <= Len(b)
          /\ \E k \in start + off[i] + 4 .. start + off[i] + 4 + Len(es[i].body) - 2 :
               U16(b, k) = 256 * 104 + 50
      BY <1>1, <3>1, <3>3, Zenon
    <3>5. SaysH2(es[i])
      BY <2>1, <2>2, <3>4, BodyIsRead
    <3> QED BY <3>1, <3>3, <3>5
  <2> QED BY <2>4, <2>5 DEF es, b
<1> QED BY <1>1, <1>3, <1>4, <1>5

\* Of a hello that has arrived whole, everything is found.
LEMMA SentIsFound ==
  ASSUME NEW h \in Hello, NEW found, Arrives(h, Len(Encode(h)), found),
         NEW i \in 1 .. Len(h.extensions)
  PROVE  /\ \E e \in found : e.type = h.extensions[i].type
         /\ h.extensions[i].type = 16 /\ SaysH2(h.extensions[i])
              => OffersH2(Peeked(h, Len(Encode(h))), found, Len(Encode(h)))
<1> DEFINE w == Encode(h)
           n == Len(w)
           b == Peeked(h, n)
           y == FieldsEnd(h)
           start == y + 2
           es == h.extensions
           block == Block(es)
<1>1. /\ n \in 1 .. n /\ n \in Nat /\ y \in Nat /\ es \in Seq(ExtensionFields)
  <2>1. n \in Nat /\ y \in Nat /\ y <= n /\ n >= 1
    <3>1. CiphersEnd(h) \in Nat
      BY FieldsFit
    <3> HIDE DEF n, y
    <3> QED BY <3>1, FieldsFit DEF n, y, w
  <2> HIDE DEF n, y
  <2> QED BY <2>1, HelloParts
<1>2. Len(b) = n
  BY <1>1, PeekedParts
<1>3. BlockLies(h, w)
  BY EncodedFieldsLie
<1>4. /\ n < start => found = {}
      /\ n >= start => /\ ShowsBlock(b, start, es)
                       /\ \E off : Layout(off, es) /\ found = HeadersFrom(b, start, es, off, 1)
  BY Zenon DEF Arrives
<1>5. PICK o : Layout(o, es)
  BY <1>1, BlocksAreLaidOut DEF IsLaidOut
<1> HIDE DEF w, n, b, y, es
<1>6. i \in 1 .. Len(es) /\ Len(es) \in Nat
  BY <1>1 DEF es
<1>7. block # << >>
  <2> SUFFICES ASSUME block = << >> PROVE FALSE
    OBVIOUS
  <2>1. Len(block) = 0
    OBVIOUS
  <2>2. o[i] \in Nat /\ Len(es[i].body) \in Nat /\ o[i] + 4 + Len(es[i].body) <= Len(block)
    BY <1>1, <1>5, <1>6, ExtensionFits
  <2> QED BY <2>1, <2>2
<1>8. n = start + Len(block) /\ block \in Seq(Byte)
  BY <1>3, <1>7, Zenon DEF BlockLies, block, es, y, n
<1> HIDE DEF block
<1>9. n >= start
  BY <1>1, <1>8
<1>10. ShowsBlock(b, start, es)
  BY <1>4, <1>9
<1>11. PICK off : Layout(off, es) /\ found = HeadersFrom(b, start, es, off, 1)
  BY <1>4, <1>9
<1> DEFINE u == Len(es[i].body)
           at == start + off[i]
           e == HeaderOf(es[i], at)
<1>12. u \in Nat
  <2>1. es[i] \in ExtensionFields
    BY <1>1, <1>6
  <2> QED BY <2>1, FieldsParts
<1>13. at + 4 + u <= n /\ at + 4 <= n
  <2>1. off[i] \in Nat /\ off[i] + 4 + u <= Len(block)
    BY <1>1, <1>6, <1>11, ExtensionFits DEF block
  <2> DEFINE p == off[i]
             m == Len(block)
  <2>2. m \in Nat /\ n = start + m /\ start \in Nat
    BY <1>1, <1>8
  <2>3. p \in Nat /\ p + 4 + u <= m /\ u \in Nat /\ at = start + p
    BY <1>12, <2>1
  <2> HIDE DEF u, p, m, at, start
  <2> QED BY <2>2, <2>3
<1>14. e \in found
  <2>1. i \in HeadersIn(b, start, es, off, 1)
    BY <1>2, <1>6, <1>13 DEF HeadersIn
  <2> QED BY <1>11, <2>1 DEF HeadersFrom
<1>15. e.type = es[i].type /\ e.body = at + 4 /\ e.len = u
  BY DEF HeaderOf
<1>16. ASSUME es[i].type = 16, SaysH2(es[i]) PROVE OffersH2(b, found, n)
  <2>1. at + 4 + u <= Len(b)
    BY <1>2, <1>13
  <2>2. \E k \in at + 4 .. at + 4 + u - 2 : U16(b, k) = 256 * 104 + 50
    BY <1>6, <1>10, <1>11, <1>16, <2>1, BodyIsRead
  <2> HIDE DEF e, u, at
  <2> QED BY <1>13, <1>14, <1>15, <1>16, <2>2, Zenon DEF OffersH2
<1>17. \E e_ \in found : e_.type = es[i].type
  BY <1>14, <1>15
<1> HIDE DEF e, u, at
<1> QED BY <1>16, <1>17, Zenon DEF es, b, n, w

-----------------------------------------------------------------------------
(* The requests of a connection. *)

\* What has been read is what the code makes of the bytes that had arrived, and a request
\* is only judged by it.
HelloInvariant ==
  /\ hello \in Hello
  /\ arrived \in 0 .. Len(Encode(hello))
  /\ profile = IF arrived = 0 THEN {} ELSE ParseClientHello(Peeked(hello, arrived))
  /\ verdict = "spoofed" => \E p \in profile, words \in Claims : Spoofed(p, words)

\* The invariant holds of every behaviour.
LEMMA HelloSafe == HelloSpec => []HelloInvariant
<1>1. HelloInit => HelloInvariant
  <2> SUFFICES ASSUME HelloInit PROVE HelloInvariant
    OBVIOUS
  <2>1. Len(Encode(hello)) \in Nat
    BY FieldsFit DEF HelloInit
  <2> QED BY <2>1 DEF HelloInit, HelloInvariant
<1>2. HelloInvariant /\ [HelloNext]_helloVars => HelloInvariant'
  <2> SUFFICES ASSUME HelloInvariant, [HelloNext]_helloVars PROVE HelloInvariant'
    OBVIOUS
  <2>1. ASSUME NEW n \in 1 .. Len(Encode(hello)), Peek(n) PROVE HelloInvariant'
    <3>1. /\ hello' = hello /\ verdict' = verdict /\ arrived' = n
          /\ profile' = ParseClientHello(Peeked(hello, n))
      BY <2>1 DEF Peek, Peeked
    <3>2. verdict # "spoofed"
      BY <2>1 DEF Peek, HelloInvariant
    <3>3. n \in 0 .. Len(Encode(hello)) /\ n # 0
      BY FieldsFit DEF HelloInvariant
    <3> QED BY <3>1, <3>2, <3>3 DEF HelloInvariant
  <2>2. ASSUME NEW words \in Claims, Judge(words) PROVE HelloInvariant'
    BY <2>2 DEF Judge, HelloInvariant
  <2>3. CASE UNCHANGED helloVars
    BY <2>3 DEF helloVars, HelloInvariant
  <2> QED BY <2>1, <2>2, <2>3 DEF HelloNext
<1> QED BY <1>1, <1>2, PTL DEF HelloSpec

\* A profile is that of the hello, with some of its extensions.
LEMMA ProfilesAreOfHello ==
  ASSUME HelloInvariant, NEW p \in profile
  PROVE  /\ arrived \in 1 .. Len(Encode(hello))
         /\ \E found : Arrives(hello, arrived, found) /\ p = ProfileWith(hello, arrived, found)
<1>1. hello \in Hello /\ arrived \in 0 .. Len(Encode(hello)) /\ arrived # 0
      /\ profile = ParseClientHello(Peeked(hello, arrived))
  BY DEF HelloInvariant
<1>2. arrived \in 1 .. Len(Encode(hello))
  BY <1>1
<1>3. arrived > CiphersEnd(hello)
      /\ p = ProfileAt(Peeked(hello, arrived), 46 + hello.session, 2 * Len(hello.ciphers),
                       FieldsEnd(hello))
  <2>1. profile =
          IF arrived > CiphersEnd(hello)
            THEN {ProfileAt(Peeked(hello, arrived), 46 + hello.session,
                            2 * Len(hello.ciphers), FieldsEnd(hello))}
            ELSE {}
    BY <1>1, <1>2, ParsedBehindCiphers
  <2> QED BY <2>1
<1> QED BY <1>1, <1>2, <1>3, ProfileIsOfHello

\* A browser's request is never judged spoofed for what had not arrived of its hello.
THEOREM BrowsersAreCoherent == HelloSpec => []BrowserNeverCondemned
<1>1. HelloInvariant => BrowserNeverCondemned
  <2> SUFFICES ASSUME HelloInvariant, Len(hello.ciphers) >= 10,
                      \E i \in DOMAIN hello.ciphers : IsGrease(hello.ciphers[i]),
                      verdict = "spoofed"
               PROVE  FALSE
    BY DEF BrowserNeverCondemned
  <2>1. PICK p \in profile, words \in Claims : Spoofed(p, words)
    BY DEF HelloInvariant
  <2>2. PICK found : p = ProfileWith(hello, arrived, found)
    BY ProfilesAreOfHello
  <2>3. p.has_grease /\ p.cipher_count = Len(hello.ciphers)
    BY <2>2 DEF ProfileWith, HasGrease
  <2>4. Len(hello.ciphers) \in Nat
    BY HelloParts DEF HelloInvariant
  <2>5. ~(p.cipher_count < 10)
    BY <2>3, <2>4
  <2> QED BY <2>1, <2>3, <2>5 DEF Spoofed
<1> QED BY <1>1, HelloSafe, PTL

\* What there is to know of a hello, told by the indices of its lists.
LEMMA TrueProfileTells ==
  ASSUME NEW h
  PROVE  TrueProfile(h) =
           [has_grease |-> \/ \E i \in DOMAIN h.ciphers : IsGrease(h.ciphers[i])
                           \/ \E i \in DOMAIN h.extensions : IsGrease(h.extensions[i].type),
            cipher_count |-> Len(h.ciphers),
            offers_h2 |-> \E i \in DOMAIN h.extensions :
                            h.extensions[i].type = 16 /\ SaysH2(h.extensions[i]),
            has_sni |-> \E i \in DOMAIN h.extensions : h.extensions[i].type = 0,
            primary_ciphers |-> Primary(h.ciphers)]
<1> DEFINE es == h.extensions
           types == {es[i].type : i \in DOMAIN es}
<1>1. (\E v \in ToSet(h.ciphers) \cup types : IsGrease(v))
        = (\/ \E i \in DOMAIN h.ciphers : IsGrease(h.ciphers[i])
           \/ \E i \in DOMAIN es : IsGrease(es[i].type))
  BY DEF ToSet
<1>2. (\E t \in types : t = 0) = (\E i \in DOMAIN es : es[i].type = 0)
  OBVIOUS
<1>3. TrueProfile(h) =
        [has_grease |-> \E v \in ToSet(h.ciphers) \cup types : IsGrease(v),
         cipher_count |-> Len(h.ciphers),
         offers_h2 |-> \E i \in DOMAIN es : es[i].type = 16 /\ SaysH2(es[i]),
         has_sni |-> \E t \in types : t = 0,
         primary_ciphers |-> Primary(h.ciphers)]
  BY Zenon DEF TrueProfile, SaysH2
<1> HIDE DEF types
<1> QED BY <1>1, <1>2, <1>3, Zenon

\* What is read of a hello that has arrived in part is never more than it offers.
THEOREM PeeksUnderstate == HelloSpec => []PrefixUnderstates
<1>1. HelloInvariant => PrefixUnderstates
  <2> SUFFICES ASSUME HelloInvariant, NEW p \in profile
               PROVE  LET truth == TrueProfile(hello)
                      IN  /\ p.cipher_count = truth.cipher_count
                          /\ p.primary_ciphers = truth.primary_ciphers
                          /\ p.has_grease => truth.has_grease
                          /\ p.offers_h2 => truth.offers_h2
                          /\ p.has_sni => truth.has_sni
    BY Zenon DEF PrefixUnderstates
  <2> DEFINE es == hello.extensions
             t == TrueProfile(hello)
  <2>1. hello \in Hello /\ arrived \in 1 .. Len(Encode(hello))
    BY ProfilesAreOfHello DEF HelloInvariant
  <2>2. PICK found : Arrives(hello, arrived, found) /\ p = ProfileWith(hello, arrived, found)
    BY ProfilesAreOfHello
  <2>3. /\ \A e \in found : \E i \in 1 .. Len(es) : e.type = es[i].type
        /\ OffersH2(Peeked(hello, arrived), found, arrived) =>
             \E i \in 1 .. Len(es) : es[i].type = 16 /\ SaysH2(es[i])
    BY <2>1, <2>2, FoundIsSent
  <2>4. DOMAIN es = 1 .. Len(es)
    BY <2>1, HelloParts
  <2>5. /\ t.cipher_count = Len(hello.ciphers) /\ t.primary_ciphers = Primary(hello.ciphers)
        /\ t.has_grease <=> \/ \E i \in DOMAIN hello.ciphers : IsGrease(hello.ciphers[i])
                            \/ \E i \in DOMAIN es : IsGrease(es[i].type)
        /\ t.offers_h2 <=> \E i \in DOMAIN es : es[i].type = 16 /\ SaysH2(es[i])
        /\ t.has_sni <=> \E i \in DOMAIN es : es[i].type = 0
    BY TrueProfileTells
  <2> HIDE DEF t, es
  <2>6. /\ p.cipher_count = Len(hello.ciphers) /\ p.primary_ciphers = Primary(hello.ciphers)
        /\ p.has_grease <=> \/ \E i \in DOMAIN hello.ciphers : IsGrease(hello.ciphers[i])
                            \/ \E e \in found : IsGrease(e.type)
        /\ p.offers_h2 <=> OffersH2(Peeked(hello, arrived), found, arrived)
        /\ p.has_sni <=> \E e \in found : e.type = 0
    BY <2>2 DEF ProfileWith, HasGrease
  <2>7. p.has_grease => t.has_grease
    BY <2>3, <2>4, <2>5, <2>6
  <2>8. p.offers_h2 => t.offers_h2
    BY <2>3, <2>4, <2>5, <2>6
  <2>9. p.has_sni => t.has_sni
    BY <2>3, <2>4, <2>5, <2>6
  <2> QED BY <2>5, <2>6, <2>7, <2>8, <2>9 DEF t
<1> QED BY <1>1, HelloSafe, PTL

\* A hello that has arrived whole is read as what the client sent.
THEOREM HellosAreRead == HelloSpec => []HelloIsRead
<1>1. HelloInvariant => HelloIsRead
  <2> SUFFICES ASSUME HelloInvariant, arrived = Len(Encode(hello))
               PROVE  profile = {TrueProfile(hello)}
    BY DEF HelloIsRead
  <2> DEFINE es == hello.extensions
             cs == hello.ciphers
             t == TrueProfile(hello)
             n == Len(Encode(hello))
  <2>1. hello \in Hello /\ n \in Nat /\ n > CiphersEnd(hello) /\ n # 0 /\ n \in 1 .. n
    <3>1. hello \in Hello
      BY DEF HelloInvariant
    <3> HIDE DEF n
    <3>2. n \in Nat /\ n > CiphersEnd(hello) /\ CiphersEnd(hello) \in Nat
      BY <3>1, FieldsFit DEF n
    <3> QED BY <3>1, <3>2
  <2>2. PICK p : profile = {p}
    <3>1. profile = ParseClientHello(Peeked(hello, n))
      BY <2>1 DEF HelloInvariant
    <3> QED BY <2>1, <3>1, ParsedBehindCiphers
  <2>3. PICK found : Arrives(hello, n, found) /\ p = ProfileWith(hello, n, found)
    BY <2>2, ProfilesAreOfHello
  <2>4. /\ \A e \in found : \E i \in 1 .. Len(es) : e.type = es[i].type
        /\ OffersH2(Peeked(hello, n), found, n) =>
             \E i \in 1 .. Len(es) : es[i].type = 16 /\ SaysH2(es[i])
    BY <2>1, <2>3, FoundIsSent
  <2>5. ASSUME NEW i \in 1 .. Len(es)
        PROVE  /\ \E e \in found : e.type = es[i].type
               /\ es[i].type = 16 /\ SaysH2(es[i]) => OffersH2(Peeked(hello, n), found, n)
    BY <2>1, <2>3, SentIsFound
  <2>6. DOMAIN es = 1 .. Len(es)
    BY <2>1, HelloParts
  <2>7. t = [has_grease |-> \/ \E i \in DOMAIN cs : IsGrease(cs[i])
                            \/ \E i \in DOMAIN es : IsGrease(es[i].type),
             cipher_count |-> Len(cs),
             offers_h2 |-> \E i \in DOMAIN es : es[i].type = 16 /\ SaysH2(es[i]),
             has_sni |-> \E i \in DOMAIN es : es[i].type = 0,
             primary_ciphers |-> Primary(cs)]
    BY TrueProfileTells, Zenon
  <2> HIDE DEF t, es, cs, n
  <2>8. HasGrease(cs, found) = (\/ \E i \in DOMAIN cs : IsGrease(cs[i])
                                \/ \E i \in DOMAIN es : IsGrease(es[i].type))
    BY <2>4, <2>5, <2>6 DEF HasGrease
  <2>9. OffersH2(Peeked(hello, n), found, n)
          = (\E i \in DOMAIN es : es[i].type = 16 /\ SaysH2(es[i]))
    <3>1. OffersH2(Peeked(hello, n), found, n)
            <=> \E i \in DOMAIN es : es[i].type = 16 /\ SaysH2(es[i])
      BY <2>4, <2>5, <2>6
    <3>2. OffersH2(Peeked(hello, n), found, n) \in BOOLEAN
      BY DEF OffersH2
    <3> QED BY <3>1, <3>2
  <2>10. (\E e \in found : e.type = 0) = (\E i \in DOMAIN es : es[i].type = 0)
    <3>1. ASSUME NEW e \in found, e.type = 0 PROVE \E i \in DOMAIN es : es[i].type = 0
      BY <2>4, <2>6, <3>1
    <3>2. ASSUME NEW i \in DOMAIN es, es[i].type = 0 PROVE \E e \in found : e.type = 0
      BY <2>5, <2>6, <3>2
    <3> QED BY <3>1, <3>2
  <2>11. p = t
    <3>1. p = [has_grease |-> HasGrease(cs, found), cipher_count |-> Len(cs),
               offers_h2 |-> OffersH2(Peeked(hello, n), found, n),
               has_sni |-> \E e \in found : e.type = 0,
               primary_ciphers |-> Primary(cs)]
      BY <2>3, Zenon DEF ProfileWith, cs
    <3> QED BY <2>7, <2>8, <2>9, <2>10, <3>1, Zenon
  <2> QED BY <2>2, <2>11 DEF t
<1> QED BY <1>1, HelloSafe, PTL
=============================================================================
