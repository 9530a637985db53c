---------------------------- MODULE ProxyProofs ----------------------------
(* What ProxyRequests, and the two components it composes, keep invariant. *)
EXTENDS ProxyRequests, SequenceFacts, FiniteSetTheorems, SequenceTheorems

-----------------------------------------------------------------------------
(* The telemetry ring. *)

RingInv == RingTypeOK /\ RingIsNewest

\* One record: the window slides by one or grows by one.
LEMMA RingRecordStep ==
  ASSUME RingInv, NEW e \in Entry, RecordEntry(e)
  PROVE  RingInv'
<1>1. /\ ring \in Seq(Entry) /\ log \in Seq(Entry)
      /\ ring' = Push(ring, e) /\ log' = Append(log, e)
      /\ Capacity \in Nat /\ Window \in Nat \ {0}
  BY CapacityAssumption DEF RingInv, RingTypeOK, RecordEntry, Window
<1>2. /\ Len(ring) \in Nat /\ Len(log) \in Nat /\ Len(ring) <= Len(log)
      /\ Len(ring) = IF Len(log) < Window THEN Len(log) ELSE Window
      /\ \A i \in 1 .. Len(ring) : ring[i] = log[Len(log) - Len(ring) + i]
  <2>1. Len(ring) \in Nat /\ Len(log) \in Nat
    BY <1>1, LenProperties
  <2>2. /\ Len(ring) = IF Len(log) < Window THEN Len(log) ELSE Window
        /\ \A i \in 1 .. Len(ring) : ring[i] = log[Len(log) - Len(ring) + i]
    BY DEF RingInv, RingIsNewest
  <2>3. Window \in Nat /\ Len(ring) <= Len(log)
    BY <2>1, <2>2, <1>1
  <2> QED BY <2>1, <2>2, <2>3
<1>3. /\ log' \in Seq(Entry) /\ Len(log') = Len(log) + 1
      /\ \A i \in 1 .. Len(log) : log'[i] = log[i]
      /\ log'[Len(log) + 1] = e
  BY <1>1, AppendProperties
<1>4. ring # << >> <=> Len(ring) > 0
  BY <1>1, EmptySeq
<1>5. CASE Len(ring) >= Capacity /\ ring # << >>
  <2>1. /\ Tail(ring) \in Seq(Entry) /\ Len(Tail(ring)) = Len(ring) - 1
        /\ \A i \in 1 .. Len(ring) - 1 : Tail(ring)[i] = ring[i + 1]
    BY <1>1, <1>5, HeadTailProperties
  <2>2. /\ ring' \in Seq(Entry) /\ Len(ring') = Len(ring)
        /\ \A i \in 1 .. Len(ring) - 1 : ring'[i] = ring[i + 1]
        /\ ring'[Len(ring)] = e
    <3>1. ring' = Append(Tail(ring), e)
      BY <1>1, <1>5 DEF Push
    <3>2. Tail(ring) \in Seq(Entry) /\ e \in Entry
      BY <2>1, <1>1
    <3>3. /\ ring' \in Seq(Entry) /\ Len(ring') = Len(Tail(ring)) + 1
          /\ \A i \in 1 .. Len(Tail(ring)) : ring'[i] = Tail(ring)[i]
          /\ ring'[Len(Tail(ring)) + 1] = e
      BY <3>1, <3>2, AppendProperties
    <3>4. Len(Tail(ring)) = Len(ring) - 1 /\ Len(ring) \in Nat
      BY <2>1, <1>2
    <3>5. Len(ring') = Len(ring) /\ ring'[Len(ring)] = e
      BY <3>3, <3>4
    <3>6. \A i \in 1 .. Len(ring) - 1 : ring'[i] = ring[i + 1]
      BY <3>3, <3>4, <2>1
    <3> QED BY <3>3, <3>5, <3>6
  <2>3. Len(ring) = Window
    BY <1>2, <1>4, <1>5, CapacityAssumption DEF Window
  <2>4. Len(ring') = IF Len(log') < Window THEN Len(log') ELSE Window
    BY <2>2, <2>3, <1>2, <1>3
  <2>5. ASSUME NEW i \in 1 .. Len(ring')
        PROVE  ring'[i] = log'[Len(log') - Len(ring') + i]
    <3>0. /\ Len(ring') = Len(ring) /\ Len(log') = Len(log) + 1
          /\ Len(ring) \in Nat /\ Len(log) \in Nat /\ Len(ring) <= Len(log)
      BY <2>2, <1>2, <1>3
    <3>1. CASE i = Len(ring)
      <4>1. Len(log') - Len(ring') + i = Len(log) + 1
        BY <3>0, <3>1
      <4> QED BY <4>1, <3>1, <2>2, <1>3
    <3>2. CASE i # Len(ring)
      <4>1. i \in 1 .. Len(ring) - 1 /\ i + 1 \in 1 .. Len(ring)
        BY <3>0, <3>2
      <4>2. ring'[i] = log[Len(log) - Len(ring) + (i + 1)]
        BY <4>1, <2>2, <1>2
      <4>3. /\ Len(log) - Len(ring) + (i + 1) \in 1 .. Len(log)
            /\ Len(log') - Len(ring') + i = Len(log) - Len(ring) + (i + 1)
        BY <3>0, <4>1
      <4> QED BY <4>2, <4>3, <1>3
    <3> QED BY <3>1, <3>2
  <2> QED BY <1>3, <2>2, <2>4, <2>5 DEF RingInv, RingTypeOK, RingIsNewest, Window
<1>6. CASE ~(Len(ring) >= Capacity /\ ring # << >>)
  <2>1. /\ ring' \in Seq(Entry) /\ Len(ring') = Len(ring) + 1
        /\ \A i \in 1 .. Len(ring) : ring'[i] = ring[i]
        /\ ring'[Len(ring) + 1] = e
    <3>1. ring' = Append(ring, e)
      BY <1>1, <1>6 DEF Push
    <3>2. ring \in Seq(Entry) /\ e \in Entry
      BY <1>1
    <3> QED BY <3>1, <3>2, AppendProperties
  <2>2. Len(log) < Window /\ Len(ring) = Len(log)
    BY <1>2, <1>4, <1>6, CapacityAssumption DEF Window
  <2>3. Len(ring') = IF Len(log') < Window THEN Len(log') ELSE Window
    BY <2>1, <2>2, <1>1, <1>2, <1>3
  <2>4. ASSUME NEW i \in 1 .. Len(ring')
        PROVE  ring'[i] = log'[Len(log') - Len(ring') + i]
    <3>1. Len(log') - Len(ring') + i = i
      BY <2>1, <2>2, <1>2, <1>3
    <3>2. CASE i = Len(ring) + 1
      BY <3>1, <3>2, <2>1, <2>2, <1>3
    <3>3. CASE i \in 1 .. Len(ring)
      <4>1. ring'[i] = log[Len(log) - Len(ring) + i] /\ Len(log) - Len(ring) + i = i
        BY <3>3, <2>1, <2>2, <1>2
      <4> QED BY <4>1, <3>1, <3>3, <2>2, <1>3
    <3> QED BY <3>2, <3>3, <2>1, <1>2
  <2> QED BY <1>3, <2>1, <2>3, <2>4 DEF RingInv, RingTypeOK, RingIsNewest, Window
<1> QED BY <1>5, <1>6

LEMMA RingInvInit == ASSUME RingInit PROVE RingInv
<1>1. << >> \in Seq(Entry) /\ Len(<< >>) = 0
  BY EmptySeq
<1> QED BY <1>1, CapacityAssumption DEF RingInit, RingInv, RingTypeOK, RingIsNewest, Window

LEMMA RingInvUnchanged == ASSUME RingInv, UNCHANGED ringVars PROVE RingInv'
BY DEF RingInv, RingTypeOK, RingIsNewest, ringVars, Window

\* A telemetry buffer of any capacity, 0 included, is the window of the newest
\* records (telemetry.rs: record).
THEOREM RingKeepsNewest == RingSpec => []RingIsNewest
<1>1. RingInv /\ [RingNext]_ringVars => RingInv'
  BY RingRecordStep, RingInvUnchanged DEF RingNext
<1>2. RingInv => RingIsNewest
  BY DEF RingInv
<1> QED BY <1>1, <1>2, RingInvInit, PTL DEF RingSpec

\* What has been found when the newest records have been looked at from k on: as many of
\* the matching ones as may be returned, and the newest of them.
NewestFound(found, newest, most) ==
  /\ Len(found) = IF Cardinality(newest) < most THEN Cardinality(newest) ELSE most
  /\ \A i \in newest :
       LET newer == Cardinality({j \in newest : j > i})
       IN  newer < Len(found) => found[newer + 1] = log[i]

\* One record further back.
LEMMA OneRecordBack ==
  ASSUME NEW L \in Nat, NEW k \in 1 .. L, NEW newest \in SUBSET (k + 1 .. L),
         NEW most \in Nat, NEW found \in Seq(Entry), log[k] \in Entry,
         NewestFound(found, newest, most)
  PROVE  NewestFound(IF Len(found) < most THEN Append(found, log[k]) ELSE found,
                     newest \cup {k}, most)
<1> DEFINE c == Cardinality(newest)
           new == IF Len(found) < most THEN Append(found, log[k]) ELSE found
           all == newest \cup {k}
           newer(s, i) == Cardinality({j \in s : j > i})
<1>1. IsFiniteSet(newest) /\ k \notin newest /\ k \in Int /\ newest \subseteq Int
      /\ \A i \in newest : i > k
  <2>1. IsFiniteSet(k + 1 .. L)
    BY FS_Interval
  <2>2. IsFiniteSet(newest)
    BY <2>1, FS_Subset
  <2>3. \A i \in k + 1 .. L : i \in Int /\ i > k /\ k \in Int
    OBVIOUS
  <2>4. newest \subseteq k + 1 .. L
    OBVIOUS
  <2>5. newest \subseteq Int /\ \A i \in newest : i > k
    BY <2>3, <2>4
  <2>6. k \notin newest /\ k \in Int
    BY <2>5
  <2> QED BY <2>2, <2>5, <2>6
<1>2. c \in Nat /\ Cardinality(all) = c + 1
  BY <1>1, FS_CardinalityType, FS_AddElement
<1>3. {j \in all : j > k} = newest
  <2>1. \A j \in newest : j > k
    BY <1>1
  <2>2. ~(k > k)
    BY <1>1
  <2> QED BY <2>1, <2>2
<1>4. \A i \in newest : {j \in all : j > i} = {j \in newest : j > i}
  BY <1>1
<1>5. /\ Len(found) = IF c < most THEN c ELSE most
      /\ \A i \in newest : newer(newest, i) < Len(found) => found[newer(newest, i) + 1] = log[i]
  BY DEF NewestFound
<1>6. \A i \in newest : newer(newest, i) \in Nat /\ newer(newest, i) < c
  <2> SUFFICES ASSUME NEW i \in newest PROVE newer(newest, i) \in Nat /\ newer(newest, i) < c
    OBVIOUS
  <2>1. {j \in newest : j > i} \subseteq newest /\ i \notin {j \in newest : j > i}
    BY <1>1
  <2>2. {j \in newest : j > i} # newest
    BY <2>1
  <2> QED BY <1>1, <2>1, <2>2, FS_Subset, FS_CardinalityType
<1> HIDE DEF c, all
<1>7. Len(new) = IF Cardinality(all) < most THEN Cardinality(all) ELSE most
  BY <1>2, <1>5
<1>8. ASSUME NEW i \in all, newer(all, i) < Len(new) PROVE new[newer(all, i) + 1] = log[i]
  <2>1. CASE i = k
    <3>1. newer(all, i) = c
      BY <1>3, <2>1 DEF c
    <3>2. Len(found) < most /\ Len(found) = c
      BY <1>2, <1>5, <1>8, <3>1
    <3>3. Append(found, log[k])[Len(found) + 1] = log[k]
      OBVIOUS
    <3> QED BY <2>1, <3>1, <3>2, <3>3
  <2>2. CASE i # k
    <3>1. i \in newest
      BY <2>2 DEF all
    <3>2. newer(all, i) = newer(newest, i) /\ newer(newest, i) \in Nat /\ newer(newest, i) < c
      BY <1>4, <1>6, <3>1
    <3> DEFINE x == newer(newest, i)
    <3>3. x < Len(found)
      BY <1>2, <1>5, <1>7, <1>8, <3>2
    <3>4. found[x + 1] = log[i]
      BY <1>5, <3>1, <3>3
    <3>5. x \in Nat /\ newer(all, i) = x
      BY <3>2
    <3> HIDE DEF x
    <3>6. new[x + 1] = found[x + 1]
      BY <3>3, <3>5
    <3> QED BY <3>4, <3>5, <3>6
  <2> QED BY <2>1, <2>2
<1> QED BY <1>7, <1>8 DEF NewestFound, all

\* What a query answers.
LEMMA QueryIsNewest ==
  ASSUME RingInv, NEW matching, NEW limit \in Nat
  PROVE  LET most == IF limit = 0 THEN 50 ELSE limit
         IN  NewestFound(QueryRing(ring, matching, limit), Hits(matching), most)
<1> DEFINE most == IF limit = 0 THEN 50 ELSE limit
           n == Len(ring)
           L == Len(log)
           D == Seq(Entry)
           back == Reverse(ring)
           Look(found, i) == IF back[i] \in matching /\ Len(found) < most
                               THEN Append(found, back[i]) ELSE found
           none == << >>
           step == [i \in 1 .. n |-> [found \in D |-> Look(found, i)]]
           it == CHOOSE g : g = [s \in SUBSET DOMAIN back |->
                   IF s = {} THEN none ELSE Look(g[s \ {Max(s)}], Max(s))]
           Newest(m) == {i \in L - m + 1 .. L : log[i] \in matching}
<1>1. /\ ring \in Seq(Entry) /\ log \in Seq(Entry) /\ n \in Nat /\ L \in Nat
      /\ n = IF L < Window THEN L ELSE Window
      /\ \A i \in 1 .. n : ring[i] = log[L - n + i]
      /\ Window \in Nat /\ most \in Nat /\ most > 0
  <2>1. ring \in Seq(Entry) /\ log \in Seq(Entry) /\ Window \in Nat
    BY CapacityAssumption DEF RingInv, RingTypeOK, Window
  <2>2. n = IF L < Window THEN L ELSE Window
    BY DEF RingInv, RingIsNewest
  <2>3. \A i \in 1 .. n : ring[i] = log[L - n + i]
    BY DEF RingInv, RingIsNewest
  <2>4. n \in Nat /\ L \in Nat
    BY <2>1
  <2>5. most \in Nat /\ most > 0
    OBVIOUS
  <2> QED BY <2>1, <2>2, <2>3, <2>4, <2>5
<1>2. /\ DOMAIN back = 1 .. n /\ DOMAIN log = 1 .. L
      /\ \A i \in 1 .. n : back[i] = log[L + 1 - i] /\ back[i] \in Entry
  <2>1. back = [i \in 1 .. n |-> ring[(n - i) + 1]]
    BY Zenon DEF Reverse
  <2>2. \A i \in 1 .. n : (n - i) + 1 \in 1 .. n /\ L - n + ((n - i) + 1) = L + 1 - i
    <3> HIDE DEF n, L
    <3> SUFFICES ASSUME NEW i \in 1 .. n
                 PROVE  (n - i) + 1 \in 1 .. n /\ L - n + ((n - i) + 1) = L + 1 - i
      OBVIOUS
    <3>1. n \in Nat /\ L \in Nat
      BY <1>1
    <3> QED BY <3>1
  <2>3. DOMAIN log = 1 .. L /\ \A i \in 1 .. n : ring[i] \in Entry
    BY <1>1
  <2>4. \A i \in 1 .. n : ring[i] = log[L - n + i]
    BY <1>1
  <2> HIDE DEF back, n, L
  <2>5. DOMAIN back = 1 .. n
    BY <2>1
  <2>6. ASSUME NEW i \in 1 .. n PROVE back[i] = log[L + 1 - i] /\ back[i] \in Entry
    <3>1. back[i] = ring[(n - i) + 1]
      BY <2>1
    <3>2. ring[(n - i) + 1] = log[L + 1 - i]
      BY <2>2, <2>4
    <3> QED BY <2>2, <2>3, <3>1, <3>2
  <2> QED BY <2>3, <2>5, <2>6
<1>3. QueryRing(ring, matching, limit) = it[1 .. n]
  BY <1>2, Zenon DEF QueryRing, FoldLeft, MapThenFoldSet, none, most
<1> HIDE DEF most, n, L, back
<1>4. \A found \in D, i \in 1 .. n : Look(found, i) \in D
  BY <1>2
<1> HIDE DEF Look
<1>5. step \in [1 .. n -> [D -> D]]
  BY <1>4
<1>6. PICK g : IsFold(g, D, none, n, step)
  <2> HIDE DEF step
  <2>1. none \in D
    OBVIOUS
  <2> HIDE DEF D, none
  <2> QED BY <1>1, <1>5, <2>1, FoldExists, Zenon
<1>7. ASSUME NEW s \in SUBSET (1 .. n)
      PROVE  g[s] = IF s = {} THEN none ELSE Look(g[s \ {Max(s)}], Max(s))
  <2>1. CASE s = {}
    BY <1>6, <2>1 DEF IsFold
  <2>2. CASE s # {}
    <3>1. Max(s) \in 1 .. n
      BY <1>1, <2>2, MaxIsMember
    <3>2. g[s \ {Max(s)}] \in D
      BY <1>6 DEF IsFold
    <3>3. step[Max(s)][g[s \ {Max(s)}]] = Look(g[s \ {Max(s)}], Max(s))
      BY <3>1, <3>2
    <3> QED BY <1>6, <2>2, <3>3, Zenon DEF IsFold
  <2> QED BY <2>1, <2>2
<1>8. g = [s \in SUBSET DOMAIN back |-> IF s = {} THEN none ELSE Look(g[s \ {Max(s)}], Max(s))]
  BY <1>2, <1>6, <1>7 DEF IsFold
<1>9. it = [s \in SUBSET DOMAIN back |-> IF s = {} THEN none ELSE Look(it[s \ {Max(s)}], Max(s))]
  BY <1>8, Zenon
<1> HIDE DEF it, step
<1>10. it[1 .. 0] = none
  BY <1>2, <1>9
<1>11. ASSUME NEW m \in 0 .. n - 1 PROVE it[1 .. m + 1] = Look(it[1 .. m], m + 1)
  <2>1. m + 1 \in Nat \ {0} /\ 1 .. m + 1 \in SUBSET DOMAIN back /\ (m + 1) - 1 = m
    BY <1>1, <1>2
  <2>2. Max(1 .. m + 1) = m + 1 /\ (1 .. m + 1) \ {m + 1} = 1 .. m /\ 1 .. m + 1 # {}
    BY <2>1, MaxOfFirst
  <2>3. it[1 .. m + 1] = IF 1 .. m + 1 = {} THEN none
                         ELSE Look(it[(1 .. m + 1) \ {Max(1 .. m + 1)}], Max(1 .. m + 1))
    BY <1>9, <2>1
  <2> QED BY <2>2, <2>3
<1> DEFINE Holds(found, m) == found \in Seq(Entry) /\ NewestFound(found, Newest(m), most)
           G == {m \in Nat : Holds(it[1 .. m], m)}
<1>12. Holds(it[1 .. 0], 0)
  <2>1. Newest(0) = {}
    BY <1>1
  <2>2. NewestFound(none, {}, most)
    BY <1>1, FS_EmptySet DEF NewestFound
  <2>3. none \in Seq(Entry)
    OBVIOUS
  <2> HIDE DEF Newest, none
  <2> QED BY <1>10, <2>1, <2>2, <2>3
<1>13. ASSUME NEW m \in 0 .. n - 1, Holds(it[1 .. m], m) PROVE Holds(it[1 .. m + 1], m + 1)
  <2> DEFINE found == it[1 .. m]
             k == L - m
  <2>1. /\ k \in 1 .. L /\ m + 1 \in 1 .. n /\ L + 1 - (m + 1) = k
        /\ L - m + 1 = k + 1 /\ L - (m + 1) + 1 = k
    BY <1>1
  <2>2. /\ it[1 .. m + 1] = Look(found, m + 1) /\ back[m + 1] = log[k] /\ log[k] \in Entry
        /\ found \in Seq(Entry) /\ NewestFound(found, Newest(m), most)
    BY <1>2, <1>11, <1>13, <2>1
  <2>3. Newest(m) \in SUBSET (k + 1 .. L) /\ Newest(m + 1) = {i \in k .. L : log[i] \in matching}
    BY <2>1
  <2>4. Newest(m + 1) = IF log[k] \in matching THEN Newest(m) \cup {k} ELSE Newest(m)
    <3>1. \A i \in k .. L : i = k \/ i \in k + 1 .. L
      BY <2>1
    <3>2. k \in k .. L /\ \A i \in k + 1 .. L : i \in k .. L
      BY <1>1, <2>1
    <3>3. Newest(m) = {i \in k + 1 .. L : log[i] \in matching}
      BY <2>1
    <3> HIDE DEF Newest, k
    <3> QED BY <2>3, <3>1, <3>2, <3>3
  <2> HIDE DEF found, k, Newest
  <2>5. CASE log[k] \in matching
    <3>1. Look(found, m + 1) = IF Len(found) < most THEN Append(found, log[k]) ELSE found
      BY <2>2, <2>5 DEF Look
    <3>2. NewestFound(IF Len(found) < most THEN Append(found, log[k]) ELSE found,
                      Newest(m) \cup {k}, most)
      <4>1. most \in Nat /\ L \in Nat /\ k \in 1 .. L /\ Newest(m) \in SUBSET (k + 1 .. L)
        BY <1>1, <2>1, <2>3
      <4>2. log[k] \in Entry /\ found \in Seq(Entry) /\ NewestFound(found, Newest(m), most)
        BY <2>2
      <4> HIDE DEF Newest
      <4> QED BY <4>1, <4>2, OneRecordBack
    <3>3. Look(found, m + 1) \in Seq(Entry)
      <4>1. found \in Seq(Entry) /\ log[k] \in Entry
        BY <2>2
      <4>2. Append(found, log[k]) \in Seq(Entry)
        BY <4>1
      <4> QED BY <3>1, <4>1, <4>2, Zenon
    <3>4. Newest(m + 1) = Newest(m) \cup {k}
      BY <2>4, <2>5
    <3> QED BY <2>2, <3>1, <3>2, <3>3, <3>4
  <2>6. CASE log[k] \notin matching
    <3>1. Look(found, m + 1) = found /\ Newest(m + 1) = Newest(m)
      BY <2>2, <2>4, <2>6 DEF Look
    <3> QED BY <2>2, <3>1
  <2> QED BY <2>5, <2>6
<1> HIDE DEF Holds
<1>14. 0 \in G /\ \A m \in 0 .. n - 1 : m \in G => m + 1 \in G
  BY <1>1, <1>12, <1>13
<1> HIDE DEF G
<1>15. 0 .. n \subseteq G
  BY <1>1, <1>14, InductiveUpTo
<1>16. Holds(it[1 .. n], n)
  BY <1>1, <1>15 DEF G
<1>17. Newest(n) = Hits(matching)
  <2>1. \A i \in 1 .. L : i > L - Window <=> i \in L - n + 1 .. L
    BY <1>1
  <2>2. L - n + 1 .. L \subseteq 1 .. L
    BY <1>1
  <2> QED BY <1>2, <2>1, <2>2 DEF Hits, L
<1> HIDE DEF Newest
<1> QED BY <1>3, <1>16, <1>17 DEF Holds, most

LEMMA RingAnswersNewest == RingInv => QueriesAreNewest
<1> SUFFICES ASSUME RingInv, NEW matching \in SUBSET Entry, NEW limit \in 0 .. Capacity
             PROVE  LET most == IF limit = 0 THEN 50 ELSE limit
                    IN  NewestFound(QueryRing(ring, matching, limit), Hits(matching), most)
  BY DEF QueriesAreNewest, NewestFound
<1>1. limit \in Nat
  BY CapacityAssumption
<1> QED BY <1>1, QueryIsNewest

\* A query is answered with the newest records that match and are still kept, as many
\* as asked for, whatever the capacity, the filter and the limit (telemetry.rs: query).
THEOREM QueriesAnswerNewest == RingSpec => []QueriesAreNewest
<1>1. RingInv /\ [RingNext]_ringVars => RingInv'
  BY RingRecordStep, RingInvUnchanged DEF RingNext
<1> QED BY <1>1, RingAnswersNewest, RingInvInit, PTL DEF RingSpec

-----------------------------------------------------------------------------
(* The connection counters. *)

ConnInv == ConnTypeOK /\ CountersAgree

LiveIn(f) == {c \in Conn : f[c] \in Live}
SeenIn(f) == {c \in Conn : f[c] # "new"}

LEMMA CountsAreFinite ==
  ASSUME NEW f
  PROVE  /\ IsFiniteSet(LiveIn(f)) /\ Cardinality(LiveIn(f)) \in Nat
         /\ IsFiniteSet(SeenIn(f)) /\ Cardinality(SeenIn(f)) \in Nat
<1>1. LiveIn(f) \subseteq Conn /\ SeenIn(f) \subseteq Conn
  BY DEF LiveIn, SeenIn
<1> QED BY <1>1, ConnAssumption, FS_Subset, FS_CardinalityType

\* One connection moves: each count follows it.
LEMMA OneConnMoves ==
  ASSUME ConnTypeOK, NEW c \in Conn,
         NEW k \in {"new", "served", "closed"} \cup Live,
         conn' = [conn EXCEPT ![c] = k]
  PROVE  /\ k \in Live /\ conn[c] \notin Live
              => Cardinality(LiveIn(conn')) = Cardinality(LiveIn(conn)) + 1
         /\ k \notin Live /\ conn[c] \in Live
              => Cardinality(LiveIn(conn')) = Cardinality(LiveIn(conn)) - 1
         /\ (k \in Live <=> conn[c] \in Live) => LiveIn(conn') = LiveIn(conn)
         /\ k # "new" /\ conn[c] = "new"
              => Cardinality(SeenIn(conn')) = Cardinality(SeenIn(conn)) + 1
         /\ k # "new" /\ conn[c] # "new" => SeenIn(conn') = SeenIn(conn)
<1>1. conn \in [Conn -> {"new", "served", "closed"} \cup Live]
  BY DEF ConnTypeOK
<1>2. /\ IsFiniteSet(LiveIn(conn)) /\ Cardinality(LiveIn(conn)) \in Nat
      /\ IsFiniteSet(SeenIn(conn)) /\ Cardinality(SeenIn(conn)) \in Nat
  BY CountsAreFinite
<1>3. ASSUME k \in Live, conn[c] \notin Live
      PROVE  Cardinality(LiveIn(conn')) = Cardinality(LiveIn(conn)) + 1
  <2>1. LiveIn(conn') = LiveIn(conn) \cup {c} /\ c \notin LiveIn(conn)
    BY <1>1, <1>3 DEF LiveIn
  <2> QED BY <2>1, <1>2, FS_AddElement
<1>4. ASSUME k \notin Live, conn[c] \in Live
      PROVE  Cardinality(LiveIn(conn')) = Cardinality(LiveIn(conn)) - 1
  <2>1. LiveIn(conn') = LiveIn(conn) \ {c} /\ c \in LiveIn(conn)
    BY <1>1, <1>4 DEF LiveIn
  <2> QED BY <2>1, <1>2, FS_RemoveElement
<1>5. (k \in Live <=> conn[c] \in Live) => LiveIn(conn') = LiveIn(conn)
  BY <1>1 DEF LiveIn
<1>6. ASSUME k # "new", conn[c] = "new"
      PROVE  Cardinality(SeenIn(conn')) = Cardinality(SeenIn(conn)) + 1
  <2>1. SeenIn(conn') = SeenIn(conn) \cup {c} /\ c \notin SeenIn(conn)
    BY <1>1, <1>6 DEF SeenIn
  <2> QED BY <2>1, <1>2, FS_AddElement
<1>7. k # "new" /\ conn[c] # "new" => SeenIn(conn') = SeenIn(conn)
  BY <1>1 DEF SeenIn
<1> QED BY <1>3, <1>4, <1>5, <1>6, <1>7

LEMMA ConnInvInit == ASSUME ConnInit PROVE ConnInv
<1>1. LiveIn(conn) = {} /\ SeenIn(conn) = {}
  BY DEF ConnInit, LiveIn, SeenIn, Live
<1> QED BY <1>1, FS_EmptySet DEF ConnInit, ConnInv, ConnTypeOK, CountersAgree, LiveIn, SeenIn

LEMMA ConnInvUnchanged == ASSUME ConnInv, UNCHANGED connVars PROVE ConnInv'
BY DEF ConnInv, ConnTypeOK, CountersAgree, connVars, Live

LEMMA ConnInvStep ==
  ASSUME ConnInv, NEW c \in Conn, ConnStep(c)
  PROVE  ConnInv'
<1>1. /\ conn \in [Conn -> {"new", "served", "closed"} \cup Live]
      /\ served \in Nat /\ active \in Nat
      /\ active = Cardinality(LiveIn(conn)) /\ served = Cardinality(SeenIn(conn))
  BY DEF ConnInv, ConnTypeOK, CountersAgree, LiveIn, SeenIn
<1>2. SUFFICES /\ conn' \in [Conn -> {"new", "served", "closed"} \cup Live]
               /\ active' = Cardinality(LiveIn(conn')) /\ served' = Cardinality(SeenIn(conn'))
  BY CountsAreFinite DEF ConnInv, ConnTypeOK, CountersAgree, LiveIn, SeenIn, Live
<1>3. ConnTypeOK
  BY DEF ConnInv
<1>5. CASE AcceptServed(c)
  <2>1. conn' = [conn EXCEPT ![c] = "served"] /\ "served" \in {"new", "served", "closed"} \cup Live
    BY <1>5 DEF AcceptServed, Live
  <2>2. LiveIn(conn') = LiveIn(conn) /\ Cardinality(SeenIn(conn')) = Cardinality(SeenIn(conn)) + 1
    BY <2>1, <1>3, <1>5, OneConnMoves DEF AcceptServed, Live
  <2> QED BY <2>1, <2>2, <1>1, <1>5 DEF AcceptServed
<1>6. CASE AcceptActive(c)
  <2>1. conn' = [conn EXCEPT ![c] = "handshake"] /\ "handshake" \in {"new", "served", "closed"} \cup Live
    BY <1>6 DEF AcceptActive, Live
  <2>2. Cardinality(LiveIn(conn')) = Cardinality(LiveIn(conn)) + 1 /\ SeenIn(conn') = SeenIn(conn)
    BY <2>1, <1>3, <1>6, OneConnMoves DEF AcceptActive, Live
  <2> QED BY <2>1, <2>2, <1>1, <1>6 DEF AcceptActive
<1>7. CASE Handshake(c)
  <2>1. conn' = [conn EXCEPT ![c] = "open"] /\ "open" \in {"new", "served", "closed"} \cup Live
    BY <1>7 DEF Handshake, Live
  <2>2. LiveIn(conn') = LiveIn(conn) /\ SeenIn(conn') = SeenIn(conn)
    BY <2>1, <1>3, <1>7, OneConnMoves DEF Handshake, Live
  <2> QED BY <2>1, <2>2, <1>1, <1>7 DEF Handshake
<1>8. CASE TlsFails(c) \/ ConnEnds(c)
  <2>1. /\ conn' = [conn EXCEPT ![c] = "closed"] /\ conn[c] \in Live
        /\ active' = active - 1 /\ served' = served
    BY <1>8 DEF TlsFails, ConnEnds, Live
  <2>2. "closed" \in {"new", "served", "closed"} \cup Live /\ "closed" \notin Live
    BY DEF Live
  <2>3. conn[c] # "new"
    BY <2>1 DEF Live
  <2>4. Cardinality(LiveIn(conn')) = Cardinality(LiveIn(conn)) - 1 /\ SeenIn(conn') = SeenIn(conn)
    BY <2>1, <2>2, <2>3, <1>3, OneConnMoves
  <2> QED BY <2>1, <2>2, <2>4, <1>1
<1> QED BY <1>5, <1>6, <1>7, <1>8 DEF ConnStep

\* For any set of connections: active counts the connection tasks and served the
\* accepted connections in every reachable state (maintenance.rs, proxy/mod.rs).
THEOREM CountersAlwaysAgree == ConnSpec => []CountersAgree
<1>1. ConnInv /\ [ConnNext]_connVars => ConnInv'
  BY ConnInvStep, ConnInvUnchanged DEF ConnNext
<1>2. ConnInv => CountersAgree
  BY DEF ConnInv
<1> QED BY <1>1, <1>2, ConnInvInit, PTL DEF ConnSpec

-----------------------------------------------------------------------------
(* Types of the composition. *)

\* What every step of a request's task leaves well typed.
StepTypes(r) ==
  /\ \E k \in Stage : stage' = [stage EXCEPT ![r] = k]
  /\ learned' \subseteq Path \cup Agent \cup {NoAgent}
  /\ banned' \subseteq Client
  /\ threats' \in Nat
  /\ barred' \subseteq Request
  /\ UNCHANGED connVars
  /\ UNCHANGED ringVars \/ \E e \in Entry : RecordEntry(e)

RequestStep(r) == Arrive(r) \/ Proceed(r) \/ Upstream(r) \/ Drop(r)

LEMMA RequestFields ==
  ASSUME NEW r \in Request
  PROVE  /\ r.path \in Path /\ r.agent \in Agent \cup {NoAgent} /\ r.conn \in Conn
         /\ ClientAt(r) \in Client
         /\ \A b \in BOOLEAN : [request |-> r, trapped |-> b] \in Entry
BY RequestAssumption DEF ClientAt

LEMMA RequestStepTypes ==
  ASSUME TypeOK, NEW r \in Request, RequestStep(r)
  PROVE  StepTypes(r)
<1>1. /\ learned \subseteq Path \cup Agent \cup {NoAgent} /\ banned \subseteq Client
      /\ threats \in Nat /\ barred \subseteq Request
  BY DEF TypeOK
<1>2. r.path \in Path /\ r.agent \in Agent \cup {NoAgent} /\ ClientAt(r) \in Client
  BY RequestFields
<1>3. ASSUME NEW from, NEW k \in Stage, Moves(r, from, k), Alone
      PROVE  StepTypes(r)
  BY <1>1, <1>3 DEF StepTypes, Moves, Alone, defense
<1>4. ASSUME NEW from, NEW k \in Stage, Records(r, from, k)
      PROVE  StepTypes(r)
  <2>1. [request |-> r, trapped |-> k = "trapped"] \in Entry
    BY RequestFields
  <2> QED BY <1>1, <1>4, <2>1 DEF StepTypes, Records, Moves, defense
<1>5. CASE Arrive(r)
  BY <1>1, <1>5 DEF Arrive, StepTypes, Moves, Stage, defense
<1>6. CASE Reject(r) \/ CountThreat(r)
  BY <1>1, <1>6 DEF Reject, CountThreat, StepTypes, Moves, Stage, Ended, defense
<1>7. CASE Hostile(r) \/ Deny(r)
  BY <1>1, <1>2, <1>7 DEF Hostile, Deny, StepTypes, Moves, Stage, Punish
<1>8. CASE Answer404(r)
  BY <1>1, <1>2, <1>8 DEF Answer404, StepTypes, Moves, Stage
<1>9. CASE Acme(r) \/ ServeAcme(r) \/ Allow(r)
  BY <1>3, <1>9 DEF Acme, ServeAcme, Allow, Stage, Awaiting, Ended
<1>10. CASE Bypass(r) \/ BotCheck(r)
  <2>1. Onward(r) \in Stage /\ "caught" \in Stage
    BY DEF Onward, Stage, Awaiting
  <2> QED BY <1>3, <1>10, <2>1 DEF Bypass, BotCheck
<1>11. CASE RecordThreat(r) \/ RecordAnswer(r) \/ RecordSwitch(r) \/ Unavailable(r) \/ UpgradeRefused(r)
  <2>1. "trapped" \in Stage /\ "proxied" \in Stage /\ "tunnel" \in Stage
    BY DEF Stage, Ended
  <2> QED BY <1>4, <1>11, <2>1
       DEF RecordThreat, RecordAnswer, RecordSwitch, Unavailable, UpgradeRefused
<1>12. CASE \/ TooLarge(r) \/ HandshakeFails(r) \/ Answer(r) \/ UpgradeFails(r)
            \/ Switch(r) \/ TunnelEnds(r)
  <2>1. {"unrecorded", "answered", "switched", "proxied"} \subseteq Stage
    BY DEF Stage, Ended
  <2> QED BY <1>3, <1>12, <2>1
       DEF TooLarge, HandshakeFails, Answer, UpgradeFails, Switch, TunnelEnds
<1>13. CASE Drop(r)
  <2>1. Moves(r, stage[r], "dropped") /\ Alone /\ "dropped" \in Stage
    BY <1>13 DEF Drop, Moves, Stage, Ended
  <2> QED BY <1>3, <2>1
<1> QED BY <1>5, <1>6, <1>7, <1>8, <1>9, <1>10, <1>11, <1>12, <1>13
     DEF RequestStep, Proceed, Upstream

-----------------------------------------------------------------------------
(* The threat counter. *)

Uncaught(f) == {r \in Request : f[r] \in {"rejected", "counted"}}

LEMMA UncaughtCount ==
  ASSUME TypeOK, NEW r \in Request, NEW k \in Stage, stage' = [stage EXCEPT ![r] = k]
  PROVE  /\ Cardinality(Uncaught(stage)) \in Nat
         /\ k \in {"rejected", "counted"} /\ stage[r] \notin {"rejected", "counted"}
              => Cardinality(Uncaught(stage')) = Cardinality(Uncaught(stage)) + 1
         /\ k \notin {"rejected", "counted"} /\ stage[r] \in {"rejected", "counted"}
              => Cardinality(Uncaught(stage')) = Cardinality(Uncaught(stage)) - 1
         /\ k \notin {"rejected", "counted"} /\ stage[r] \notin {"rejected", "counted"}
              => Uncaught(stage') = Uncaught(stage)
<1>1. stage \in [Request -> Stage]
  BY DEF TypeOK
<1>2. IsFiniteSet(Uncaught(stage)) /\ Cardinality(Uncaught(stage)) \in Nat
  <2>1. Uncaught(stage) \subseteq Request
    BY DEF Uncaught
  <2> QED BY <2>1, RequestAssumption, FS_Subset, FS_CardinalityType
<1>3. ASSUME k \in {"rejected", "counted"}, stage[r] \notin {"rejected", "counted"}
      PROVE  Cardinality(Uncaught(stage')) = Cardinality(Uncaught(stage)) + 1
  <2>1. Uncaught(stage') = Uncaught(stage) \cup {r} /\ r \notin Uncaught(stage)
    BY <1>1, <1>3 DEF Uncaught
  <2> QED BY <2>1, <1>2, FS_AddElement
<1>4. ASSUME k \notin {"rejected", "counted"}, stage[r] \in {"rejected", "counted"}
      PROVE  Cardinality(Uncaught(stage')) = Cardinality(Uncaught(stage)) - 1
  <2>1. Uncaught(stage') = Uncaught(stage) \ {r} /\ r \in Uncaught(stage)
    BY <1>1, <1>4 DEF Uncaught
  <2> QED BY <2>1, <1>2, FS_RemoveElement
<1>5. k \notin {"rejected", "counted"} /\ stage[r] \notin {"rejected", "counted"}
        => Uncaught(stage') = Uncaught(stage)
  BY <1>1 DEF Uncaught
<1> QED BY <1>2, <1>3, <1>4, <1>5

LEMMA TrappedAfterRecord ==
  ASSUME TypeOK, NEW r \in Request, NEW b \in BOOLEAN,
         RecordEntry([request |-> r, trapped |-> b])
  PROVE  /\ Cardinality(Trapped) \in Nat
         /\ b => Cardinality(Trapped') = Cardinality(Trapped) + 1
         /\ ~b => Trapped' = Trapped
<1> DEFINE e == [request |-> r, trapped |-> b]
<1>1. e \in Entry /\ e.trapped = b
  BY RequestFields
<1>2. log \in Seq(Entry) /\ log' = Append(log, e)
  BY DEF TypeOK, RingTypeOK, RecordEntry
<1> HIDE DEF e
<1>3. Len(log) \in Nat /\ DOMAIN log = 1 .. Len(log)
  BY <1>2, LenProperties
<1>4. /\ log' \in Seq(Entry) /\ Len(log') = Len(log) + 1
      /\ \A i \in 1 .. Len(log) : log'[i] = log[i]
      /\ log'[Len(log) + 1] = e
  BY <1>1, <1>2, AppendProperties
<1>5. DOMAIN log' = 1 .. Len(log')
  BY <1>4, LenProperties
<1>6. IsFiniteSet(Trapped) /\ Cardinality(Trapped) \in Nat
  <2>1. Trapped \subseteq 1 .. Len(log)
    BY <1>3 DEF Trapped
  <2>2. IsFiniteSet(1 .. Len(log))
    BY <1>3, FS_Interval
  <2> QED BY <2>1, <2>2, FS_Subset, FS_CardinalityType
<1>7. ASSUME b PROVE Cardinality(Trapped') = Cardinality(Trapped) + 1
  <2>1. Trapped' = Trapped \cup {Len(log) + 1} /\ Len(log) + 1 \notin Trapped
    <3>1. DOMAIN log' = DOMAIN log \cup {Len(log) + 1} /\ Len(log) + 1 \notin DOMAIN log
      BY <1>3, <1>4, <1>5
    <3>2. \A i \in DOMAIN log : log'[i] = log[i]
      BY <1>3, <1>4
    <3>3. log'[Len(log) + 1].trapped
      BY <1>1, <1>4, <1>7
    <3> QED BY <3>1, <3>2, <3>3 DEF Trapped
  <2> QED BY <2>1, <1>6, FS_AddElement
<1>8. ASSUME ~b PROVE Trapped' = Trapped
  BY <1>1, <1>3, <1>4, <1>5, <1>8 DEF Trapped
<1> QED BY <1>6, <1>7, <1>8

LEMMA ThreatsStep ==
  ASSUME TypeOK, ThreatsAccounted, NEW r \in Request, RequestStep(r)
  PROVE  ThreatsAccounted'
<1> DEFINE P == {"rejected", "counted"}
<1>1. threats = Cardinality(Uncaught(stage)) + Cardinality(Trapped) /\ threats \in Nat
  BY DEF ThreatsAccounted, Uncaught, TypeOK
<1>2. SUFFICES threats' = Cardinality(Uncaught(stage')) + Cardinality(Trapped')
  BY DEF ThreatsAccounted, Uncaught
<1>3. stage \in [Request -> Stage] /\ Cardinality(Uncaught(stage)) \in Nat
  <2>1. stage \in [Request -> Stage]
    BY DEF TypeOK
  <2>2. stage = [stage EXCEPT ![r] = stage[r]] /\ stage[r] \in Stage
    BY <2>1
  <2>3. Uncaught(stage) \subseteq Request
    BY DEF Uncaught
  <2> QED BY <2>1, <2>3, RequestAssumption, FS_Subset, FS_CardinalityType
<1>4. Cardinality(Trapped) \in Nat
  <2>1. log \in Seq(Entry)
    BY DEF TypeOK, RingTypeOK
  <2>2. Len(log) \in Nat /\ Trapped \subseteq 1 .. Len(log)
    BY <2>1, LenProperties DEF Trapped
  <2>3. IsFiniteSet(1 .. Len(log))
    BY <2>2, FS_Interval
  <2> QED BY <2>2, <2>3, FS_Subset, FS_CardinalityType
<1>5. ASSUME NEW k \in Stage, stage' = [stage EXCEPT ![r] = k],
             k \notin P, stage[r] \notin P, threats' = threats, log' = log
      PROVE  threats' = Cardinality(Uncaught(stage')) + Cardinality(Trapped')
  <2>1. Trapped' = Trapped
    BY <1>5 DEF Trapped
  <2>2. Uncaught(stage') = Uncaught(stage)
    BY <1>5, UncaughtCount
  <2> QED BY <1>1, <1>5, <2>1, <2>2
<1>6. ASSUME NEW from \in Stage \ P, NEW k \in Stage \ P, Records(r, from, k), k # "trapped"
      PROVE  threats' = Cardinality(Uncaught(stage')) + Cardinality(Trapped')
  <2>1. /\ stage' = [stage EXCEPT ![r] = k] /\ stage[r] = from /\ threats' = threats
        /\ RecordEntry([request |-> r, trapped |-> FALSE])
    BY <1>6 DEF Records, Moves
  <2>2. Trapped' = Trapped
    BY <2>1, TrappedAfterRecord
  <2>3. Uncaught(stage') = Uncaught(stage)
    BY <1>6, <2>1, UncaughtCount
  <2> QED BY <1>1, <2>1, <2>2, <2>3
<1>7. CASE Reject(r) \/ CountThreat(r)
  <2>1. PICK k \in P : /\ stage' = [stage EXCEPT ![r] = k] /\ stage[r] \notin P
                       /\ threats' = threats + 1 /\ log' = log
    BY <1>7 DEF Reject, CountThreat, Moves, ringVars
  <2>2. Trapped' = Trapped
    BY <2>1 DEF Trapped
  <2>3. k \in Stage
    BY <2>1 DEF Stage, Ended
  <2>4. Cardinality(Uncaught(stage')) = Cardinality(Uncaught(stage)) + 1
    BY <2>1, <2>3, UncaughtCount
  <2> QED BY <1>1, <1>3, <1>4, <2>1, <2>2, <2>4
<1>8. CASE RecordThreat(r)
  <2>1. /\ stage' = [stage EXCEPT ![r] = "trapped"] /\ stage[r] = "counted"
        /\ RecordEntry([request |-> r, trapped |-> TRUE]) /\ threats' = threats
    BY <1>8 DEF RecordThreat, Records, Moves
  <2>2. Cardinality(Trapped') = Cardinality(Trapped) + 1
    BY <2>1, TrappedAfterRecord
  <2>3. "trapped" \in Stage
    BY DEF Stage, Ended
  <2>4. Cardinality(Uncaught(stage')) = Cardinality(Uncaught(stage)) - 1
    BY <2>1, <2>3, UncaughtCount
  <2> QED BY <1>1, <1>3, <1>4, <2>1, <2>2, <2>4
<1>9. CASE RecordAnswer(r) \/ RecordSwitch(r) \/ Unavailable(r) \/ UpgradeRefused(r)
  <2>1. {"proxied", "tunnel", "answered", "switched", "sending", "upgrading"} \subseteq Stage \ P
    BY DEF Stage, Ended, Awaiting
  <2> QED BY <1>6, <1>9, <2>1 DEF RecordAnswer, RecordSwitch, Unavailable, UpgradeRefused
<1>10. CASE Arrive(r) \/ Acme(r) \/ ServeAcme(r) \/ Hostile(r) \/ Deny(r) \/ Allow(r)
  <2>1. PICK k \in {"ingress", "acme", "challenge", "caught", "bots"} :
          /\ stage' = [stage EXCEPT ![r] = k] /\ stage[r] \notin P
          /\ threats' = threats /\ log' = log
    BY <1>10 DEF Arrive, Acme, ServeAcme, Hostile, Deny, Allow, Moves, Alone, ringVars
  <2>2. k \in Stage /\ k \notin P
    BY <2>1 DEF Stage, Ended, Awaiting
  <2> QED BY <1>5, <2>1, <2>2
<1>11. CASE Bypass(r) \/ BotCheck(r)
  <2>1. PICK k \in {"caught", "sending", "upgrading"} :
          /\ stage' = [stage EXCEPT ![r] = k] /\ stage[r] \notin P
          /\ threats' = threats /\ log' = log
    BY <1>11 DEF Bypass, BotCheck, Onward, Moves, Alone, ringVars
  <2>2. k \in Stage /\ k \notin P
    BY <2>1 DEF Stage, Awaiting
  <2> QED BY <1>5, <2>1, <2>2
<1>12. CASE \/ TooLarge(r) \/ HandshakeFails(r) \/ Answer(r) \/ Answer404(r)
            \/ UpgradeFails(r) \/ Switch(r) \/ TunnelEnds(r) \/ Drop(r)
  <2>1. PICK k \in {"unrecorded", "answered", "switched", "proxied", "dropped"} :
          /\ stage' = [stage EXCEPT ![r] = k] /\ stage[r] \notin P
          /\ threats' = threats /\ log' = log
    BY <1>12 DEF TooLarge, HandshakeFails, Answer, Answer404, UpgradeFails, Switch,
                 TunnelEnds, Drop, Awaiting, Moves, Alone, ringVars
  <2>2. k \in Stage /\ k \notin P
    BY <2>1 DEF Stage, Ended
  <2> QED BY <1>5, <2>1, <2>2
<1> QED BY <1>7, <1>8, <1>9, <1>10, <1>11, <1>12 DEF RequestStep, Proceed, Upstream

-----------------------------------------------------------------------------
(* Requests with a reason to be trapped. *)

Forwarded == {"sending", "upgrading", "answered", "switched", "tunnel", "proxied"}

\* Where a barred request can be, and what still holds it: at the perimeter any
\* reason it has, at the bot guard its agent on its path.
HeldBack(r) ==
  /\ stage[r] \notin Forwarded
  /\ stage[r] = "ingress" => Cause(r)
  /\ stage[r] = "bots" => BotRefuses(r)

BarredInv == \A r \in barred : stage[r] # "none" /\ (Screened(r) => HeldBack(r))

LEMMA BarredOtherRequest ==
  ASSUME TypeOK, BarredInv, NEW r \in Request, RequestStep(r)
  PROVE  /\ learned \subseteq learned' /\ banned \subseteq banned'
         /\ barred' \subseteq barred \cup {r}
         /\ \A q \in Request \ {r} : stage'[q] = stage[q]
<1>1. PICK k \in Stage : stage' = [stage EXCEPT ![r] = k]
  BY RequestStepTypes DEF StepTypes
<1>2. \A q \in Request \ {r} : stage'[q] = stage[q]
  BY <1>1 DEF TypeOK
<1>3. CASE Arrive(r)
  BY <1>2, <1>3 DEF Arrive, defense
<1>4. CASE \/ Reject(r) \/ Acme(r) \/ ServeAcme(r) \/ Bypass(r) \/ Allow(r) \/ BotCheck(r)
           \/ CountThreat(r) \/ RecordThreat(r) \/ RecordAnswer(r) \/ RecordSwitch(r)
  BY <1>2, <1>4 DEF Reject, Acme, ServeAcme, Bypass, Allow, BotCheck, CountThreat,
       RecordThreat, RecordAnswer, RecordSwitch, Records, Alone, defense
<1>5. CASE Hostile(r) \/ Deny(r)
  BY <1>2, <1>5 DEF Hostile, Deny, Punish
<1>6. CASE Answer404(r)
  BY <1>2, <1>6 DEF Answer404
<1>7. CASE (Upstream(r) /\ ~Answer404(r)) \/ Drop(r)
  BY <1>2, <1>7 DEF Upstream, Drop, Unavailable, TooLarge, HandshakeFails, Answer,
       UpgradeFails, UpgradeRefused, Switch, TunnelEnds, Records, Alone, defense
<1> QED BY <1>3, <1>4, <1>5, <1>6, <1>7 DEF RequestStep, Proceed

LEMMA BarredThisRequest ==
  ASSUME TypeOK, BarredInv, NEW r \in Request, RequestStep(r), r \in barred'
  PROVE  stage'[r] # "none" /\ (Screened(r) => HeldBack(r)')
<1>1. stage \in [Request -> Stage]
  BY DEF TypeOK
<1>2. CASE Arrive(r)
  <2>1. stage[r] = "none" /\ stage'[r] = "ingress"
    BY <1>1, <1>2 DEF Arrive, Moves
  <2>2. r \notin barred
    BY <2>1 DEF BarredInv
  <2>3. Cause(r) /\ UNCHANGED <<learned, banned>>
    BY <1>2, <2>2 DEF Arrive, defense
  <2>4. Cause(r)'
    BY <2>3 DEF Cause, Denied, BotRefuses, ClientAt
  <2> QED BY <2>1, <2>4 DEF HeldBack, Forwarded
<1>3. ASSUME ~Arrive(r)
      PROVE  r \in barred
  BY <1>3 DEF RequestStep, Proceed, Upstream, Drop, Reject, Acme, ServeAcme, Bypass, Allow,
       BotCheck, CountThreat, RecordThreat, RecordAnswer, RecordSwitch, Records, Alone, Hostile,
       Deny, Answer404, Unavailable, TooLarge, HandshakeFails, Answer, UpgradeFails,
       UpgradeRefused, Switch, TunnelEnds
<1>4. ASSUME ~Arrive(r)
      PROVE  stage[r] # "none" /\ (Screened(r) => HeldBack(r))
  BY <1>3, <1>4 DEF BarredInv
<1>5. CASE \/ Reject(r) \/ Acme(r) \/ ServeAcme(r) \/ Hostile(r) \/ Deny(r)
           \/ CountThreat(r) \/ RecordThreat(r) \/ Drop(r)
  <2>1. stage'[r] \in {"rejected", "acme", "challenge", "caught", "counted", "trapped", "dropped"}
    BY <1>1, <1>5 DEF Reject, Acme, ServeAcme, Hostile, Deny, CountThreat, RecordThreat, Records,
         Drop, Moves
  <2> QED BY <2>1 DEF HeldBack, Forwarded
<1>6. CASE Bypass(r)
  <2>1. ~Screened(r) /\ stage'[r] # "none"
    BY <1>1, <1>6 DEF Bypass, Moves, Onward
  <2> QED BY <2>1
<1>7. CASE Allow(r)
  <2>1. /\ stage[r] = "ingress" /\ stage'[r] = "bots" /\ learned' = learned
        /\ Screened(r) /\ r.kind # "hostile" /\ ~Denied(r)
    BY <1>1, <1>7 DEF Allow, Moves, Alone, defense
  <2>2. Cause(r)
    BY <1>4, <2>1 DEF HeldBack, Arrive, Moves
  <2>3. BotRefuses(r)'
    BY <2>1, <2>2 DEF Cause, BotRefuses, ClientAt
  <2> QED BY <2>1, <2>3 DEF HeldBack, Forwarded
<1>8. CASE BotCheck(r)
  <2>1. stage[r] = "bots" /\ stage'[r] = IF BotRefuses(r) THEN "caught" ELSE Onward(r)
    BY <1>1, <1>8 DEF BotCheck, Moves
  <2>2. Screened(r) => BotRefuses(r)
    BY <1>4, <2>1 DEF HeldBack, Arrive, Moves
  <2>3. Onward(r) # "none"
    BY DEF Onward
  <2> QED BY <2>1, <2>2, <2>3 DEF HeldBack, Forwarded
<1>9. CASE Upstream(r) \/ RecordAnswer(r) \/ RecordSwitch(r)
  <2>1. stage[r] \in Forwarded /\ stage'[r] # "none" /\ ~Arrive(r)
    BY <1>1, <1>9 DEF Upstream, RecordAnswer, RecordSwitch, Records, Unavailable, TooLarge,
         HandshakeFails, Answer, Answer404, UpgradeFails, UpgradeRefused, Switch, TunnelEnds,
         Moves, Forwarded, Arrive
  <2> QED BY <1>4, <2>1 DEF HeldBack
<1> QED BY <1>2, <1>5, <1>6, <1>7, <1>8, <1>9 DEF RequestStep, Proceed

LEMMA BarredStep ==
  ASSUME TypeOK, BarredInv, NEW r \in Request, RequestStep(r)
  PROVE  BarredInv'
<1>1. SUFFICES ASSUME NEW q \in barred'
               PROVE  stage'[q] # "none" /\ (Screened(q) => HeldBack(q)')
  BY DEF BarredInv, Screened, ClientAt
<1>2. CASE q = r
  BY <1>2, BarredThisRequest
<1>3. CASE q # r
  <2>1. /\ q \in barred /\ q \in Request
        /\ stage'[q] = stage[q] /\ learned \subseteq learned' /\ banned \subseteq banned'
    BY <1>3, BarredOtherRequest DEF TypeOK
  <2>2. stage[q] # "none" /\ (Screened(q) => HeldBack(q))
    BY <2>1 DEF BarredInv
  <2>3. BotRefuses(q) => BotRefuses(q)'
    BY <2>1 DEF BotRefuses, ClientAt
  <2>4. Cause(q) => Cause(q)'
    BY <2>1, <2>3 DEF Cause, Denied, ClientAt
  <2> QED BY <2>1, <2>2, <2>3, <2>4 DEF HeldBack
<1> QED BY <1>2, <1>3

LEMMA BarredBans ==
  ASSUME TypeOK, BarredInv, NEW a \in Client, Ban(a) \/ Unban(a)
  PROVE  BarredInv'
<1>1. SUFFICES ASSUME NEW q \in barred'
               PROVE  stage'[q] # "none" /\ (Screened(q) => HeldBack(q)')
  BY DEF BarredInv, Screened, ClientAt
<1>2. q \in barred /\ stage' = stage /\ learned' = learned
  BY DEF Ban, Unban
<1>3. stage[q] # "none" /\ (Screened(q) => HeldBack(q))
  BY <1>2 DEF BarredInv
<1>4. BotRefuses(q)' <=> BotRefuses(q)
  BY <1>2 DEF BotRefuses, ClientAt
<1>5. Cause(q) => Cause(q)'
  <2>1. CASE Ban(a)
    BY <1>2, <1>4, <2>1 DEF Ban, Cause, Denied, ClientAt
  <2>2. CASE Unban(a)
    <3>1. \/ ClientAt(q) # a \/ q.kind = "hostile"
          \/ q.path \in learned \/ BotRefuses(q)
      BY <2>2 DEF Unban
    <3>2. banned' = banned \ {a}
      BY <2>2 DEF Unban
    <3> QED BY <1>2, <1>4, <3>1, <3>2 DEF Cause, Denied, ClientAt
  <2> QED BY <2>1, <2>2
<1> QED BY <1>2, <1>3, <1>4, <1>5 DEF HeldBack

-----------------------------------------------------------------------------
(* The inductive invariant of the pipeline. *)

ProxyInv ==
  /\ TypeOK
  /\ CountersAgree
  /\ RingIsNewest
  /\ ThreatsAccounted
  /\ BarredInv

LEMMA ProxyInvInit == ASSUME Init PROVE ProxyInv
<1>1. ConnInv /\ RingInv
  BY ConnInvInit, RingInvInit DEF Init
<1>2. TypeOK
  <2>1. stage \in [Request -> Stage]
    BY DEF Init, Stage
  <2> QED BY <1>1, <2>1, RequestAssumption DEF Init, TypeOK, ConnInv, RingInv
<1>3. ThreatsAccounted
  <2>1. Uncaught(stage) = {} /\ Trapped = {}
    BY DEF Init, RingInit, Uncaught, Trapped
  <2> QED BY <2>1, FS_EmptySet DEF Init, ThreatsAccounted, Uncaught
<1> QED BY <1>1, <1>2, <1>3 DEF Init, ProxyInv, ConnInv, RingInv, BarredInv

LEMMA ProxyInvStep ==
  ASSUME ProxyInv, [Next]_vars
  PROVE  ProxyInv'
<1>1. ConnInv /\ RingInv /\ TypeOK /\ ThreatsAccounted /\ BarredInv
  BY DEF ProxyInv, ConnInv, RingInv, TypeOK
<1>2. ASSUME UNCHANGED <<ringVars, stage, defense, threats, barred>>, ConnInv'
      PROVE  ProxyInv'
  <2>1. RingInv'
    BY <1>1, <1>2, RingInvUnchanged
  <2>2. TypeOK'
    BY <1>1, <1>2, <2>1 DEF TypeOK, ConnInv, RingInv, defense
  <2>3. ThreatsAccounted' /\ BarredInv'
    BY <1>1, <1>2 DEF ThreatsAccounted, Trapped, BarredInv, HeldBack, Cause, Denied, BotRefuses,
         Screened, ClientAt, defense, ringVars
  <2> QED BY <1>2, <2>1, <2>2, <2>3 DEF ProxyInv, ConnInv, RingInv
<1>3. CASE ConnNext /\ UNCHANGED <<ringVars, stage, defense, threats, barred>>
  <2>1. ConnInv'
    BY <1>1, <1>3, ConnInvStep DEF ConnNext
  <2> QED BY <1>2, <1>3, <2>1
<1>4. ASSUME NEW r \in Request, RequestStep(r)
      PROVE  ProxyInv'
  <2>1. StepTypes(r)
    BY <1>1, <1>4, RequestStepTypes
  <2>2. ConnInv'
    BY <1>1, <2>1, ConnInvUnchanged DEF StepTypes
  <2>3. RingInv'
    BY <1>1, <2>1, RingInvUnchanged, RingRecordStep DEF StepTypes
  <2>4. stage' \in [Request -> Stage]
    BY <1>1, <2>1 DEF StepTypes, TypeOK
  <2>5. TypeOK'
    BY <2>1, <2>2, <2>3, <2>4 DEF TypeOK, ConnInv, RingInv, StepTypes
  <2>6. ThreatsAccounted' /\ BarredInv'
    BY <1>1, <1>4, ThreatsStep, BarredStep
  <2> QED BY <2>2, <2>3, <2>5, <2>6 DEF ProxyInv, ConnInv, RingInv
<1>5. ASSUME NEW a \in Client, Ban(a) \/ Unban(a)
      PROVE  ProxyInv'
  <2>1. UNCHANGED <<connVars, ringVars, stage, learned, threats>>
    BY <1>5 DEF Ban, Unban
  <2>2. ConnInv' /\ RingInv'
    BY <1>1, <2>1, ConnInvUnchanged, RingInvUnchanged
  <2>3. banned' \subseteq Client /\ barred' \subseteq Request
    BY <1>1, <1>5 DEF Ban, Unban, TypeOK
  <2>4. TypeOK'
    BY <1>1, <2>1, <2>2, <2>3 DEF TypeOK, ConnInv, RingInv
  <2>5. ThreatsAccounted'
    BY <1>1, <2>1 DEF ThreatsAccounted, Trapped, ringVars
  <2>6. BarredInv'
    BY <1>1, <1>5, BarredBans
  <2> QED BY <2>2, <2>4, <2>5, <2>6 DEF ProxyInv, ConnInv, RingInv
<1>6. CASE UNCHANGED vars
  <2>1. ConnInv'
    BY <1>1, <1>6, ConnInvUnchanged DEF vars
  <2> QED BY <1>2, <1>6, <2>1 DEF vars
<1> QED BY <1>3, <1>4, <1>5, <1>6 DEF Next, RequestStep

THEOREM ProxyInvHolds == Spec => []ProxyInv
BY ProxyInvInit, ProxyInvStep, PTL DEF Spec

\* Type correctness of the pipeline, its connections and its ring.
THEOREM ProxyTypes == Spec => []TypeOK
<1>1. ProxyInv => TypeOK
  BY DEF ProxyInv
<1> QED BY <1>1, ProxyInvHolds, PTL

\* However many requests, connections and clients: the threat counter and the
\* telemetry log tell the same story (proxy/mod.rs: 182-234).
THEOREM ThreatsAlwaysAccounted == Spec => []ThreatsAccounted
<1>1. ProxyInv => ThreatsAccounted
  BY DEF ProxyInv
<1> QED BY <1>1, ProxyInvHolds, PTL

\* A request barred since it arrived, by its kind, its client, its path or its agent
\* on that path, never reaches an upstream, whatever other tasks learn, ban or lift
\* meanwhile (defense.rs: 175-306).
THEOREM BarredAreStopped == Spec => []BarredNeverForwarded
<1>1. ProxyInv => BarredNeverForwarded
  BY DEF ProxyInv, BarredInv, HeldBack, Forwarded, BarredNeverForwarded
<1> QED BY <1>1, ProxyInvHolds, PTL

\* The counters and the ring keep their invariants inside the pipeline as they do
\* on their own, and what is asked of the ring there is answered as it is.
THEOREM ComponentsKept == Spec => [](CountersAgree /\ RingIsNewest /\ QueriesAreNewest)
<1>1. ProxyInv => CountersAgree /\ RingIsNewest
  BY DEF ProxyInv
<1>2. ProxyInv => RingInv
  BY DEF ProxyInv, TypeOK, RingInv
<1> QED BY <1>1, <1>2, RingAnswersNewest, ProxyInvHolds, PTL
=============================================================================
