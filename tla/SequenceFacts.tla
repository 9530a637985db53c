--------------------------- MODULE SequenceFacts ---------------------------
(***************************************************************************)
(* What the proofs need of folds and of flattened sequences, which are     *)
(* recursive functions: induction over a set of numbers, that these        *)
(* functions exist, and what they are from one element to the next.        *)
(***************************************************************************)
EXTENDS Integers, SequencesExt, SequenceTheorems, WellFoundedInduction, TLAPS

\* A set of naturals with a member has a least one.
LEMMA LeastMember ==
  ASSUME NEW T, T \subseteq Nat, T # {}
  PROVE  \E x \in T : \A y \in T : x <= y
<1>1. IsWellFoundedOn({p \in Nat \X Nat : p[1] < p[2]}, Nat)
  BY NatLessThanWellFounded, Zenon DEF OpToRel
<1>2. PICK x \in T : \A y \in T : <<y, x>> \notin {p \in Nat \X Nat : p[1] < p[2]}
  BY <1>1, WFMin, Zenon
<1>3. \A y, z \in Nat : y < z => <<y, z>> \in {p \in Nat \X Nat : p[1] < p[2]}
  OBVIOUS
<1>4. \A y \in T : ~(y < x)
  BY <1>2, <1>3, Zenon
<1> QED BY <1>4

\* Induction: the set of the numbers of which something holds is given, and not the
\* operator that says it.
LEMMA Inductive ==
  ASSUME NEW G, 0 \in G, \A n \in Nat : n \in G => n + 1 \in G
  PROVE  Nat \subseteq G
<1> SUFFICES ASSUME ~(Nat \subseteq G) PROVE FALSE
  OBVIOUS
<1>1. PICK n \in Nat \ G : \A m \in Nat \ G : n <= m
  BY LeastMember
<1>2. n - 1 \in Nat /\ n - 1 \in G
  BY <1>1
<1> QED BY <1>2, <1>1

\* The same, up to a bound.
LEMMA InductiveUpTo ==
  ASSUME NEW N \in Nat, NEW G, 0 \in G, \A n \in 0 .. N - 1 : n \in G => n + 1 \in G
  PROVE  0 .. N \subseteq G
<1> DEFINE H == {n \in Nat : n <= N => n \in G}
<1>1. 0 \in H
  OBVIOUS
<1>2. \A n \in Nat : n \in H => n + 1 \in H
  OBVIOUS
<1> HIDE DEF H
<1>3. Nat \subseteq H
  BY <1>1, <1>2, Inductive
<1> QED BY <1>3 DEF H

-----------------------------------------------------------------------------
(* FoldLeft, which takes the greatest index away, one after the other. *)

\* The greatest of the first m numbers, and what is left without it.
LEMMA MaxOfFirst ==
  ASSUME NEW m \in Nat \ {0}
  PROVE  Max(1 .. m) = m /\ (1 .. m) \ {m} = 1 .. m - 1 /\ 1 .. m # {}
<1>1. m \in 1 .. m /\ \A y \in 1 .. m : m >= y
  OBVIOUS
<1>2. \A x \in 1 .. m : (\A y \in 1 .. m : x >= y) => x = m
  OBVIOUS
<1>3. Max(1 .. m) = m
  BY <1>1, <1>2, Zenon DEF Max
<1>4. (1 .. m) \ {m} = 1 .. m - 1
  OBVIOUS
<1> QED BY <1>1, <1>3, <1>4

\* Where the greatest of a set stands.
LEMMA MaxWithTop ==
  ASSUME NEW m \in Nat, NEW s \in SUBSET (1 .. m + 1), m + 1 \in s
  PROVE  Max(s) = m + 1
<1>1. \A y \in s : m + 1 >= y
  OBVIOUS
<1>2. \A x \in s : (\A y \in s : x >= y) => x = m + 1
  OBVIOUS
<1> QED BY <1>1, <1>2, Zenon DEF Max

LEMMA MaxIsMember ==
  ASSUME NEW m \in Nat, NEW s \in SUBSET (1 .. m), s # {}
  PROVE  Max(s) \in s /\ \A y \in s : Max(s) >= y
<1> DEFINE T == {m - x : x \in s}
<1>1. T # {} /\ T \subseteq Nat
  <2>1. PICK x \in s : TRUE
    OBVIOUS
  <2>2. m - x \in T
    BY <2>1
  <2>3. \A y \in s : m - y \in Nat
    OBVIOUS
  <2> QED BY <2>2, <2>3
<1>2. PICK t \in T : \A u \in T : t <= u
  BY <1>1, LeastMember
<1>3. PICK x \in s : t = m - x
  OBVIOUS
<1>4. \A y \in s : x >= y
  <2> SUFFICES ASSUME NEW y \in s PROVE x >= y
    OBVIOUS
  <2>1. t <= m - y
    BY <1>2
  <2> QED BY <2>1, <1>3
<1> QED BY <1>4, Zenon DEF Max

\* The function that FoldLeft defines on the sets of the first n indices, where
\* step[i] is what the i-th element does to a value in D.
IsFold(g, D, base, n, step) ==
  /\ g \in [SUBSET (1 .. n) -> D]
  /\ \A s \in SUBSET (1 .. n) :
       g[s] = IF s = {} THEN base ELSE step[Max(s)][g[s \ {Max(s)}]]

\* There is one, if every element leaves a value in D in D.
LEMMA FoldExists ==
  ASSUME NEW D, NEW base \in D, NEW n \in Nat, NEW step \in [1 .. n -> [D -> D]]
  PROVE  \E g : IsFold(g, D, base, n, step)
<1> DEFINE Good(m, g) == \A s \in SUBSET (1 .. m) :
                           g[s] = IF s = {} THEN base ELSE step[Max(s)][g[s \ {Max(s)}]]
           Has(m) == \E g \in [SUBSET (1 .. m) -> D] : Good(m, g)
           G == {m \in Nat : Has(m)}
<1>1. Has(0)
  <2> DEFINE g == [s \in SUBSET (1 .. 0) |-> base]
  <2>1. g \in [SUBSET (1 .. 0) -> D]
    OBVIOUS
  <2>2. \A s \in SUBSET (1 .. 0) : s = {} /\ g[s] = base
    OBVIOUS
  <2> QED BY <2>1, <2>2, Zenon
<1>2. ASSUME NEW m \in 0 .. n - 1, Has(m) PROVE Has(m + 1)
  <2>g. PICK g \in [SUBSET (1 .. m) -> D] : Good(m, g)
    BY <1>2, Zenon
  <2> DEFINE h == [s \in SUBSET (1 .. m + 1) |->
                     IF m + 1 \in s THEN step[m + 1][g[s \ {m + 1}]] ELSE g[s]]
  <2>1. \A s \in SUBSET (1 .. m + 1) : s \ {m + 1} \in SUBSET (1 .. m)
    OBVIOUS
  <2>2. \A s \in SUBSET (1 .. m + 1) : m + 1 \notin s => s \in SUBSET (1 .. m)
    OBVIOUS
  <2>3. h \in [SUBSET (1 .. m + 1) -> D]
    <3>1. m + 1 \in 1 .. n /\ \A s \in SUBSET (1 .. m + 1) : g[s \ {m + 1}] \in D
      BY <2>1
    <3>2. \A s \in SUBSET (1 .. m + 1) : step[m + 1][g[s \ {m + 1}]] \in D
      BY <3>1
    <3> QED BY <3>2, <2>2
  <2>4. \A s \in SUBSET (1 .. m) : s \in SUBSET (1 .. m + 1) /\ h[s] = g[s]
    OBVIOUS
  <2>5. ASSUME NEW s \in SUBSET (1 .. m + 1)
        PROVE  h[s] = IF s = {} THEN base ELSE step[Max(s)][h[s \ {Max(s)}]]
    <3>1. CASE m + 1 \in s
      <4>1. Max(s) = m + 1
        BY <3>1, MaxWithTop
      <4>2. h[s \ {m + 1}] = g[s \ {m + 1}]
        BY <2>1, <2>4
      <4>3. h[s] = step[m + 1][g[s \ {m + 1}]]
        BY <3>1
      <4>4. s # {}
        BY <3>1
      <4> HIDE DEF h
      <4> QED BY <4>1, <4>2, <4>3, <4>4
    <3>2. CASE m + 1 \notin s
      <4>1. s \in SUBSET (1 .. m) /\ s \ {Max(s)} \in SUBSET (1 .. m)
        BY <3>2, <2>2
      <4>2. h[s] = g[s] /\ h[s \ {Max(s)}] = g[s \ {Max(s)}]
        BY <4>1, <2>4
      <4> HIDE DEF h
      <4> QED BY <2>g, <4>1, <4>2
    <3> QED BY <3>1, <3>2
  <2> HIDE DEF h
  <2> QED BY <2>3, <2>5, Zenon
<1> HIDE DEF Has
<1>3. 0 \in G /\ \A m \in 0 .. n - 1 : m \in G => m + 1 \in G
  BY <1>1, <1>2
<1> HIDE DEF G
<1>4. 0 .. n \subseteq G
  BY <1>3, InductiveUpTo
<1>5. Has(n)
  BY <1>4 DEF G
<1> QED BY <1>5, Zenon DEF Has, IsFold

-----------------------------------------------------------------------------
(* Sequences that grow at the end. *)

\* The empty sequence, and one more member.
LEMMA SequencesGrow ==
  ASSUME NEW C
  PROVE  << >> \in Seq(C) /\ \A u \in Seq(C), c \in C : Append(u, c) \in Seq(C)
OBVIOUS

\* The members, with one more.
LEMMA AppendedSet ==
  ASSUME NEW C, NEW a \in Seq(C), NEW c \in C
  PROVE  ToSet(Append(a, c)) = ToSet(a) \cup {c}
<1> DEFINE b == Append(a, c)
<1>1. /\ DOMAIN b = 1 .. Len(a) + 1 /\ DOMAIN a = 1 .. Len(a) /\ Len(a) \in Nat
      /\ \A i \in 1 .. Len(a) : b[i] = a[i]
      /\ b[Len(a) + 1] = c
  OBVIOUS
<1> HIDE DEF b
<1>2. ToSet(b) = ToSet(a) \cup {c}
  BY <1>1 DEF ToSet
<1> QED BY <1>2 DEF b

\* Sequences put together, and one more member.
LEMMA ConcatGrows ==
  ASSUME NEW C
  PROVE  \A a, b \in Seq(C), c \in C :
           a \o b \in Seq(C) /\ a \o Append(b, c) = Append(a \o b, c)
<1> SUFFICES ASSUME NEW a \in Seq(C), NEW b \in Seq(C), NEW c \in C
             PROVE  a \o b \in Seq(C) /\ a \o Append(b, c) = Append(a \o b, c)
  OBVIOUS
<1>1. Append(b, c) = b \o <<c>> /\ Append(a \o b, c) = (a \o b) \o <<c>> /\ <<c>> \in Seq(C)
  OBVIOUS
<1>2. a \o b \in Seq(C)
  OBVIOUS
<1> QED BY <1>1, <1>2, ConcatAssociative

\* Two members, one after the other.
LEMMA TwoMembers ==
  ASSUME NEW S, NEW x \in S, NEW y \in S
  PROVE  Append(<<x>>, y) = <<x, y>>
<1> DEFINE a == Append(<<x>>, y)
           b == <<x, y>>
<1>1. a \in Seq(S) /\ Len(a) = 2 /\ a[1] = x /\ a[2] = y
  OBVIOUS
<1>2. b \in Seq(S) /\ Len(b) = 2 /\ b[1] = x /\ b[2] = y
  OBVIOUS
<1> HIDE DEF a, b
<1>3. \A i \in 1 .. Len(a) : a[i] = b[i]
  BY <1>1, <1>2
<1>4. a = b
  BY <1>1, <1>2, <1>3, SeqEqual
<1> QED BY <1>4 DEF a, b

\* The last member replaced.
LEMMA LastReplaced ==
  ASSUME NEW S, NEW front \in Seq(S), NEW w \in S, NEW v \in S
  PROVE  [Append(front, w) EXCEPT ![Len(Append(front, w))] = v] = Append(front, v)
<1> DEFINE n == Len(front)
           fs == Append(front, w)
           gs == [fs EXCEPT ![n + 1] = v]
           hs == Append(front, v)
<1>1. /\ n \in Nat /\ fs \in Seq(S) /\ Len(fs) = n + 1
      /\ \A i \in 1 .. n : fs[i] = front[i]
  OBVIOUS
<1>2. /\ hs \in Seq(S) /\ Len(hs) = n + 1 /\ hs[n + 1] = v
      /\ \A i \in 1 .. n : hs[i] = front[i]
  OBVIOUS
<1> HIDE DEF n, fs, hs
<1>3. /\ gs \in Seq(S) /\ Len(gs) = n + 1
      /\ \A i \in 1 .. n + 1 : gs[i] = IF i = n + 1 THEN v ELSE fs[i]
  <2>1. n + 1 \in 1 .. Len(fs)
    BY <1>1
  <2> QED BY <1>1, <2>1, ExceptSeq
<1>4. \A i \in 1 .. n + 1 : gs[i] = hs[i]
  BY <1>1, <1>2, <1>3
<1> HIDE DEF gs
<1>5. gs = hs
  BY <1>2, <1>3, <1>4, SeqEqual
<1> QED BY <1>1, <1>5 DEF gs, hs, fs

-----------------------------------------------------------------------------
(* Folds along a sequence. *)

\* Induction on sequences that grow at the end.
LEMMA SequenceInduction ==
  ASSUME NEW C, NEW G, << >> \in G,
         \A s \in Seq(C), c \in C : s \in G => Append(s, c) \in G
  PROVE  Seq(C) \subseteq G
<1> DEFINE H == {n \in Nat : \A s \in Seq(C) : Len(s) = n => s \in G}
<1>1. 0 \in H
  <2>1. \A s \in Seq(C) : Len(s) = 0 => s = << >>
    OBVIOUS
  <2> QED BY <2>1
<1>2. ASSUME NEW n \in Nat, n \in H PROVE n + 1 \in H
  <2> SUFFICES ASSUME NEW s \in Seq(C), Len(s) = n + 1 PROVE s \in G
    BY <1>2
  <2> DEFINE t == [i \in 1 .. n |-> s[i]]
  <2>1. t \in Seq(C) /\ Len(t) = n /\ s[n + 1] \in C
    BY <1>2
  <2>2. s = Append(t, s[n + 1])
    <3>1. Append(t, s[n + 1]) \in Seq(C) /\ Len(Append(t, s[n + 1])) = n + 1
      BY <2>1
    <3>2. \A i \in 1 .. n + 1 : Append(t, s[n + 1])[i] = s[i]
      BY <2>1
    <3> HIDE DEF t
    <3> QED BY <3>1, <3>2
  <2>3. t \in G
    BY <1>2, <2>1
  <2> HIDE DEF t
  <2> QED BY <2>1, <2>2, <2>3
<1> HIDE DEF H
<1>3. Nat \subseteq H
  BY <1>1, <1>2, Inductive
<1>4. \A s \in Seq(C) : Len(s) \in Nat
  OBVIOUS
<1> QED BY <1>3, <1>4 DEF H

\* What a fold has reached after each element of s, where F[<<d, c>>] is what the element
\* c does to d.
IsTrace(f, D, base, F, s) ==
  /\ f \in [0 .. Len(s) -> D]
  /\ f[0] = base
  /\ \A i \in 1 .. Len(s) : f[i] = F[<<f[i - 1], s[i]>>]

\* One more element does what it does to what the fold had reached.
LEMMA TraceGrows ==
  ASSUME NEW C, NEW D, NEW base \in D, NEW F, NEW s \in Seq(C), NEW c \in C,
         NEW f, IsTrace(f, D, base, F, s), NEW g, IsTrace(g, D, base, F, Append(s, c))
  PROVE  g[Len(Append(s, c))] = F[<<f[Len(s)], c>>]
<1> DEFINE n == Len(s)
           t == Append(s, c)
           G == {m \in Nat : m <= n => f[m] = g[m]}
<1>1. n \in Nat /\ Len(t) = n + 1 /\ t[n + 1] = c /\ \A i \in 1 .. n : t[i] = s[i]
  OBVIOUS
<1>2. /\ f[0] = base /\ \A i \in 1 .. n : f[i] = F[<<f[i - 1], s[i]>>]
      /\ g[0] = base /\ \A i \in 1 .. n + 1 : g[i] = F[<<g[i - 1], t[i]>>]
  BY <1>1 DEF IsTrace
<1> HIDE DEF n, t
<1>3. \A m \in 0 .. n - 1 : f[m] = g[m] => f[m + 1] = g[m + 1]
  <2> SUFFICES ASSUME NEW m \in 0 .. n - 1, f[m] = g[m] PROVE f[m + 1] = g[m + 1]
    OBVIOUS
  <2>1. m + 1 \in 1 .. n /\ m + 1 \in 1 .. n + 1 /\ (m + 1) - 1 = m
    BY <1>1
  <2> QED BY <1>1, <1>2, <2>1
<1>4. 0 \in G /\ \A m \in 0 .. n - 1 : m \in G => m + 1 \in G
  BY <1>1, <1>2, <1>3
<1> HIDE DEF G
<1>5. 0 .. n \subseteq G
  BY <1>1, <1>4, InductiveUpTo
<1>6. f[n] = g[n]
  BY <1>1, <1>5 DEF G
<1>7. n + 1 \in 1 .. n + 1 /\ (n + 1) - 1 = n
  BY <1>1
<1> QED BY <1>1, <1>2, <1>6, <1>7 DEF n, t

\* r is the last of such a trace.
EndsTrace(r, D, base, F, s) == \E f : IsTrace(f, D, base, F, s) /\ r = f[Len(s)]

\* it, on the sets of the indices of s, is what F says.
Unrolls(it, D, base, F, s) ==
  /\ it[{}] = base
  /\ \A x \in SUBSET (1 .. Len(s)) :
       x # {} /\ it[x \ {Max(x)}] \in D => it[x] = F[<<it[x \ {Max(x)}], s[Max(x)]>>]

\* FoldLeft's function, if it is what F says, is a trace on the first indices.
LEMMA FoldIsTrace ==
  ASSUME NEW C, NEW D, NEW base \in D, NEW s \in Seq(C), NEW F \in [D \X C -> D],
         NEW it, Unrolls(it, D, base, F, s)
  PROVE  EndsTrace(it[1 .. Len(s)], D, base, F, s)
<1> DEFINE n == Len(s)
           f == [m \in 0 .. n |-> it[1 .. m]]
           Stays(m) == it[1 .. m] \in D
           G == {m \in Nat : Stays(m)}
<1>1. n \in Nat /\ \A i \in 1 .. n : s[i] \in C
  OBVIOUS
<1> HIDE DEF n
<1>2. it[1 .. 0] = base
  <2>1. 1 .. 0 = {}
    OBVIOUS
  <2> QED BY <2>1 DEF Unrolls
<1>3. ASSUME NEW m \in 0 .. n - 1, it[1 .. m] \in D
      PROVE  it[1 .. m + 1] = F[<<it[1 .. m], s[m + 1]>>] /\ it[1 .. m + 1] \in D
  <2>1. m + 1 \in Nat \ {0} /\ 1 .. m + 1 \in SUBSET (1 .. n) /\ (m + 1) - 1 = m
        /\ m + 1 \in 1 .. n
    BY <1>1
  <2>2. Max(1 .. m + 1) = m + 1 /\ (1 .. m + 1) \ {m + 1} = 1 .. m /\ 1 .. m + 1 # {}
    BY <2>1, MaxOfFirst
  <2>3. it[1 .. m + 1] = F[<<it[1 .. m], s[m + 1]>>]
    BY <1>3, <2>1, <2>2 DEF n, Unrolls
  <2>4. <<it[1 .. m], s[m + 1]>> \in D \X C
    BY <1>1, <1>3, <2>1
  <2> QED BY <2>3, <2>4
<1>4. Stays(0) /\ \A m \in 0 .. n - 1 : Stays(m) => Stays(m + 1)
  BY <1>2, <1>3
<1> HIDE DEF Stays
<1>5. 0 \in G /\ \A m \in 0 .. n - 1 : m \in G => m + 1 \in G
  BY <1>1, <1>4
<1> HIDE DEF G
<1>6. \A m \in 0 .. n : it[1 .. m] \in D
  <2>1. 0 .. n \subseteq G
    BY <1>1, <1>5, InductiveUpTo
  <2> QED BY <2>1 DEF G, Stays
<1>7. f \in [0 .. n -> D] /\ f[0] = base
  BY <1>1, <1>2, <1>6
<1>8. ASSUME NEW i \in 1 .. n PROVE f[i] = F[<<f[i - 1], s[i]>>]
  <2>1. i - 1 \in 0 .. n - 1 /\ (i - 1) + 1 = i /\ i \in 0 .. n /\ i - 1 \in 0 .. n
    BY <1>1
  <2>2. it[1 .. i - 1] \in D
    BY <1>6, <2>1
  <2>3. it[1 .. (i - 1) + 1] = F[<<it[1 .. i - 1], s[(i - 1) + 1]>>]
    BY <1>3, <2>1, <2>2
  <2> QED BY <2>1, <2>3
<1>9. f[n] = it[1 .. n]
  BY <1>1
<1> HIDE DEF f
<1>10. IsTrace(f, D, base, F, s)
  BY <1>7, <1>8 DEF IsTrace, n
<1> QED BY <1>9, <1>10, Zenon DEF EndsTrace, n

\* The function that FoldLeft defines on the sets of the indices of s.
IsFoldAlong(g, D, base, F, s) ==
  /\ g \in [SUBSET (1 .. Len(s)) -> D]
  /\ \A x \in SUBSET (1 .. Len(s)) :
       /\ x # {} => Max(x) \in 1 .. Len(s) /\ g[x \ {Max(x)}] \in D
       /\ g[x] = IF x = {} THEN base ELSE F[<<g[x \ {Max(x)}], s[Max(x)]>>]

LEMMA FoldAlongExists ==
  ASSUME NEW C, NEW D, NEW base \in D, NEW s \in Seq(C), NEW F \in [D \X C -> D]
  PROVE  \E g : IsFoldAlong(g, D, base, F, s)
<1> DEFINE n == Len(s)
           step == [i \in 1 .. n |-> [d \in D |-> F[<<d, s[i]>>]]]
<1>1. n \in Nat /\ \A i \in 1 .. n : s[i] \in C
  OBVIOUS
<1> HIDE DEF n
<1>2. \A i \in 1 .. n, d \in D : F[<<d, s[i]>>] \in D
  BY <1>1
<1>3. step \in [1 .. n -> [D -> D]]
  BY <1>2
<1>4. \A i \in 1 .. n, d \in D : step[i][d] = F[<<d, s[i]>>]
  OBVIOUS
<1> HIDE DEF step
<1>5. PICK g : IsFold(g, D, base, n, step)
  BY <1>1, <1>3, FoldExists, Zenon
<1>6. ASSUME NEW x \in SUBSET (1 .. n)
      PROVE  /\ x # {} => Max(x) \in 1 .. n /\ g[x \ {Max(x)}] \in D
             /\ g[x] = IF x = {} THEN base ELSE F[<<g[x \ {Max(x)}], s[Max(x)]>>]
  <2>1. CASE x = {}
    BY <1>5, <2>1 DEF IsFold
  <2>2. CASE x # {}
    <3>1. Max(x) \in 1 .. n
      BY <1>1, <2>2, MaxIsMember
    <3>2. g[x \ {Max(x)}] \in D
      BY <1>5 DEF IsFold
    <3>3. g[x] = step[Max(x)][g[x \ {Max(x)}]]
      BY <1>5, <2>2, Zenon DEF IsFold
    <3> QED BY <1>4, <2>2, <3>1, <3>2, <3>3
  <2> QED BY <2>1, <2>2
<1>7. g \in [SUBSET (1 .. n) -> D]
  BY <1>5 DEF IsFold
<1>8. IsFoldAlong(g, D, base, F, s)
  BY <1>6, <1>7 DEF IsFoldAlong, n
<1> QED BY <1>8, Zenon

\* R, given on sequences over C, is the fold of F.
Folds(R, C, D, base, F) ==
  /\ R[<< >>] = base
  /\ \A s \in Seq(C) : R[s] \in D
  /\ \A s \in Seq(C), c \in C : R[Append(s, c)] = F[<<R[s], c>>]

LEMMA TracesAreFolds ==
  ASSUME NEW C, NEW D, NEW base \in D, NEW F, NEW R,
         \A s \in Seq(C) : EndsTrace(R[s], D, base, F, s)
  PROVE  Folds(R, C, D, base, F)
<1>1. R[<< >>] = base
  <2>1. << >> \in Seq(C) /\ Len(<< >>) = 0
    OBVIOUS
  <2>2. PICK f : IsTrace(f, D, base, F, << >>) /\ R[<< >>] = f[Len(<< >>)]
    BY <2>1, Zenon DEF EndsTrace
  <2> QED BY <2>1, <2>2 DEF IsTrace
<1>2. ASSUME NEW s \in Seq(C) PROVE R[s] \in D
  <2>1. PICK f : IsTrace(f, D, base, F, s) /\ R[s] = f[Len(s)]
    BY Zenon DEF EndsTrace
  <2>2. Len(s) \in 0 .. Len(s)
    OBVIOUS
  <2> QED BY <2>1, <2>2 DEF IsTrace
<1>3. ASSUME NEW s \in Seq(C), NEW c \in C PROVE R[Append(s, c)] = F[<<R[s], c>>]
  <2>1. PICK f : IsTrace(f, D, base, F, s) /\ R[s] = f[Len(s)]
    BY Zenon DEF EndsTrace
  <2>2. Append(s, c) \in Seq(C)
    OBVIOUS
  <2>3. PICK g : IsTrace(g, D, base, F, Append(s, c)) /\ R[Append(s, c)] = g[Len(Append(s, c))]
    BY <2>2, Zenon DEF EndsTrace
  <2> QED BY <2>1, <2>3, TraceGrows
<1> QED BY <1>1, <1>2, <1>3 DEF Folds

-----------------------------------------------------------------------------
(* FlattenSeq. *)

\* What has been put together after each of the sequences.
LEMMA FlattenUnrolls ==
  ASSUME NEW S, NEW ss \in Seq(Seq(S)), ss # << >>
  PROVE  \E f \in [1 .. Len(ss) -> Seq(S)] :
           /\ \A i \in 1 .. Len(ss) : f[i] = IF i = 1 THEN ss[1] ELSE f[i - 1] \o ss[i]
           /\ FlattenSeq(ss) = f[Len(ss)]
<1> DEFINE n == Len(ss)
           Good(m, g) == \A i \in 1 .. m : g[i] = IF i = 1 THEN ss[i] ELSE g[i - 1] \o ss[i]
           Has(m) == \E g \in [1 .. m -> Seq(S)] : Good(m, g)
           G == {m \in Nat : Has(m)}
           flatten == CHOOSE f : f = [i \in 1 .. Len(ss) |->
                                        IF i = 1 THEN ss[i] ELSE f[i - 1] \o ss[i]]
<1>1. n \in Nat \ {0} /\ \A i \in 1 .. n : ss[i] \in Seq(S)
  OBVIOUS
<1> HIDE DEF n
<1>2. Has(0)
  <2> DEFINE g == [i \in 1 .. 0 |-> << >>]
  <2>1. g \in [1 .. 0 -> Seq(S)]
    OBVIOUS
  <2>2. \A i \in 1 .. 0 : FALSE
    OBVIOUS
  <2> HIDE DEF g
  <2> QED BY <2>1, <2>2, Zenon
<1>3. ASSUME NEW m \in 0 .. n - 1, Has(m) PROVE Has(m + 1)
  <2>g. PICK g \in [1 .. m -> Seq(S)] : Good(m, g)
    BY <1>3, Zenon
  <2> DEFINE top == IF m = 0 THEN ss[1] ELSE g[m] \o ss[m + 1]
             h == [i \in 1 .. m + 1 |-> IF i = m + 1 THEN top ELSE g[i]]
  <2>1. top \in Seq(S)
    BY <1>1
  <2>2. h \in [1 .. m + 1 -> Seq(S)]
    BY <2>1
  <2>3. ASSUME NEW i \in 1 .. m + 1
        PROVE  h[i] = IF i = 1 THEN ss[i] ELSE h[i - 1] \o ss[i]
    <3>1. CASE i = m + 1
      BY <3>1
    <3>2. CASE i # m + 1
      <4>1. i \in 1 .. m /\ h[i] = g[i] /\ (i # 1 => h[i - 1] = g[i - 1])
        BY <3>2
      <4> HIDE DEF h, top
      <4> QED BY <4>1, <2>g
    <3> QED BY <3>1, <3>2
  <2> HIDE DEF h, top
  <2> QED BY <2>2, <2>3, Zenon
<1> HIDE DEF Has
<1>4. 0 \in G /\ \A m \in 0 .. n - 1 : m \in G => m + 1 \in G
  BY <1>1, <1>2, <1>3
<1> HIDE DEF G
<1>5. n \in G
  <2>1. n \in Nat /\ n \in 0 .. n
    BY <1>1
  <2>2. 0 .. n \subseteq G
    BY <1>4, <2>1, InductiveUpTo
  <2> QED BY <2>1, <2>2
<1>6. Has(n)
  BY <1>5 DEF G
<1>7. PICK g \in [1 .. n -> Seq(S)] : Good(n, g)
  BY <1>6, Zenon DEF Has
<1>8. g = [i \in 1 .. Len(ss) |-> IF i = 1 THEN ss[i] ELSE g[i - 1] \o ss[i]]
  BY <1>7 DEF n
<1>9. flatten = [i \in 1 .. Len(ss) |-> IF i = 1 THEN ss[i] ELSE flatten[i - 1] \o ss[i]]
  BY <1>8, Zenon
<1>10. FlattenSeq(ss) = flatten[Len(ss)]
  BY <1>1, Zenon DEF FlattenSeq, n
<1> HIDE DEF flatten
<1>11. \A i \in 1 .. n : flatten[i] = IF i = 1 THEN ss[i] ELSE flatten[i - 1] \o ss[i]
  BY <1>9 DEF n
<1>12. \A i \in 1 .. n : flatten[i] = g[i]
  <2> DEFINE E == {i \in Nat : i = 0 \/ flatten[i] = g[i]}
  <2>1. ASSUME NEW i \in 0 .. n - 1, i \in E PROVE flatten[i + 1] = g[i + 1]
    <3>1. i + 1 \in 1 .. n /\ (i + 1) - 1 = i /\ (i + 1 = 1 <=> i = 0)
      BY <1>1
    <3>2. /\ flatten[i + 1] = IF i + 1 = 1 THEN ss[i + 1] ELSE flatten[i] \o ss[i + 1]
          /\ g[i + 1] = IF i + 1 = 1 THEN ss[i + 1] ELSE g[i] \o ss[i + 1]
      BY <1>7, <1>11, <3>1
    <3> QED BY <2>1, <3>1, <3>2
  <2>2. \A i \in 0 .. n - 1 : i \in E => i + 1 \in E
    <3> SUFFICES ASSUME NEW i \in 0 .. n - 1, i \in E PROVE i + 1 \in E
      OBVIOUS
    <3>1. flatten[i + 1] = g[i + 1]
      BY <2>1
    <3> QED BY <3>1
  <2>3. 0 \in E
    OBVIOUS
  <2> HIDE DEF E
  <2>4. 0 .. n \subseteq E
    BY <1>1, <2>2, <2>3, InductiveUpTo
  <2> QED BY <1>1, <2>4 DEF E
<1>13. FlattenSeq(ss) = g[Len(ss)]
  BY <1>1, <1>10, <1>12 DEF n
<1>14. \A i \in 1 .. Len(ss) : g[i] = IF i = 1 THEN ss[1] ELSE g[i - 1] \o ss[i]
  BY <1>7 DEF n
<1> QED BY <1>13, <1>14, Zenon DEF n

\* One more sequence put behind the others.
LEMMA FlattenGrows ==
  ASSUME NEW S, NEW ss \in Seq(Seq(S)), NEW x \in Seq(S)
  PROVE  FlattenSeq(ss) \in Seq(S) /\ FlattenSeq(Append(ss, x)) = FlattenSeq(ss) \o x
<1> DEFINE n == Len(ss)
           tt == Append(ss, x)
<1>1. n \in Nat /\ tt \in Seq(Seq(S)) /\ Len(tt) = n + 1 /\ tt[n + 1] = x
      /\ \A i \in 1 .. n : tt[i] = ss[i]
  OBVIOUS
<1>2. tt # << >>
  <2>1. Len(<< >>) = 0
    OBVIOUS
  <2> HIDE DEF n, tt
  <2> QED BY <1>1, <2>1
<1> HIDE DEF n, tt
<1>3. PICK g \in [1 .. Len(tt) -> Seq(S)] :
        /\ \A i \in 1 .. Len(tt) : g[i] = IF i = 1 THEN tt[1] ELSE g[i - 1] \o tt[i]
        /\ FlattenSeq(tt) = g[Len(tt)]
  BY <1>1, <1>2, FlattenUnrolls
<1>4. CASE n = 0
  <2>1. ss = << >> /\ FlattenSeq(ss) = ss
    BY <1>4 DEF n, FlattenSeq
  <2>2. FlattenSeq(tt) = x
    BY <1>1, <1>3, <1>4
  <2>3. << >> \in Seq(S) /\ << >> \o x = x
    BY SequencesGrow, ConcatEmptySeq
  <2> QED BY <2>1, <2>2, <2>3 DEF tt
<1>5. CASE n # 0
  <2>1. ss # << >>
    <3>1. Len(<< >>) = 0
      OBVIOUS
    <3> QED BY <1>5, <3>1 DEF n
  <2>2. PICK f \in [1 .. Len(ss) -> Seq(S)] :
          /\ \A i \in 1 .. Len(ss) : f[i] = IF i = 1 THEN ss[1] ELSE f[i - 1] \o ss[i]
          /\ FlattenSeq(ss) = f[Len(ss)]
    BY <2>1, FlattenUnrolls
  <2> DEFINE G == {m \in Nat : m + 1 <= n => f[m + 1] = g[m + 1]}
  <2>3. 0 \in G
    <3>1. 1 \in 1 .. n /\ 1 \in 1 .. n + 1
      BY <1>1, <1>5
    <3>2. f[1] = ss[1] /\ g[1] = tt[1] /\ tt[1] = ss[1]
      BY <1>1, <1>3, <2>2, <3>1 DEF n
    <3> QED BY <3>2
  <2>4. ASSUME NEW m \in 0 .. (n - 1) - 1, m \in G PROVE m + 1 \in G
    <3>1. /\ m + 1 \in 1 .. n /\ m + 2 \in 1 .. n /\ m + 2 \in 1 .. n + 1 /\ m + 2 # 1
          /\ (m + 2) - 1 = m + 1 /\ (m + 1) + 1 = m + 2 /\ m + 1 \in Nat /\ m + 1 <= n
      BY <1>1
    <3>2. f[m + 1] = g[m + 1]
      BY <2>4, <3>1
    <3>3. f[m + 2] = f[m + 1] \o ss[m + 2]
      BY <2>2, <3>1 DEF n
    <3>4. g[m + 2] = g[m + 1] \o tt[m + 2]
      BY <1>1, <1>3, <3>1
    <3> QED BY <1>1, <3>1, <3>2, <3>3, <3>4
  <2> HIDE DEF G
  <2>5. n - 1 \in Nat /\ n - 1 \in 0 .. n - 1 /\ (n - 1) + 1 = n
        /\ n \in 1 .. n /\ n + 1 \in 1 .. n + 1 /\ n + 1 # 1 /\ (n + 1) - 1 = n
    BY <1>1, <1>5
  <2>6. 0 .. n - 1 \subseteq G
    BY <2>3, <2>4, <2>5, InductiveUpTo
  <2>7. f[n] = g[n]
    <3>1. n - 1 \in G
      BY <2>5, <2>6
    <3>2. (n - 1) + 1 <= n
      BY <1>1
    <3>3. f[(n - 1) + 1] = g[(n - 1) + 1]
      BY <3>1, <3>2 DEF G
    <3> QED BY <2>5, <3>3
  <2>8. FlattenSeq(ss) = f[n] /\ f[n] \in Seq(S)
    BY <2>2, <2>5 DEF n
  <2>9. FlattenSeq(tt) = g[n] \o x
    BY <1>1, <1>3, <2>5
  <2> QED BY <2>7, <2>8, <2>9 DEF tt
<1> QED BY <1>4, <1>5

\* What F makes of each member, put together; and with one more.
FlatMap(F, s) == FlattenSeq([i \in DOMAIN s |-> F[s[i]]])

\* One more member puts what F makes of it behind the others.
LEMMA FlattenMapped ==
  ASSUME NEW S, NEW C, NEW F, \A x \in C : F[x] \in Seq(S)
  PROVE  \A s \in Seq(C), c \in C :
           FlatMap(F, s) \in Seq(S) /\ FlatMap(F, Append(s, c)) = FlatMap(F, s) \o F[c]
<1> SUFFICES ASSUME NEW s \in Seq(C), NEW c \in C
             PROVE  FlatMap(F, s) \in Seq(S) /\ FlatMap(F, Append(s, c)) = FlatMap(F, s) \o F[c]
  OBVIOUS
<1> DEFINE ss == [i \in DOMAIN s |-> F[s[i]]]
           tt == [i \in DOMAIN Append(s, c) |-> F[Append(s, c)[i]]]
           n == Len(s)
           X == Seq(S)
<1>1. /\ n \in Nat /\ DOMAIN s = 1 .. n /\ DOMAIN Append(s, c) = 1 .. n + 1
      /\ Append(s, c)[n + 1] = c
      /\ \A i \in 1 .. n : s[i] \in C /\ Append(s, c)[i] = s[i]
  OBVIOUS
<1>2. F[c] \in X /\ \A i \in 1 .. n : F[s[i]] \in X
  BY <1>1
<1> HIDE DEF X
<1>3. ss \in Seq(X) /\ Len(ss) = n /\ \A i \in 1 .. n : ss[i] = F[s[i]]
  BY <1>1, <1>2
<1>4. tt \in [1 .. n + 1 -> X]
  <2> SUFFICES ASSUME NEW i \in 1 .. n + 1 PROVE F[Append(s, c)[i]] \in X
    BY <1>1
  <2>1. CASE i = n + 1
    BY <1>1, <1>2, <2>1
  <2>2. CASE i # n + 1
    <3>1. i \in 1 .. n
      BY <1>1, <2>2
    <3> QED BY <1>1, <1>2, <3>1
  <2> QED BY <2>1, <2>2
<1>5. /\ tt \in Seq(X) /\ Len(tt) = n + 1 /\ tt[n + 1] = F[c]
      /\ \A i \in 1 .. n : tt[i] = F[s[i]]
  <2>1. tt \in Seq(X) /\ Len(tt) = n + 1
    BY <1>1, <1>4
  <2>2. tt[n + 1] = F[c]
    BY <1>1
  <2>3. \A i \in 1 .. n : tt[i] = F[s[i]]
    BY <1>1
  <2> QED BY <2>1, <2>2, <2>3
<1> HIDE DEF ss, tt, n
<1>6. tt = Append(ss, F[c])
  <2>1. Append(ss, F[c]) \in Seq(X) /\ Len(Append(ss, F[c])) = n + 1
    BY <1>1, <1>2, <1>3
  <2>2. \A i \in 1 .. n + 1 : Append(ss, F[c])[i] = tt[i]
    BY <1>1, <1>2, <1>3, <1>5
  <2> QED BY <1>5, <2>1, <2>2, SeqEqual
<1>7. FlattenSeq(ss) \in Seq(S) /\ FlattenSeq(Append(ss, F[c])) = FlattenSeq(ss) \o F[c]
  BY <1>2, <1>3, FlattenGrows DEF X
<1> QED BY <1>6, <1>7, Zenon DEF ss, tt, FlatMap

\* No members make nothing.
LEMMA FlattenNone == \A F : FlatMap(F, << >>) = << >>
<1> SUFFICES ASSUME NEW F PROVE FlatMap(F, << >>) = << >>
  OBVIOUS
<1> DEFINE e == [i \in DOMAIN << >> |-> F[(<< >>)[i]]]
<1>1. e = << >>
  OBVIOUS
<1> HIDE DEF e
<1>2. FlattenSeq(e) = << >>
  BY <1>1 DEF FlattenSeq
<1> QED BY <1>2, Zenon DEF e, FlatMap

\* Two sequences put together, index by index.
LEMMA ConcatParts ==
  ASSUME NEW S
  PROVE  \A a, b \in Seq(S) :
           /\ a \o b \in Seq(S) /\ Len(a \o b) = Len(a) + Len(b)
           /\ \A i \in 1 .. Len(a) : (a \o b)[i] = a[i]
           /\ \A i \in 1 .. Len(b) : (a \o b)[Len(a) + i] = b[i]
OBVIOUS
=============================================================================
