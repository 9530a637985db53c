----------------------- MODULE QuarantineIngestProofs -----------------------
(***************************************************************************)
(* Theorems about ingest-logs: what is banned is what the log names and no *)
(* entry excludes, all of it up to the first line that cannot be read, for *)
(* as long as asked, whatever the width of addresses and of integers, the  *)
(* chunks and the answers of the daemon.                                   *)
(***************************************************************************)
EXTENDS QuarantineIngest, TLAPS

-----------------------------------------------------------------------------
(* Networks. *)

\* The base address of a network lies in it.
LEMMA QuotientOfMultiple ==
  ASSUME NEW q \in Nat, NEW k \in Nat \ {0}
  PROVE  (q * k) \div k = q
  BY SMTT(30)

LEMMA BaseIsNoLarger ==
  ASSUME NEW a \in Nat, NEW k \in Nat \ {0}
  PROVE  a \div k \in Nat /\ (a \div k) * k \in 0 .. a
  BY SMTT(30)

\* A resolved target is a network of addresses.
LEMMA ResolveType ==
  ASSUME NEW v \in Value, NEW exact \in BOOLEAN
  PROVE  Resolve(v, exact) \in [addr : Address, len : 0 .. Width]
<1>1. Size[0] \in Nat \ {0} /\ Size[Home] \in Nat \ {0} /\ Home \in 0 .. Width
  BY IngestAssumption
<1>2. v.addr \in 0 .. Size[0] - 1 /\ v.len \in 0 .. Width
  BY DEF Value, Address
<1>3. Network(v.addr, Home) * Size[Home] \in 0 .. v.addr
  BY <1>1, <1>2, BaseIsNoLarger DEF Network
<1>4. Network(v.addr, Home) * Size[Home] \in Address
  BY <1>1, <1>2, <1>3 DEF Address
<1> QED
  BY <1>1, <1>2, <1>4 DEF Resolve, Address

\* The addresses of a resolved target: those of the network as written, or of the
\* home network.
LEMMA ResolveCovers ==
  ASSUME NEW v \in Value, NEW exact \in BOOLEAN, NEW a \in Address
  PROVE  LET len == IF v.slash \/ exact THEN v.len ELSE Home
         IN  Contains(Resolve(v, exact), a) <=> Network(a, len) = Network(v.addr, len)
<1>1. CASE v.slash \/ exact
  BY <1>1 DEF Contains, Resolve
<1>2. CASE ~(v.slash \/ exact)
  <2>1. Size[0] \in Nat \ {0} /\ Size[Home] \in Nat \ {0}
    BY IngestAssumption
  <2>2. v.addr \in Nat
    BY <2>1 DEF Value, Address
  <2>3. Network(v.addr, Home) \in Nat
    BY <2>1, <2>2, BaseIsNoLarger DEF Network
  <2>4. Network(Network(v.addr, Home) * Size[Home], Home) = Network(v.addr, Home)
    BY <2>1, <2>3, QuotientOfMultiple DEF Network
  <2> QED
    BY <1>2, <2>4 DEF Contains, Resolve
<1> QED
  BY <1>1, <1>2

\* A lone address is in a network of its own.
LEMMA LoneAddress ==
  ASSUME NEW v \in Value, ~v.slash, NEW a \in Address
  PROVE  Contains(v, a) <=> a = v.addr
<1>1. v.len = Width /\ v.addr \in Address
  BY DEF Value
<1>2. Size[Width] = 1 /\ Size[0] \in Nat \ {0}
  BY IngestAssumption
<1>3. a \in Nat /\ v.addr \in Nat
  BY <1>1, <1>2 DEF Address
<1> QED
  BY <1>1, <1>2, <1>3 DEF Contains, Network

-----------------------------------------------------------------------------
(* Lines. *)

\* What is taken from a line is what it names.
LEMMA ExtractIsNames ==
  ASSUME NEW line \in Line, NEW v
  PROVE  v \in Extract(line) <=> Names(line, v)
<1>1. line \in [comment : BOOLEAN, tokens : SUBSET Token]
  BY IngestAssumption
<1> DEFINE Found(keyed) == UNION {t.value : t \in {u \in line.tokens : u.keyed = keyed}}
<1>2. \A t \in line.tokens : t.keyed \in BOOLEAN
  BY <1>1 DEF Token
<1>3. \A k \in BOOLEAN : v \in Found(k) <=> \E t \in line.tokens : t.keyed = k /\ v \in t.value
  OBVIOUS
<1>4. Found(TRUE) = {} <=> \A u \in line.tokens : u.keyed => u.value = {}
  BY <1>2
<1>5. CASE line.comment
  BY <1>5 DEF Extract, Names
<1>6. CASE ~line.comment /\ Found(TRUE) # {}
  <2>1. Extract(line) = Found(TRUE)
    BY <1>6 DEF Extract
  <2>2. Names(line, v) <=> \E t \in line.tokens : v \in t.value /\ t.keyed
    BY <1>4, <1>6 DEF Names
  <2> QED
    BY <1>2, <1>3, <2>1, <2>2
<1>7. CASE ~line.comment /\ Found(TRUE) = {}
  <2>1. Extract(line) = Found(FALSE)
    BY <1>7 DEF Extract
  <2>2. Names(line, v) <=> \E t \in line.tokens : v \in t.value
    BY <1>4, <1>7 DEF Names
  <2>3. \A t \in line.tokens : v \in t.value => ~t.keyed
    BY <1>4, <1>7
  <2> QED
    BY <1>2, <1>3, <2>1, <2>2, <2>3
<1> QED
  BY <1>1, <1>5, <1>6, <1>7

LEMMA NamedValue ==
  ASSUME NEW line \in Line, NEW v, Names(line, v)
  PROVE  v \in Value /\ \E t \in line.tokens : v \in t.value
  BY IngestAssumption DEF Names, Token

-----------------------------------------------------------------------------
(* Durations. *)

\* What is asked for, in seconds, before anything overflows.
AskedSeconds ==
  IF args.text.digits = Failed THEN 86400
  ELSE args.text.digits * Multiplier(args.text.unit)

ArgsOK == args \in [excludes : Exclude, exact : BOOLEAN, text : Duration, checked : BOOLEAN]

\* A result is exact, wrapped or none.
LEMMA FitsExactly ==
  ASSUME NEW checked \in BOOLEAN, NEW n \in Nat
  PROVE  /\ Fits(checked, n) \in 0 .. Word - 1 \cup {Failed}
         /\ (checked /\ Fits(checked, n) # Failed) \/ n < Word => Fits(checked, n) = n
  BY IngestAssumption, SMT DEF Fits, Failed

LEMMA KnownUnits ==
  ASSUME NEW unit \in Units
  PROVE  Multiplier(unit) \in Nat
  BY DEF Units, Multiplier

\* The seconds of the command are those asked for, unless they have wrapped.
LEMMA SecondsAsAsked ==
  ASSUME ArgsOK, Seconds # Failed
  PROVE  /\ AskedSeconds \in Nat
         /\ Asked = 1000 * AskedSeconds
         /\ Seconds \in Nat
         /\ args.checked \/ AskedSeconds < Word => Seconds = AskedSeconds
<1>1. /\ args.checked \in BOOLEAN /\ args.text.digits \in Nat \cup {Failed}
  BY IngestAssumption DEF ArgsOK, Text
<1>2. Asked = 1000 * AskedSeconds
  BY DEF Asked, AskedSeconds
<1>3. CASE args.text.digits = Failed
  <2>1. args.text.digits \notin 0 .. Word - 1
    BY <1>3, IngestAssumption DEF Failed
  <2>2. Seconds = 86400 /\ AskedSeconds = 86400
    BY <1>3, <2>1 DEF Seconds, ParseDuration, AskedSeconds
  <2> QED
    BY <1>2, <2>2
<1>4. CASE args.text.digits # Failed
  <2> DEFINE n == args.text.digits * Multiplier(args.text.unit)
  <2>1. args.text.unit \in Units /\ Seconds = Fits(args.checked, n) /\ AskedSeconds = n
    BY <1>4 DEF Seconds, ParseDuration, AskedSeconds
  <2>2. Multiplier(args.text.unit) \in Nat /\ args.text.digits \in Nat
    BY <1>1, <1>4, <2>1, KnownUnits
  <2>3. n \in Nat
    BY <2>2
  <2> HIDE DEF n
  <2> QED
    BY <1>1, <1>2, <2>1, <2>3, FitsExactly, IngestAssumption DEF Failed
<1> QED
  BY <1>3, <1>4

\* An expiry is the milliseconds after the instant it counts from.
LEMMA ExpiryAsAsked ==
  ASSUME NEW checked \in BOOLEAN, NEW at \in Nat, NEW secs \in Nat,
         Expiry(checked, at, secs) # Failed
  PROVE  /\ Expiry(checked, at, secs) \in 0 .. Word - 1
         /\ checked \/ at + secs * 1000 < Word => Expiry(checked, at, secs) = at + secs * 1000
<1> DEFINE ms == Fits(checked, secs * 1000)
<1>1. secs * 1000 \in Nat
  OBVIOUS
<1>2. ms # Failed /\ Expiry(checked, at, secs) = Fits(checked, at + ms)
  BY DEF Expiry
<1>3. ms \in Nat /\ (checked \/ secs * 1000 < Word => ms = secs * 1000)
  BY <1>1, <1>2, FitsExactly, IngestAssumption
<1> HIDE DEF ms
<1>4. at + ms \in Nat
  BY <1>3
<1>5. Expiry(checked, at, secs) \in 0 .. Word - 1
  BY <1>2, <1>4, FitsExactly
<1>6. ASSUME checked \/ at + secs * 1000 < Word
      PROVE  Expiry(checked, at, secs) = at + secs * 1000
  <2>1. ms = secs * 1000
    BY <1>1, <1>3, <1>6, IngestAssumption
  <2> QED
    BY <1>2, <1>4, <1>6, <2>1, FitsExactly
<1> QED
  BY <1>5, <1>6

\* What is printed for a chunk parses to the same number of seconds.
LEMMA PrintedSeconds ==
  ASSUME NEW checked \in BOOLEAN, NEW secs \in Nat,
         ParseDuration(checked, Printed(secs)) # Failed
  PROVE  ParseDuration(checked, Printed(secs)) = secs
<1>1. Printed(secs).digits = secs /\ Printed(secs).unit = "none" /\ secs # Failed
  BY DEF Printed, Failed
<1>2. /\ secs \in 0 .. Word - 1
      /\ ParseDuration(checked, Printed(secs)) = Fits(checked, secs * Multiplier("none"))
  BY <1>1 DEF ParseDuration
<1>3. Multiplier("none") = 1 /\ secs * 1 = secs /\ secs < Word
  BY <1>2, IngestAssumption DEF Multiplier
<1>4. Fits(checked, secs) = secs
  BY <1>3 DEF Fits
<1> QED
  BY <1>2, <1>3, <1>4

-----------------------------------------------------------------------------
(* The invariant: besides the types, that a command goes on only with a duration *)
(* that was parsed, and the three statements about the bans, the first two said  *)
(* of targets and bans together.                                                 *)

\* The lines read so far.
Lines == {log[i] : i \in 1 .. read}

Wanted(line, v) == Names(line, v) /\ ~IsExcluded(v.addr, args.excludes)

\* Where each target and each ban comes from.
FromTheLog ==
  /\ \A v \in targets : \E line \in Lines : Wanted(line, v)
  /\ \A b \in bans : \E line \in Lines, v \in Value :
       Wanted(line, v) /\ b.net = Resolve(v, args.exact)

\* What a line names is still to be banned or banned.
NothingLost ==
  pc # "failed" =>
    \A line \in Lines : \A v \in Value : Wanted(line, v) =>
      v \in targets \/ \E b \in bans : b.net = Resolve(v, args.exact)

Going ==
  /\ pc \in {"read", "ban"} => Seconds # Failed
  /\ pc = "complete" => targets = {}

\* What is read can be, and nothing that comes next can when the input has ended.
InputRead ==
  /\ \A i \in 1 .. read : log[i] # Unreadable
  /\ pc \in {"ban", "complete"} => ~MoreInput

IngestInv ==
  IngestTypeOK /\ Going /\ InputRead /\ FromTheLog /\ NothingLost /\ BansLastAsAsked

LEMMA LogIsSeq ==
  ASSUME NEW n \in Nat, NEW l \in [1 .. n -> Line \cup {Unreadable}]
  PROVE  l \in Seq(Line \cup {Unreadable})
  OBVIOUS

\* As long as the input stays and nothing is read, neither do the lines change.
LEMMA SameLines ==
  ASSUME UNCHANGED <<log, read>>
  PROVE  Lines' = Lines /\ (MoreInput <=> MoreInput')
  BY DEF Lines, MoreInput

\* What has been read are lines, and readable ones.
LEMMA LinesAreRead ==
  ASSUME IngestInv
  PROVE  Lines \subseteq Line /\ Lines \subseteq Readable
<1>1. /\ log \in Seq(Line \cup {Unreadable}) /\ read \in 0 .. Len(log)
      /\ \A i \in 1 .. read : log[i] # Unreadable
  BY DEF IngestInv, IngestTypeOK, InputRead
<1>2. \A i \in 1 .. read :
        i \in DOMAIN log /\ log[i] \in Line /\ \A j \in 1 .. i : log[j] # Unreadable
  BY <1>1
<1> QED
  BY <1>2 DEF Lines, Readable

\* Once the input has ended they are all that can be read.
LEMMA AllIsRead ==
  ASSUME IngestInv, ~MoreInput
  PROVE  Readable \subseteq Lines
<1>1. log \in Seq(Line \cup {Unreadable}) /\ read \in 0 .. Len(log)
  BY DEF IngestInv, IngestTypeOK
<1>2. ASSUME NEW k \in DOMAIN log, \A j \in 1 .. k : log[j] # Unreadable
      PROVE  k \in 1 .. read
  <2>1. k \in 1 .. Len(log)
    BY <1>1
  <2>2. CASE k > read
    <3>1. read + 1 \in 1 .. k /\ read < Len(log)
      BY <1>1, <2>1, <2>2
    <3> QED
      BY <1>2, <3>1 DEF MoreInput
  <2> QED
    BY <1>1, <2>1, <2>2
<1> QED
  BY <1>2 DEF Lines, Readable

LEMMA IngestInvInit == Init => IngestInv
<1> SUFFICES ASSUME Init PROVE IngestInv
  OBVIOUS
<1>1. read = 0 /\ targets = {} /\ bans = {} /\ now = Start
  BY DEF Init
<1>2. /\ args \in [excludes : Exclude, exact : BOOLEAN, text : Duration, checked : BOOLEAN]
      /\ pc = IF Seconds = Failed THEN "failed" ELSE "read"
  BY DEF Init, Seconds
<1>3. now \in Start .. MaxTime
  BY <1>1, IngestAssumption
<1>4. IngestTypeOK
  <2>1. PICK n \in 0 .. MaxLines : log \in [1 .. n -> Line \cup {Unreadable}]
    BY DEF Init
  <2>2. log \in Seq(Line \cup {Unreadable})
    BY <2>1, LogIsSeq, IngestAssumption
  <2> QED
    BY <1>1, <1>2, <1>3, <2>2 DEF IngestTypeOK
<1>5. Going /\ InputRead /\ Lines = {}
  BY <1>1, <1>2 DEF Going, InputRead, Lines
<1> QED
  BY <1>1, <1>4, <1>5 DEF IngestInv, FromTheLog, NothingLost, BansLastAsAsked

\* What is asked for is a number as long as the command goes on.
LEMMA AskedIsNumber ==
  ASSUME IngestInv, pc \in {"read", "ban"}
  PROVE  Asked \in Nat /\ now \in Nat /\ Start \in Nat /\ ArgsOK /\ args.checked \in BOOLEAN
<1>1. ArgsOK /\ Seconds # Failed /\ now \in Start .. MaxTime
  BY DEF IngestInv, IngestTypeOK, Going, ArgsOK
<1>2. Asked \in Nat
  BY <1>1, SecondsAsAsked
<1> QED
  BY <1>1, <1>2, IngestAssumption DEF ArgsOK

LEMMA TickKeeps == IngestInv /\ Tick => IngestInv'
<1> SUFFICES ASSUME IngestInv, Tick PROVE IngestInv'
  OBVIOUS
<1>1. /\ UNCHANGED <<pc, args, log, read, targets, bans>>
      /\ now' = now + 1 /\ now < MaxTime /\ pc \in {"read", "ban"}
  BY DEF Tick
<1>2. Asked \in Nat /\ now \in Start .. MaxTime /\ Start \in Nat /\ MaxTime \in Nat
  BY <1>1, AskedIsNumber, IngestAssumption DEF IngestInv, IngestTypeOK
<1>3. IngestTypeOK'
  <2>1. now' \in Start .. MaxTime
    BY <1>1, <1>2
  <2> QED
    BY <1>1, <2>1 DEF IngestInv, IngestTypeOK
<1>4. Going' /\ InputRead' /\ FromTheLog' /\ NothingLost'
  BY <1>1, SameLines DEF IngestInv, Going, InputRead, Seconds, FromTheLog, NothingLost, Wanted
<1>5. BansLastAsAsked'
  <2> SUFFICES ASSUME NEW b \in bans, args.checked \/ now + 1 + Asked < Word
               PROVE  b.expires \in Start + Asked .. now + 1 + Asked
    BY <1>1 DEF BansLastAsAsked, Asked
  <2>1. args.checked \/ now + Asked < Word
    BY <1>2, IngestAssumption
  <2>2. b.expires \in Start + Asked .. now + Asked
    BY <2>1 DEF IngestInv, BansLastAsAsked
  <2> QED
    BY <1>2, <2>2
<1> QED
  BY <1>3, <1>4, <1>5 DEF IngestInv

LEMMA EndOfInputKeeps == IngestInv /\ EndOfInput => IngestInv'
<1> SUFFICES ASSUME IngestInv, EndOfInput PROVE IngestInv'
  OBVIOUS
<1>1. /\ UNCHANGED <<args, now, log, read, targets, bans>> /\ ~MoreInput
      /\ pc = "read" /\ pc' = IF targets = {} THEN "complete" ELSE "ban"
  BY DEF EndOfInput
<1>2. IngestTypeOK' /\ Going' /\ InputRead'
  BY <1>1, SameLines DEF IngestInv, IngestTypeOK, Going, InputRead, Seconds
<1>3. FromTheLog' /\ NothingLost' /\ BansLastAsAsked'
  BY <1>1, SameLines DEF IngestInv, FromTheLog, NothingLost, BansLastAsAsked, Wanted, Asked
<1> QED
  BY <1>2, <1>3 DEF IngestInv

LEMMA BanFailsKeeps == IngestInv /\ BanFails => IngestInv'
<1> SUFFICES ASSUME IngestInv, BanFails PROVE IngestInv'
  OBVIOUS
<1>1. UNCHANGED <<args, now, log, read, targets, bans>> /\ pc' = "failed"
  BY DEF BanFails
<1>2. IngestTypeOK' /\ Going' /\ InputRead'
  BY <1>1, SameLines DEF IngestInv, IngestTypeOK, Going, InputRead
<1>3. FromTheLog' /\ NothingLost' /\ BansLastAsAsked'
  BY <1>1, SameLines DEF IngestInv, FromTheLog, NothingLost, BansLastAsAsked, Wanted, Asked
<1> QED
  BY <1>2, <1>3 DEF IngestInv

LEMMA ReadLineKeeps == IngestInv /\ ReadLine => IngestInv'
<1> SUFFICES ASSUME IngestInv, ReadLine PROVE IngestInv'
  OBVIOUS
<1> DEFINE line == log[read + 1]
           new == {v \in Extract(line) : ~IsExcluded(v.addr, args.excludes)}
<1>1. /\ UNCHANGED <<pc, args, now, log, bans>> /\ pc = "read"
      /\ read' = read + 1 /\ targets' = targets \cup new
  BY DEF ReadLine
<1>2. /\ log \in Seq(Line \cup {Unreadable}) /\ read \in 0 .. Len(log)
      /\ read < Len(log) /\ line # Unreadable
  BY DEF IngestInv, IngestTypeOK, ReadLine, MoreInput
<1>3. line \in Line /\ read + 1 \in 0 .. Len(log)
  BY <1>2
<1>4. Lines' = Lines \cup {line}
  <2>1. 1 .. read + 1 = 1 .. read \cup {read + 1}
    BY <1>2
  <2> QED
    BY <1>1, <2>1 DEF Lines
<1>5. InputRead'
  <2>1. \A i \in 1 .. read + 1 : i \in 1 .. read \/ i = read + 1
    BY <1>2
  <2> QED
    BY <1>1, <1>2, <2>1 DEF IngestInv, InputRead
<1> HIDE DEF line
<1>6. \A v : v \in new <=> Wanted(line, v)
  BY <1>3, ExtractIsNames DEF Wanted
<1>7. new \subseteq Value
  BY <1>3, <1>6, NamedValue DEF Wanted
<1> HIDE DEF new
<1>8. IngestTypeOK' /\ Going'
  BY <1>1, <1>3, <1>7 DEF IngestInv, IngestTypeOK, Going, Seconds
<1>9. FromTheLog'
  BY <1>1, <1>4, <1>6 DEF IngestInv, FromTheLog, Wanted
<1>10. NothingLost'
  BY <1>1, <1>4, <1>6 DEF IngestInv, NothingLost, Wanted
<1>11. BansLastAsAsked'
  BY <1>1 DEF IngestInv, BansLastAsAsked, Asked
<1> QED
  BY <1>5, <1>8, <1>9, <1>10, <1>11 DEF IngestInv

LEMMA ChunkOfTargets ==
  ASSUME NEW chunk \in NextChunk
  PROVE  chunk \subseteq targets
  BY DEF NextChunk, kSubset

\* The bans of one chunk expire the asked time after the instant they count from.
LEMMA ChunkExpiry ==
  ASSUME IngestInv, pc = "ban", NEW at \in Start .. now,
         NEW secs, secs = ParseDuration(args.checked, Printed(Seconds)), secs # Failed,
         Expiry(args.checked, at, secs) # Failed
  PROVE  /\ Expiry(args.checked, at, secs) \in 0 .. Word - 1
         /\ args.checked \/ now + Asked < Word
              => Expiry(args.checked, at, secs) \in Start + Asked .. now + Asked
<1>1. /\ Asked \in Nat /\ now \in Nat /\ Start \in Nat /\ ArgsOK
      /\ args.checked \in BOOLEAN /\ Seconds # Failed
  BY AskedIsNumber DEF IngestInv, Going
<1>2. /\ Seconds \in Nat /\ AskedSeconds \in Nat /\ Asked = 1000 * AskedSeconds
      /\ args.checked \/ AskedSeconds < Word => Seconds = AskedSeconds
  BY <1>1, SecondsAsAsked
<1>3. secs = Seconds /\ at \in Nat
  BY <1>1, <1>2, PrintedSeconds
<1>4. /\ Expiry(args.checked, at, secs) \in 0 .. Word - 1
      /\ args.checked \/ at + secs * 1000 < Word
           => Expiry(args.checked, at, secs) = at + secs * 1000
  BY <1>1, <1>2, <1>3, ExpiryAsAsked
<1>5. ASSUME args.checked \/ now + Asked < Word
      PROVE  Expiry(args.checked, at, secs) \in Start + Asked .. now + Asked
  <2>1. args.checked \/ AskedSeconds < Word
    BY <1>1, <1>2, <1>5, IngestAssumption
  <2>2. secs * 1000 = Asked
    BY <1>2, <1>3, <2>1
  <2>3. args.checked \/ at + secs * 1000 < Word
    BY <1>1, <1>3, <1>5, <2>2, IngestAssumption
  <2> QED
    BY <1>1, <1>3, <1>4, <2>2, <2>3
<1> QED
  BY <1>4, <1>5

LEMMA BanKeeps ==
  ASSUME IngestInv, pc = "ban", NEW at \in Start .. now, NEW chunk \in SUBSET targets,
         NEW done \in SUBSET chunk, Ban(chunk, at, done)
  PROVE  IngestInv'
<1> DEFINE secs == ParseDuration(args.checked, Printed(Seconds))
<1> DEFINE expires == Expiry(args.checked, at, secs)
<1>1. /\ secs # Failed /\ expires # Failed
      /\ bans' = bans \cup Banned(done, expires)
      /\ targets' = targets \ chunk
      /\ UNCHANGED <<args, now, log, read>> /\ Lines' = Lines
  BY SameLines DEF Ban
<1>2. /\ pc' \in {"failed", "complete", "ban"}
      /\ pc' = "complete" => targets' = {}
      /\ pc' # "failed" => done = chunk
  BY DEF Ban
<1>3. /\ expires \in 0 .. Word - 1
      /\ args.checked \/ now + Asked < Word => expires \in Start + Asked .. now + Asked
  BY <1>1, ChunkExpiry
<1> HIDE DEF secs, expires
<1>4. \A b \in Banned(done, expires) : \E v \in done :
        b = [net |-> Resolve(v, args.exact), expires |-> expires]
  BY Zenon DEF Banned
<1>5. \A v \in done : \E b \in bans' : b.net = Resolve(v, args.exact)
  <2> TAKE v \in done
  <2> DEFINE ban == [net |-> Resolve(v, args.exact), expires |-> expires]
  <2>1. ban \in Banned(done, expires)
    BY Zenon DEF Banned
  <2>2. ban \in bans' /\ ban.net = Resolve(v, args.exact)
    BY <1>1, <2>1
  <2> QED
    BY <2>2
<1>6. targets \subseteq Value /\ args.exact \in BOOLEAN
  BY DEF IngestInv, IngestTypeOK
<1>7. IngestTypeOK'
  <2>1. bans' \subseteq [net : [addr : Address, len : 0 .. Width], expires : 0 .. Word - 1]
    <3>1. \A v \in done : Resolve(v, args.exact) \in [addr : Address, len : 0 .. Width]
      BY <1>6, ResolveType
    <3> QED
      BY <1>1, <1>3, <1>4, <3>1 DEF IngestInv, IngestTypeOK
  <2> QED
    BY <1>1, <1>2, <2>1 DEF IngestInv, IngestTypeOK
<1>8. Going' /\ InputRead'
  BY <1>1, <1>2, SameLines DEF IngestInv, Going, InputRead, Seconds
<1>9. FromTheLog'
  <2>1. \A b \in bans' : \E line \in Lines, v \in Value :
          Wanted(line, v) /\ b.net = Resolve(v, args.exact)
    <3> TAKE b \in bans'
    <3>1. CASE b \in bans
      BY <3>1 DEF IngestInv, FromTheLog
    <3>2. CASE b \in Banned(done, expires)
      <4>1. PICK v \in done : b.net = Resolve(v, args.exact)
        BY <1>4, <3>2
      <4>2. v \in Value /\ \E line \in Lines : Wanted(line, v)
        BY <1>6 DEF IngestInv, FromTheLog
      <4> QED
        BY <4>1, <4>2
    <3> QED
      BY <1>1, <3>1, <3>2
  <2> QED
    BY <1>1, <2>1 DEF IngestInv, FromTheLog, Wanted
<1>10. NothingLost'
  <2> SUFFICES ASSUME pc' # "failed", NEW line \in Lines, NEW v \in Value, Wanted(line, v)
               PROVE  v \in targets' \/ \E b \in bans' : b.net = Resolve(v, args.exact)
    BY <1>1 DEF NothingLost, Wanted
  <2>1. v \in targets \/ \E b \in bans : b.net = Resolve(v, args.exact)
    BY DEF IngestInv, NothingLost
  <2>2. CASE v \in chunk
    BY <1>1, <1>2, <1>5, <2>2
  <2> QED
    BY <1>1, <2>1, <2>2
<1>11. BansLastAsAsked'
  <2>1. Asked' = Asked
    BY <1>1 DEF Asked
  <2>2. \A b \in Banned(done, expires) : b.expires = expires
    BY <1>4
  <2> QED
    BY <1>1, <1>3, <2>1, <2>2 DEF IngestInv, BansLastAsAsked
<1> QED
  BY <1>7, <1>8, <1>9, <1>10, <1>11 DEF IngestInv

LEMMA IngestInvNext == IngestInv /\ [Next]_vars => IngestInv'
<1> SUFFICES ASSUME IngestInv, [Next]_vars PROVE IngestInv'
  OBVIOUS
<1>1. now \in Start .. MaxTime /\ Start \in Start .. now
  BY IngestAssumption DEF IngestInv, IngestTypeOK
<1>2. CASE BanOnline
  <2>1. PICK chunk \in NextChunk : Ban(chunk, now, chunk)
    BY <1>2 DEF BanOnline
  <2>2. pc = "ban" /\ now \in Start .. now
    BY <1>1, <1>2, IngestAssumption DEF BanOnline
  <2> QED
    BY <2>1, <2>2, ChunkOfTargets, BanKeeps
<1>3. CASE BanOffline
  <2>1. PICK chunk \in NextChunk : \E done \in SUBSET chunk : Ban(chunk, Start, done)
    BY <1>3 DEF BanOffline
  <2>2. PICK done \in SUBSET chunk : Ban(chunk, Start, done)
    BY <2>1
  <2>3. pc = "ban"
    BY <1>3 DEF BanOffline
  <2> QED
    BY <1>1, <2>2, <2>3, ChunkOfTargets, BanKeeps
<1>4. CASE UNCHANGED vars
  BY <1>4, SameLines DEF vars, IngestInv, IngestTypeOK, Going, InputRead, Seconds, FromTheLog, NothingLost,
              BansLastAsAsked, Wanted, Asked
<1> QED
  BY <1>2, <1>3, <1>4, TickKeeps, EndOfInputKeeps, BanFailsKeeps, ReadLineKeeps DEF Next

THEOREM IngestInvariant == Spec => []IngestInv
  BY IngestInvInit, IngestInvNext, PTL DEF Spec

-----------------------------------------------------------------------------
(* What the invariant says about the bans. *)

LEMMA InvBansAreWanted == IngestInv => BansAreWanted
<1> SUFFICES ASSUME IngestInv, NEW b \in bans
             PROVE  \E line \in Readable : \E t \in line.tokens : \E v \in t.value :
                      LET len == IF v.slash \/ args.exact THEN v.len ELSE Home IN
                      /\ Names(line, v)
                      /\ \A e \in args.excludes : Network(v.addr, e.len) # Network(e.addr, e.len)
                      /\ \A a \in Address : Contains(b.net, a) <=> Network(a, len) = Network(v.addr, len)
  BY DEF BansAreWanted
<1>1. PICK line \in Lines, v \in Value : Wanted(line, v) /\ b.net = Resolve(v, args.exact)
  BY DEF IngestInv, FromTheLog
<1>2. line \in Line /\ line \in Readable /\ args.exact \in BOOLEAN
  BY <1>1, LinesAreRead DEF IngestInv, IngestTypeOK
<1>3. PICK t \in line.tokens : v \in t.value
  BY <1>1, <1>2, NamedValue DEF Wanted
<1>4. \A e \in args.excludes : Network(v.addr, e.len) # Network(e.addr, e.len)
  BY <1>1 DEF Wanted, IsExcluded, Contains
<1> DEFINE len == IF v.slash \/ args.exact THEN v.len ELSE Home
<1>5. \A a \in Address : Contains(b.net, a) <=> Network(a, len) = Network(v.addr, len)
  BY <1>1, <1>2, ResolveCovers
<1> HIDE DEF len
<1>6. Names(line, v)
  BY <1>1 DEF Wanted
<1> QED
  BY <1>2, <1>3, <1>4, <1>5, <1>6, Zenon DEF len

LEMMA InvNothingMissed == IngestInv => NothingMissed
<1> SUFFICES ASSUME IngestInv, pc = "complete", NEW line \in Readable, NEW v \in Value,
                    NEW a \in Address, Names(line, v), ~IsExcluded(v.addr, args.excludes),
                    Contains(v, a)
             PROVE  \E b \in bans : Contains(b.net, a)
  BY DEF NothingMissed
<1>1. args.exact \in BOOLEAN /\ targets = {}
  BY DEF IngestInv, IngestTypeOK, Going
<1>2. line \in Lines
  BY AllIsRead DEF IngestInv, InputRead
<1>3. PICK b \in bans : b.net = Resolve(v, args.exact)
  BY <1>1, <1>2 DEF IngestInv, NothingLost, Wanted
<1>4. Contains(Resolve(v, args.exact), a)
  <2>1. CASE v.slash \/ args.exact
    BY <1>1, <2>1, ResolveCovers DEF Contains
  <2>2. CASE ~(v.slash \/ args.exact)
    <3>1. a = v.addr
      BY <2>2, LoneAddress
    <3> QED
      BY <1>1, <2>2, <3>1, ResolveCovers
  <2> QED
    BY <2>1, <2>2
<1> QED
  BY <1>3, <1>4

LEMMA InvExactSpares == IngestInv => ExactSparesExcluded
<1> SUFFICES ASSUME IngestInv, args.exact,
                    \A line \in Readable : \A t \in line.tokens : \A v \in t.value : ~v.slash,
                    NEW b \in bans, NEW e \in args.excludes, NEW a \in Address,
                    Contains(e, a), Contains(b.net, a)
             PROVE  FALSE
  BY DEF ExactSparesExcluded
<1>1. PICK line \in Lines, v \in Value : Wanted(line, v) /\ b.net = Resolve(v, args.exact)
  BY DEF IngestInv, FromTheLog
<1>2. line \in Line /\ line \in Readable /\ args.exact = TRUE
  BY <1>1, LinesAreRead DEF IngestInv, IngestTypeOK
<1>3. ~v.slash
  BY <1>1, <1>2, NamedValue DEF Wanted
<1>4. Contains(v, a)
  <2>1. Contains(Resolve(v, TRUE), a) <=> Network(a, v.len) = Network(v.addr, v.len)
    BY ResolveCovers
  <2> QED
    BY <1>1, <1>2, <2>1 DEF Contains
<1>5. a = v.addr
  BY <1>3, <1>4, LoneAddress
<1> QED
  BY <1>1, <1>5 DEF Wanted, IsExcluded

\* Type correctness; a ban's expiry fits what the program computes in.
THEOREM IngestTypes == Spec => []IngestTypeOK
<1>1. IngestInv => IngestTypeOK
  BY DEF IngestInv
<1> QED
  BY <1>1, IngestInvariant, PTL

\* Every ban is for something a line names and no entry covers, and bans nothing else.
THEOREM OnlyTheWanted == Spec => []BansAreWanted
  BY InvBansAreWanted, IngestInvariant, PTL

\* A command that reports success has banned all that is named, and not excluded, in
\* front of the first line that cannot be read.
THEOREM AllTheWanted == Spec => []NothingMissed
  BY InvNothingMissed, IngestInvariant, PTL

\* With --exact and single addresses no ban covers an excluded address.
THEOREM ExactSpares == Spec => []ExactSparesExcluded
  BY InvExactSpares, IngestInvariant, PTL

\* Bans last as long as asked for, or there are none, unless u64 wraps.
THEOREM LastAsAsked == Spec => []BansLastAsAsked
<1>1. IngestInv => BansLastAsAsked
  BY DEF IngestInv
<1> QED
  BY <1>1, IngestInvariant, PTL
=============================================================================
