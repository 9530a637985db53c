--------------------------- MODULE QuarantineIngest ---------------------------
(***************************************************************************)
(* ingest-logs (exec_cli_ingest and the parsers it uses): lines of a log   *)
(* become targets, targets become bans, chunk by chunk, through the daemon *)
(* or without it.  What one chunk does to memory and store in several      *)
(* steps is QuarantineControl; here a chunk is one step, and addresses,    *)
(* prefixes and durations are numbers.                                     *)
(*                                                                         *)
(* The program computes in u64: an overflow is a panic in a build with     *)
(* checks (dev, test) and wraps in one without (release).                  *)
(***************************************************************************)
EXTENDS Integers, Sequences, FiniteSets, FiniteSetsExt

CONSTANTS
  Width,    \* bits of an address
  Size,     \* of each prefix length, how many addresses have the same prefix
  Home,     \* prefix length phylax gives a lone address's network
  Word,     \* one more than the largest u64
  Line,     \* lines a log may have
  Unreadable, \* a line that is not UTF-8, or an error in its place
  Exclude,  \* sets of entries --exclude may be given
  Duration, \* texts --duration may be given
  Chunk,    \* targets sent at a time
  Start,    \* the time of the command
  MaxTime,  \* bound: the clock
  MaxLines  \* bound: lines of one log

Address == 0 .. Size[0] - 1

\* An IpAddr, or an IpNet as written: ipnet keeps the bits behind the prefix.
Value ==
  {v \in [addr : Address, len : 0 .. Width, slash : BOOLEAN] : v.slash \/ v.len = Width}

\* A word of a line, with or without ip= before it; value is empty if it does
\* not parse.
Token == [keyed : BOOLEAN, value : SUBSET Value]

\* An error or a panic, where a number is expected.
Failed == -1

\* digits is what the text before the unit parses to.
Text == [digits : Nat \cup {Failed}, unit : STRING]

ASSUME IngestAssumption ==
  /\ Width \in Nat /\ Home \in 0 .. Width
  /\ Size \in [0 .. Width -> Nat \ {0}] /\ Size[Width] = 1
  /\ {Word, Chunk} \subseteq Nat \ {0} /\ {Start, MaxTime, MaxLines} \subseteq Nat
  /\ Start <= MaxTime
  /\ Unreadable \notin Line
  /\ Line \subseteq [comment : BOOLEAN, tokens : SUBSET Token]
  /\ Exclude \subseteq SUBSET Value /\ Duration \subseteq Text

VARIABLES
  pc,
  args,    \* the options of the command, and the build
  now,     \* milliseconds
  log,     \* the lines of the input
  read,    \* how many of them have been read
  targets, \* what is left to ban
  bans     \* [net, expires] reported as banned

vars == <<pc, args, now, log, read, targets, bans>>

-----------------------------------------------------------------------------
(* Addresses. *)

Network(addr, len) == addr \div Size[len]

\* IpNet::contains
Contains(net, addr) == Network(addr, net.len) = Network(net.addr, net.len)

\* resolve_target_cidr, and exec_ban's own copy of it.
Resolve(v, exact) ==
  IF v.slash \/ exact THEN [addr |-> v.addr, len |-> v.len]
  ELSE [addr |-> Network(v.addr, Home) * Size[Home], len |-> Home]

\* Mutant: an entry excludes the address it is written with.
IsExcludedLiteral(addr, excludes) == \E e \in excludes : e.addr = addr

IsExcluded(addr, excludes) == \E e \in excludes : Contains(e, addr)

\* Mutant: the words without a key count as well.
ExtractBoth(line) ==
  IF line.comment THEN {} ELSE UNION {t.value : t \in line.tokens}

\* Mutant: a keyed word takes precedence even if it does not parse.
ExtractKeyed(line) ==
  LET keyed == {t \in line.tokens : t.keyed}
  IN IF line.comment THEN {}
     ELSE UNION {t.value : t \in IF keyed # {} THEN keyed ELSE line.tokens}

\* extract_ips_from_line: the words with a key or, if none of them parses, the
\* words without.
Extract(line) ==
  LET found(keyed) == UNION {t.value : t \in {u \in line.tokens : u.keyed = keyed}}
  IN CASE line.comment -> {}
       [] ~line.comment /\ found(TRUE) # {} -> found(TRUE)
       [] OTHER -> found(FALSE)

-----------------------------------------------------------------------------
(* Durations. *)

\* Mutant: a wider type holds what u64 cannot.
FitsAnyway(checked, n) == n

\* Checked or wrapping arithmetic.
Fits(checked, n) ==
  IF n < Word THEN n ELSE IF checked THEN Failed ELSE n % Word

\* The units a number may have, none among them, and what they stand for.
Units == {"none", "s", "m", "h", "d", "w"}
Multiplier(unit) ==
  CASE unit \in {"none", "s"} -> 1 [] unit = "m" -> 60 [] unit = "h" -> 3600
    [] unit = "d" -> 86400 [] unit = "w" -> 604800

\* parse_duration_str
ParseDuration(checked, text) ==
  IF text.digits = Failed /\ text.unit = "none" THEN 86400
  ELSE IF text.digits \in 0 .. Word - 1 /\ text.unit \in Units
       THEN Fits(checked, text.digits * Multiplier(text.unit))
       ELSE Failed

\* A number of seconds printed by the ingestion for each chunk.
Printed(secs) == [digits |-> secs, unit |-> "none"]

\* Mutant: seconds are added to milliseconds.
ExpiryInSeconds(checked, at, secs) == Fits(checked, at + secs)

\* now_ms + duration_secs * 1000
Expiry(checked, at, secs) ==
  LET ms == Fits(checked, secs * 1000)
  IN IF ms = Failed THEN Failed ELSE Fits(checked, at + ms)

\* rusqlite stores no u64 above i64::MAX.
Storable(expires) == expires < Word \div 2

-----------------------------------------------------------------------------
Init ==
  /\ args \in [excludes : Exclude, exact : BOOLEAN, text : Duration, checked : BOOLEAN]
  /\ pc = IF ParseDuration(args.checked, args.text) = Failed THEN "failed" ELSE "read"
  /\ now = Start
  /\ log \in UNION {[1 .. n -> Line \cup {Unreadable}] : n \in 0 .. MaxLines}
  /\ read = 0 /\ targets = {} /\ bans = {}

Tick ==
  /\ pc \in {"read", "ban"} /\ now < MaxTime
  /\ now' = now + 1
  /\ UNCHANGED <<pc, args, log, read, targets, bans>>

\* The next line can be read.
MoreInput == read < Len(log) /\ log[read + 1] # Unreadable

ReadLine ==
  /\ pc = "read" /\ MoreInput
  /\ read' = read + 1
  /\ targets' = targets \cup
       {v \in Extract(log[read + 1]) : ~IsExcluded(v.addr, args.excludes)}
  /\ UNCHANGED <<pc, args, now, log, bans>>

\* lines().map_while(Result::ok): the first line that cannot be read is the end of the
\* input, without a word, whatever comes after it.
EndOfInput ==
  /\ pc = "read" /\ ~MoreInput
  /\ pc' = IF targets = {} THEN "complete" ELSE "ban"
  /\ UNCHANGED <<args, now, log, read, targets, bans>>

\* The next chunk, in the order of a HashSet.
NextChunk ==
  IF Cardinality(targets) <= Chunk THEN {targets} ELSE kSubset(Chunk, targets)

Seconds == ParseDuration(args.checked, args.text)

Banned(chunk, expires) ==
  {[net |-> Resolve(v, args.exact), expires |-> expires] : v \in chunk}

\* exec_cli_ban of one chunk: at is the time the expiry counts from, done the
\* part of the chunk that was banned, all of it or what came before an error.
Ban(chunk, at, done) ==
  /\ LET secs == ParseDuration(args.checked, Printed(Seconds))
         expires == Expiry(args.checked, at, secs)
     IN /\ Failed \notin {secs, expires}
        /\ bans' = bans \cup Banned(done, expires)
  /\ targets' = targets \ chunk
  /\ pc' = CASE done # chunk -> "failed"
             [] done = chunk /\ targets' = {} -> "complete"
             [] OTHER -> "ban"
  /\ UNCHANGED <<args, now, log, read>>

\* The daemon counts from its own clock and ignores the errors of its store.
BanOnline ==
  /\ pc = "ban"
  /\ \E chunk \in NextChunk : Ban(chunk, now, chunk)

\* Without the daemon expiries count from the start of the command, and an error
\* ends it: of the store, or for an expiry that cannot be stored.
BanOffline ==
  /\ pc = "ban"
  /\ \E chunk \in NextChunk : \E done \in SUBSET chunk :
       /\ done # {} => Storable(Expiry(args.checked, Start, Seconds))
       /\ Ban(chunk, Start, done)

\* The daemon went away between probe and request, or one side panics over the
\* expiry, the handler ending without an answer.
BanFails ==
  /\ pc = "ban"
  /\ pc' = "failed"
  /\ UNCHANGED <<args, now, log, read, targets, bans>>

Next ==
  \/ Tick \/ ReadLine \/ EndOfInput
  \/ BanOnline \/ BanOffline \/ BanFails

Spec == Init /\ [][Next]_vars

-----------------------------------------------------------------------------
IngestTypeOK ==
  /\ pc \in {"read", "ban", "complete", "failed"}
  /\ args \in [excludes : Exclude, exact : BOOLEAN, text : Duration, checked : BOOLEAN]
  /\ now \in Start .. MaxTime
  /\ log \in Seq(Line \cup {Unreadable})
  /\ read \in 0 .. Len(log)
  /\ targets \subseteq Value
  /\ bans \subseteq [net : [addr : Address, len : 0 .. Width], expires : 0 .. Word - 1]

\* The lines in front of the first that cannot be read.
Readable == {log[i] : i \in {k \in DOMAIN log : \A j \in 1 .. k : log[j] # Unreadable}}

\* What a line names: each of its words that parses, save that a line with a
\* keyed word names none without a key, and a comment none.
Names(line, v) ==
  /\ ~line.comment
  /\ \E t \in line.tokens :
       /\ v \in t.value
       /\ t.keyed \/ \A u \in line.tokens : u.keyed => u.value = {}

\* Every ban is for something a line names that no entry covers: the network as
\* written, the address alone or the home network of it, and nothing beyond.
BansAreWanted ==
  \A b \in bans : \E line \in Readable : \E t \in line.tokens : \E v \in t.value :
    LET len == IF v.slash \/ args.exact THEN v.len ELSE Home IN
    /\ Names(line, v)
    /\ \A e \in args.excludes : Network(v.addr, e.len) # Network(e.addr, e.len)
    /\ \A a \in Address : Contains(b.net, a) <=> Network(a, len) = Network(v.addr, len)

\* When the command reports success, every address that is named in front of the
\* first line that cannot be read, by itself or in a network, is reported as banned
\* unless excluded.  That says nothing of the lines behind such a line, and of a ban
\* taken by the daemon only that its memory has it: its store's errors are ignored.
NothingMissed ==
  pc = "complete" =>
    \A line \in Readable, v \in Value, a \in Address :
      Names(line, v) /\ ~IsExcluded(v.addr, args.excludes) /\ Contains(v, a)
        => \E b \in bans : Contains(b.net, a)

\* With --exact and single addresses in the log, no ban covers an address that
\* is excluded.  Without --exact the network around a target may, and so may a
\* network that is written in the log.
ExactSparesExcluded ==
  args.exact /\ (\A line \in Readable : \A t \in line.tokens : \A v \in t.value : ~v.slash)
  => \A b \in bans, e \in args.excludes, a \in Address :
       Contains(e, a) => ~Contains(b.net, a)

\* The milliseconds asked for, as a number.
Asked ==
  1000 * IF args.text.digits = Failed THEN 86400
         ELSE args.text.digits * Multiplier(args.text.unit)

\* A ban lasts as long as asked for, counted from no earlier than the start of the
\* command and no later than now, whichever chunks the daemon took; with checks
\* even when the numbers grow too big, because then there is no ban.
BansLastAsAsked ==
  \A b \in bans :
    args.checked \/ now + Asked < Word => b.expires \in Start + Asked .. now + Asked
=============================================================================
