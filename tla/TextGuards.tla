----------------------------- MODULE TextGuards -----------------------------
(***************************************************************************)
(* What the program does to text it did not write before it shows or       *)
(* stores it: terminal sequences are scrubbed from what commands print     *)
(* (sanitize.rs), fields of the CSV export are neutralised and quoted      *)
(* (quarantine/export/mod.rs), secrets are taken out of the queries that   *)
(* telemetry keeps (telemetry.rs).                                         *)
(*                                                                         *)
(* A text is a sequence of characters named here; only what the code tells *)
(* apart is told apart.  neutralize_formula and sanitize_host_banner are   *)
(* left out: nothing calls them.                                           *)
(***************************************************************************)
EXTENDS Naturals, FiniteSets, SequencesExt

CONSTANTS
  Char,     \* characters, by name
  Text,     \* texts to scrub
  MaxBytes, \* the limits they are scrubbed to
  Field,    \* fields of exported records
  Query     \* query strings

ASSUME TextAssumption ==
  /\ {" ", "'", "\"", ","} \subseteq Char
  /\ Text \subseteq Seq(Char) /\ Field \subseteq Seq(Char) /\ Query \subseteq Seq(Char)
  /\ MaxBytes \subseteq Nat

VARIABLE text \* what is looked at: [kind |-> ..., given |-> ..., result |-> ...]

-----------------------------------------------------------------------------
(* scrub_ansi_and_control. *)

Control == {"esc", "bel", "tab", "nl", "cr"}
Wide == {"emoji"} \* four bytes in UTF-8, every other character one
Width(c) == IF c \in Wide THEN 4 ELSE 1

\* The bytes 0x40 to 0x7e, one of which ends a CSI sequence.
Final == {"@", "[", "]", "\\", "a"}

\* Mutant: a character that does not fit is left out, shorter ones behind it not.
PutSkipping(s, c, max) ==
  IF s.size + Width(c) > max THEN s
  ELSE [s EXCEPT !.out = Append(@, c), !.size = @ + Width(c)]

\* out.push unless it would exceed the limit, which ends the scrub.
Put(s, c, max) ==
  IF s.size + Width(c) > max THEN [s EXCEPT !.mode = "stop"]
  ELSE [s EXCEPT !.out = Append(@, c), !.size = @ + Width(c)]

\* One character.  mode: in text, behind ESC, in a CSI or an OSC sequence, behind an
\* ESC in an OSC sequence (where a backslash ends it), or done.
Scan(s, c, max) ==
  LET to(mode) == [s EXCEPT !.mode = mode]
  IN  CASE s.mode = "stop" -> s
        [] s.mode = "text" ->
             IF s.size >= max THEN to("stop")
             ELSE IF c = "esc" THEN to("esc")
             ELSE IF c = "tab" THEN Put(s, " ", max)
             ELSE IF c \in Control THEN s
             ELSE Put(s, c, max)
        [] s.mode = "esc" -> to(CASE c = "[" -> "csi" [] c = "]" -> "osc" [] OTHER -> "text")
        [] s.mode = "csi" -> to(IF c \in Final THEN "text" ELSE "csi")
        [] s.mode \in {"osc", "osc_esc"} ->
             to(CASE c = "bel" -> "text"
                  [] c = "\\" /\ s.mode = "osc_esc" -> "text"
                  [] c = "esc" -> "osc_esc"
                  [] OTHER -> "osc")

Scanned(t, max) ==
  FoldLeft(LAMBDA s, c : Scan(s, c, max), [mode |-> "text", out |-> << >>, size |-> 0], t)

Scrub(t, max) == Scanned(t, max).out

-----------------------------------------------------------------------------
(* sanitize_csv_field and a row of format_csv. *)

Blank == {" ", "tab", "nl", "cr"}

\* The leading characters the code looks for.
Formula == {"=", "+", "-", "@", "tab", "cr"}

\* It looks behind trim_start: a tab or a CR is never found there.
OpensFormula(f) ==
  \E i \in DOMAIN f :
    f[i] \in Formula \ Blank /\ \A j \in 1 .. i - 1 : f[j] \in Blank

\* Mutant: quotes inside a quoted field are not doubled.
QuotedPlain(f) == <<"\"">> \o f \o <<"\"">>

Doubled(f) == FoldLeft(LAMBDA s, c : s \o IF c = "\"" THEN <<c, c>> ELSE <<c>>, << >>, f)

Quoted(f) == <<"\"">> \o Doubled(f) \o <<"\"">>

Defused(f) == IF OpensFormula(f) THEN <<"'">> \o f ELSE f

SanitizeCsvField(f) ==
  LET sanitized == Defused(f)
  IN  IF ToSet(sanitized) \cap {",", "\"", "nl"} # {} THEN Quoted(sanitized) ELSE sanitized

CsvRow(fields) ==
  SanitizeCsvField(fields[1]) \o <<",">> \o SanitizeCsvField(fields[2])

\* External: a reader of RFC 4180, one character at a time.  A comma ends a field
\* outside quotes; so does a line end, and what follows is the next row's.
ReadChar(s, c) ==
  LET put(mode) ==
        [fields |-> [s.fields EXCEPT ![Len(s.fields)] = Append(@, c)], mode |-> mode]
  IN  CASE c = "\"" /\ s.mode = "start" -> [s EXCEPT !.mode = "quoted"]
        [] c = "\"" /\ s.mode = "quoted" -> [s EXCEPT !.mode = "quote"]
        [] c = "\"" /\ s.mode = "quote" -> put("quoted")
        [] c \in {",", "cr", "nl"} /\ s.mode # "quoted" ->
             [fields |-> Append(s.fields, << >>), mode |-> "start"]
        [] OTHER -> put(IF s.mode = "quoted" THEN "quoted" ELSE "bare")

ReadCsv(row) == FoldLeft(ReadChar, [fields |-> << << >> >>, mode |-> "start"], row).fields

-----------------------------------------------------------------------------
(* sanitize_query_string.  "secret": any of the words it looks for in a key. *)

Redacted == "[REDACTED]"

SplitAt(s, sep) ==
  FoldLeft(LAMBDA parts, c : IF c = sep THEN Append(parts, << >>)
                             ELSE [parts EXCEPT ![Len(parts)] = Append(@, c)],
           << << >> >>, s)

\* Mutant: the key reaches to the last "=".
RedactPairLast(pair) ==
  LET eqs == {i \in DOMAIN pair : pair[i] = "="}
      last == CHOOSE i \in eqs : \A j \in eqs : j <= i
  IN  IF eqs # {} /\ "secret" \in ToSet(SubSeq(pair, 1, last - 1))
        THEN SubSeq(pair, 1, last) \o <<Redacted>>
        ELSE pair

\* split_once: the key reaches to the first "=".
RedactPair(pair) ==
  LET eqs == {i \in DOMAIN pair : pair[i] = "="}
      first == CHOOSE i \in eqs : \A j \in eqs : i <= j
  IN  IF eqs # {} /\ "secret" \in ToSet(SubSeq(pair, 1, first - 1))
        THEN SubSeq(pair, 1, first) \o <<Redacted>>
        ELSE pair

SanitizeQueryString(q) ==
  LET pairs == SplitAt(q, "&")
      redacted == [i \in DOMAIN pairs |->
                     (IF i = 1 THEN << >> ELSE <<"&">>) \o RedactPair(pairs[i])]
  IN  FlattenSeq(redacted)

-----------------------------------------------------------------------------
TextInit == text = [kind |-> "none", given |-> << >>, result |-> << >>]

ScrubText(t, max) ==
  text' = [kind |-> "scrubbed", given |-> t, max |-> max, result |-> Scrub(t, max)]

ExportRow(f, g) == text' = [kind |-> "row", given |-> <<f, g>>, result |-> CsvRow(<<f, g>>)]

RedactQuery(q) == text' = [kind |-> "query", given |-> q, result |-> SanitizeQueryString(q)]

TextNext ==
  /\ text.kind = "none"
  /\ \/ \E t \in Text, max \in MaxBytes : ScrubText(t, max)
     \/ \E f, g \in Field : ExportRow(f, g)
     \/ \E q \in Query : RedactQuery(q)

TextSpec == TextInit /\ [][TextNext]_text

-----------------------------------------------------------------------------
\* How many bytes a text has.
Size(t) == Len(t) + 3 * Cardinality({i \in DOMAIN t : t[i] \in Wide})

\* What is printed has no control character in it and is no longer in bytes than
\* asked for, whatever sequences the text begins, nests or leaves open; and the limit
\* does nothing but cut: a larger one gives the same text and more of it.
ScrubbedIsClean ==
  text.kind = "scrubbed" =>
    /\ ToSet(text.result) \cap Control = {}
    /\ Size(text.result) <= text.max
    /\ \A more \in MaxBytes :
         more >= text.max => IsPrefix(text.result, Scrub(text.given, more))

\* A field that is written without quotes although it has a CR: for that the code
\* never quotes.
BreaksRow(f) == "cr" \in ToSet(f) /\ ToSet(f) \cap {",", "\"", "nl"} = {}

\* Where no field breaks its row, each field of an exported row is read back as the
\* field it was, or as that behind a quote mark, and none has =, +, - or @ as the
\* first character that is not blank.
RowsReadBack ==
  text.kind = "row" /\ (\A i \in DOMAIN text.given : ~BreaksRow(text.given[i])) =>
    LET read == ReadCsv(text.result)
    IN  /\ Len(read) = Len(text.given)
        /\ \A i \in DOMAIN read :
             /\ read[i] \in {text.given[i], <<"'">> \o text.given[i]}
             /\ ~OpensFormula(read[i])

\* What the documents say of the export: no field a spreadsheet reads begins with
\* one of the six characters of a formula.  Violated: tab and CR are trimmed before
\* they are looked for, and an unquoted CR begins a row of its own.
NoFieldOpensFormula ==
  text.kind = "row" =>
    LET read == ReadCsv(text.result)
    IN  \A i \in DOMAIN read : read[i] = << >> \/ read[i][1] \notin Formula

\* Where the values of secrets are in a query: behind the first "=" of a pair, begun
\* at s, whose key, all that is in front of it, has such a word.
SecretAt(q) ==
  {i \in DOMAIN q :
     \E s, e \in 1 .. i - 1 :
       /\ s = 1 \/ q[s - 1] = "&"
       /\ \A j \in s .. i : q[j] # "&"
       /\ q[e] = "=" /\ \A j \in s .. e - 1 : q[j] # "="
       /\ \E k \in s .. e - 1 : q[k] = "secret"}

Masked(q) == [i \in DOMAIN q |-> IF i \in SecretAt(q) THEN Redacted ELSE q[i]]

\* A text without the marks.
Unmarked(t) == FoldLeft(LAMBDA s, c : IF c = Redacted THEN s ELSE Append(s, c), << >>, t)

\* What telemetry keeps of a query is all of it but those values.
SecretsStayOut ==
  text.kind = "query" => Unmarked(text.result) = Unmarked(Masked(text.given))
=============================================================================
