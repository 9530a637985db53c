# Propylea in TLA+

Models, model checking and proofs for propylea, a TLS reverse proxy that traps
hostile clients at the edge and keeps the bans it hands out in a persistent
quarantine. Paths below are relative to the crate's `src/`.

## The system

| part | state it keeps | operations | talks to |
|---|---|---|---|
| quarantine store (`quarantine/store.rs`) | the SQLite tables `quarantined_subnets` and `quarantine_audit_log`, one connection behind a mutex per process | `record_ban`, `unban`, `unban_all`, listings | every process that opens the file |
| quarantine manager, worker (`quarantine/mod.rs`) | an unbounded channel of records | `rehydrate_on_boot`, `queue_record`, `run_persistence_worker` | store, in-memory quarantine (crate phylax) |
| IPC server (`quarantine/ipc.rs`) | one task per connection on a Unix socket | `Ban`, `Unban`, `UnbanAll`, `ListActive`, `Status` | in-memory quarantine, then store |
| edge defense (`defense.rs`) | phylax's bans, traps and agents | `evaluate_request_full`, `notify_quarantine`, `record_anomalous_uri` | manager, phylax |
| proxy (`proxy/`) | one task per connection, one future per request, one task per WebSocket tunnel | accept, TLS, framing, ACME, defense, routing, forwarding, upgrade | all of the above, upstreams, hippodrome (racing) |
| governor (`maintenance.rs`) | four atomic counters | `register_connection`, `deregister_connection`, `record_threat`, hygiene pass | proxy |
| telemetry (`telemetry.rs`) | a bounded deque behind a lock | `record`, `query`, `clear` | proxy |
| framing guard, router, headers, TLS resolver (`framing_guard/`, `router.rs`, `config/route.rs`, `headers.rs`, `tls.rs`) | two tables made at the start | functions of one message | proxy |
| ClientHello profile (`tls_fingerprint.rs`) | one profile per connection | `parse_client_hello`, `verify_user_agent_coherence` | proxy, defense |
| ACME responder (`acme.rs`), redirect listener (`http_redirect.rs`) | none; files that somebody else writes | `try_serve_acme_challenge`, a redirect | file system, both listeners |
| text (`sanitize.rs`, `quarantine/export/`) | none | scrubbing, quoting, redaction | command line, telemetry |
| command line (`quarantine/cli/`, `quarantine/export/`) | none | `ban`, `unban`, `clear`, `ingest-logs`, `list`, `export`, `status` | the daemon's socket, or the store when the daemon is down |
| crucible gate (`crucible.rs`) | its own in-memory quarantine | one handler | the store |

What is hard about it:

* **Two copies of one fact.** A ban lives in phylax's memory, which requests are
  checked against, and in SQLite, which survives restarts. Every path that
  changes them does so in two steps with nothing held across them: an infraction
  counts in memory and then queues a record that a worker writes later; an IPC
  command changes memory and then the store; a boot reads the store into memory
  and then starts the worker and the socket. All of these are tasks of a
  multi-threaded runtime (`#[tokio::main]`).
* **Several processes on one file.** The command line writes to the store itself
  when nobody answers on the socket, and `unban` and `unban_all` SELECT in one
  transaction and UPDATE in another.
* **Partial failure.** Store errors are logged and swallowed, the socket may not
  bind, the store may not open, the process may end between any two steps, and a
  clean end (ctrl-c) drains nothing.
* **Input read in part.** The proxy peeks once at a connection, so that the profile
  its requests are judged by may come from any beginning of a hello; a token's file
  is looked at four times while an ACME client writes it; two tables made of one
  configuration have to agree on every name.
* **Request futures.** A request may be dropped at any `await`, connections end
  in many ways, path, client and agent are looked up at different moments while
  other requests teach the defense, and no upstream call has a timeout.

What makes each part correct: the audit log explains the table; bans survive
restarts and an unban is final; the counters agree with the tasks; the threat
counter agrees with telemetry; nothing that is barred goes upstream; the ring
keeps exactly the newest records; a message has one length, one route and one
origin on both sides of the proxy; an ACME answer is one the files explain.

## The modules

```
QuarantineTable      the rows and statements of the store, as operators
  QuarantineLedger   abstract: table and audit log change together, atomically
    QuarantineStore      handles of several processes, SELECT and COMMIT apart
    QuarantineDaemon     the store inside a running proxy: memory, queue, worker,
                         IPC handlers, request tasks, boots and ends
      QuarantineControl      the command line beside it, with or without a daemon
    CrucibleGate         the crucible's handlers with their own memory and store
QuarantineIngest     ingest-logs: what a log names, what is banned of it, for how long
TelemetryRing        the telemetry buffer          } each a specification
ProxyConnections     accept loop, tasks, counters  } of its own
  ProxyRequests      the request pipeline, composing the two with the defense
FramingGuard         headers of one message  } operators
RouteTable           routes and hosts        }
  EdgeMessage        one message from configuration and handshake to an upstream
ClientHello          peek, profile, verdict
ChallengeLookup      abstract: one look at the files of a token
  AcmeWebroot        the four looks of the responder (refines it, INSTANCE)
TextGuards           what is done to text
  MCEdgeInputs       these and the ring's query, side by side, for TLC
SequenceFacts        folds and flattened sequences, as the proofs need them
*Proofs              theorems about the module they are named for (EdgeProofs:
                     EdgeMessage, ClientHello, AcmeWebroot, TextGuards)
MC*                  instances for TLC
```

**QuarantineTable** translates the SQL: `Upsert` (the count accumulates, the
expiry is overwritten, the row becomes active), `SelectUnban`, `Deactivate`,
`Log`, `ActiveBans`. A row keeps `active`, `expires` and `count`; columns no
statement tests are dropped. A key is a CIDR as printed, host bits included, so
two keys can cover one address: `NetsOf` says which keys do.

**QuarantineLedger** is the abstract specification, in two strengths. In `LedgerSpec`
`Record` activates one row and logs it, and `Lift` deactivates a set of *active* rows
and logs each once. In `SharedSpec`, for a file that several processes write,
`LiftLate` deactivates rows and logs rows that were read in an earlier transaction; it only
demands that no row it logs stays active.

**QuarantineStore** is what one process's mutex and SQLite really give: a call of
`unban` is `UnbanSelect` then `UnbanCommit`, and another handle may commit in
between. `unban_all` deactivates what is active at the commit and logs what was
active at the SELECT. `Abandon` is an error or the death of the process. With one
handle this implements `LedgerSpec`, with any number `SharedSpec`.

**QuarantineDaemon** has one store handle, so a store call is one step. `memory` is
phylax's bans, `task` the record a request task is about to send, `queue` the
channel, `conn` what each IPC handler has left of its command, `phase`,
`managed` and `listening` where the boot is. `watch`, `freed`, `promised`,
`strikes`, `settled`, `commands` and `faulted` observe and are never read by an
action that models code, except where a bound is named.

**QuarantineControl** puts command-line processes beside that daemon. A command
asks whether anybody accepts on the socket (`Probe`), then sends its request and
waits (`Send`, `Reply`, `Refused`, `StopBesideCli`) or opens the store and does the work
itself (`OfflineBan`, `OfflineSelect`, `OfflineCommit`); `ingest-logs` does so anew for each chunk, and `Interrupt`
ends it anywhere, its request being carried out all the same.
The daemon is all of QuarantineDaemon, infractions, queue and worker included, so that
its writes, and those of other processes, fall between the SELECT and the COMMIT of a
process that took it for absent. `crossed` observes an offline write committed beside a
running daemon.

**QuarantineIngest** is `exec_cli_ingest` with its parsers. Addresses are numbers and a
network is a prefix of one (`Size` gives the number of addresses of each prefix
length), so containment, widening and exclusion are computed and not assumed; a
line is its set of words, each keyed or not, parsed or not, or `Unreadable`, at which
the input ends (`map_while(Result::ok)`) and the command goes on with what it has. `Fits` is the
arithmetic of `u64`: an overflow panics in a build with checks and wraps in one
without, and both are initial states. A chunk is one step.

**CrucibleGate** keeps the gate's clock in milliseconds and its stamps in seconds,
as `crucible.rs` does. Its handler never awaits; memory and store are still two
steps, since handlers of several connections run beside each other.

**TelemetryRing** has the buffer and, observing it, the log of everything ever
recorded; `QueryRing` is what `query` answers. **ProxyConnections** has the connections and the governor's two
counters; `register_connection` is two atomic increments, so it is two steps; a task returns from a failed handshake
(`TlsFails`) or when its service ends (`ConnEnds`).
**ProxyRequests** has the stage of each request. A request runs without an
interruption between two awaits; other tasks run beside it there too, so each
shared access is an action of its own. Forwarding is one await: which of its
inner awaits a request is at changes nothing anybody sees. `BotRefuses` is the bot
guard as it is asked: of the agent on the path, and not at all for a client on this
host that sends no User-Agent.

**EdgeMessage** is the same pipeline without what is shared, and with what a message
says: `Start` validates the routes and makes the tables, `Handshake` picks a
certificate, `Receive` is `validate_headers` and `sanitize_ingress_headers`, `Dispatch`
routes and decides between tunnel, race and direct forwarding, `Race` collects the
body up to the limit, `SendDirect` streams it; `Redirect` is what port 80 does.
**FramingGuard** has header values as lists of elements that parse to a number or
not, and origin headers as lists of who wrote them: the seven that are stripped, and
`Forwarded` for those the guard does not know. **RouteTable** builds both maps
by inserting in the code's order.

**ClientHello** works on bytes: `Encode` is what a client sends, `Peek` hands
`ParseClientHello` any beginning of it, and an index past its end is an error of the
evaluation, as it is a panic of the code. Hellos are well formed and in one record
(`HelloAssumption`: fields of one and two bytes, lists whose lengths fit them); bytes
that are no hello, or lie about their lengths, are not among the inputs.

**AcmeWebroot** has the request's looks as separate steps (`TryNested`, `TryFlat`, `Stat`,
`ReadFile`) between which `Write` changes the files; **ChallengeLookup** answers in one
step with anything the contents since the request's arrival explain. The mapping
gives a request that is still looking the outcome `pending`.

**TextGuards** names characters instead of spelling them: the scrubber is a fold of one
state machine step, a CSV row is checked by reading it back as RFC 4180 has it (a line
end outside quotes, CR among them, ends the row), a query by where its secrets are.

Abstractions to know about:

* phylax, hippodrome, hyper and the upstreams are external. What phylax does with
  a strike (ban or not yet, keep the later expiry or replace it, learn or not) is
  a free choice. `unban` in phylax is assumed to clear the networks the store
  matches for the same target, and `pipeline().quarantine().clone()` to share its
  state with the engine requests are checked against, as the code relies on.
* A request of the pipeline is a kind (malformed, ACME, hostile in itself, upgrade,
  plain), a path, an agent and a connection; what the guard and the router make of
  its headers is EdgeMessage's subject.
* A name, a blank or a letter's case in a header is a field (`name`, `loose`), a User-Agent
  the set of words the code searches it for, a certificate the names it covers.
* The `502 Unrecognized Sovereign Host` branch of the proxy cannot be reached: the
  configuration demands a route and the first is everybody's default.
* The model lets a request run on beside its closed connection in states an
  HTTP/1 connection would have dropped it in (HTTP/2 streams are tasks of their
  own): it allows more than the code, never less.
* The ACME responder's read fails only because the file is gone; another error is the same 500.
* Relaxed atomics: each counter's own order is kept; a reader that sees two
  counters out of order is not modelled.

## Runs

| run | instance | shows |
|---|---|---|
| `store_two_handles` | two handles | **violated**: a ban committed between `unban_all`'s SELECT and UPDATE is lifted without an audit row |
| `daemon_two_operators` | 2 handlers, 2 commands, 2 request tasks, 2 infractions, store errors, restarts, fairness | the daemon's store implements the ledger whatever interleaves; a quiet unban is final; every record is settled |
| `unban_final` | no faults | **violated**: a record queued before an unban is drained after it |
| `ban_expiry` | no faults | **violated**: a later infraction shortens an operator's stored ban |
| `status_enforced` | 2 handlers, no infraction | **violated**: a ban and an unban interleave, `status` counts a ban nobody enforces |
| `control_one_operator` | 1 process, 2 chunks in one command or two, 1 infraction, store errors, boots and ends, fairness | the file keeps the shared ledger's promise with two writers; memory mirrors the store between commands before an infraction, an error or an offline write beside a daemon; commands end |
| `ingest_chunks` | 2 lines out of 5 and an unreadable one, 4 exclusions, 9 durations, both builds, chunks of 2 | what is banned is what the log names and nothing excluded, for as long as asked |
| `gate_listing` | the gate's real units | **violated**: a ban the gate enforces is no active ban of its store |
| `proxy_requests` | 3 connections, 2 requests out of 10, a trusted, an untrusted and a local client, 2 paths, ring of 1 | counters, threats, telemetry, barred requests |
| `edge_inputs` | every beginning of 4 hellos with 8 User-Agents; 9 configurations with every host, list of lengths and coding; texts of 5 characters of 8, CSV rows, queries; a ring of 3; an ACME request beside a writer of 3 contents in 2 places | each against a definition of its own of what the result must be |
| `csv_formulas` | the texts of `edge_inputs` | **violated**: an exported field that begins with a tab or CR is read back as it is |
| `acme_cap` | the files of `edge_inputs` | **violated**: a token's file that grows between size check and read is served whole |

The violated properties state what a document of the repository promises; each is
a finding in `PROJECT.json` with the quotation. None is a defect of the models:
the passing runs hold the strongest statement found that the code does keep
(`QuietUnbanIsFinal` beside `UnbanIsFinal`, `MemoryMirrorsStore` beside `ActiveRowsAreEnforced`,
`ActiveAreLogged` beside `AuditExplains`, `RowsReadBack` beside `NoFieldOpensFormula`,
`ImplementsLookup` beside `TokensAreCapped`). `AuditExplains` itself holds of one writer
(`daemon_two_operators`) and fails with two (`store_two_handles`).

Bounds. `MaxEvents`, `MaxTime`, `MaxStrikes`, `MaxCommands`, `MaxTargets`,
`MaxChunks`, `MaxHits`, `MaxLines`, `MaxRecords` and `Steps` are the only ones in guards; the proxy's
instance is bounded by its finite sets of connections and requests. Two keys, one inside the other, are the least with which a
target matches by key and by address and a listing has two rows; two commands
let a ban and an unban meet, on one connection or two; a second infraction meets the record
of the first in the queue; a strike, an unban and an end fit in
every order; a clock of two instants makes a ban expire. A command names one target at
a time, and an ingestion of two chunks is the command of several. Beside the command line
one infraction is enough for the worker to write between a SELECT and its COMMIT. Two requests
of the pipeline, the first refused, struck, switched, challenged or trusted and the second
one that may be forwarded, are the least with which one is screened while the other is being
punished, and a ring of one record evicts at the second. A third request makes the state
space too large for the run; the theorems are about any set of requests. The
ingestion has two chunks so that the daemon can come or go between them, and a
chunk size of two so that three targets make an incomplete one; 2^20 stands for
2^64, above and below which the durations of the run fall at each multiplication. An operator's ban
(`Life`) outlasts an infraction's (`Day`) where that matters. In `edge_inputs` the variable
`subject` says which input a behaviour is about: the inputs do not interact, so the
run explores their sum and not their product. Its hellos are cut at 84 bytes where
the code cuts at 1024; the longest is longer, so that both a peek that comes early and one
that is full occur. One ACME request suffices, since requests share nothing they
write. The configurations have what makes tables disagree: a name listed twice,
loosely or in two routes, a host nobody lists, an address listed twice. The
proofs below take every one of these bounds away for the safety properties they are about.

Fairness. The daemon: the worker, a request task that owes a record and a handler
in the middle of a command are tasks of the runtime that nothing blocks, so each
is weakly fair. The proxy: none. Nothing in it times out, and whether the end of a
connection is noticed is decided by hyper and by what lies buffered, so no property says that
a request or a connection ends. The
ACME responder: the runtime schedules its task and the blocking pool its file
operations (`AcmeFairness`); neither writes of the files nor the end of a connection are
assumed. The command line: a process that has been started is scheduled, and so is its
handler; that its answer comes is a consequence (`CommandsEnd`), not an assumption. Requests,
commands, boots, ends, hang-ups and upstream answers are never assumed, because no
timeout in the code forces them.

`CHECK_DEADLOCK FALSE` appears in the proxy's runs (when all connections have
closed and all requests have ended, nothing is left to do in an instance with
finitely many of them), in `ingest_chunks` (a command that is over), in the runs of one violated property of the store and
the edge, and in `edge_inputs` (a
result that has been computed, a file nobody asks for any more).

## Proofs

All with TLAPS, for every value of the constants. The assumptions are the named
ones of the modules, each evaluated by TLC in a run: `TableAssumption`,
`ExpiryAssumption`, `DaemonAssumption`, `ControlAssumption`, `IngestAssumption`,
`CapacityAssumption`, `ConnAssumption`, `RequestAssumption`, `FramingAssumption`, `ConfigAssumption`,
`NameAssumption`, `MessageAssumption`, `HelloAssumption`, `WebrootAssumption`, `TextAssumption` (and
`PeekAssumption`, which no proof uses). Most give the constants their types.
`MessageAssumption` also says of hyper, which is external, that a message whose length is one
number has no more bytes than that.

* **Ledger** (`QuarantineLedgerProofs`). `AuditExplains` is inductive with the types;
  `CountMatchesAudit` needs a lemma on the quarantinings of an extended log. The shared
  ledger keeps the types, `CountMatchesAudit` (a lift logs no quarantining, whatever it read)
  and, of `AuditExplains`, the half that matters to who is refused: `ActiveAreLogged`, because what a
  lift logs it leaves inactive.
* **Store** (`QuarantineStoreProofs`). Types, for any handles. With at most one handle the store implements
  the ledger. The strengthening, `StoreInv`, says that the rows a call has
  SELECTed are still active: no other handle can have changed them, and for
  `unban_all` they are all the active ones. `AuditExplains` then comes from the
  ledger's theorem through the implementation. With any handles the store implements the
  shared ledger (`StoreSharesLedger`), without an invariant about what was SELECTed: there
  is none that other processes leave alone.
* **Daemon** (`QuarantineDaemonProofs`). Types; implementation of the ledger, step
  by step, from which `AuditExplains` follows; and `QuietUnbanIsFinal`. The
  invariant for the last, `UnbanInv`, has two halves: while a handler is between
  the two steps of a quiet unban, memory does not hold the CIDR and nothing in
  flight will (`WatchHolds`); after it, the row is inactive as well
  (`FreedHolds`). Both need that a handler inside a command has a target left
  (`HandlersOK`), part of `DaemonInv`.
* **Proxy** (`ProxyProofs`). The ring is the window of the newest records for any
  capacity, 0 included, and whatever a query matches, its k-th answer is a record with k - 1
  newer ones (`QueriesAnswerNewest`); the counters count the tasks for any finite set of
  connections; in the composition, types, both of these, `ThreatsAccounted`
  (each action moves the counter, the caught requests and the trapped records
  together) and `BarredNeverForwarded`, from `BarredInv`: a barred request at the
  perimeter has a reason to be denied there or is one the bot guard refuses, and one at
  the bot guard is refused there, so whichever lookup comes next stops it.

* **Control** (`QuarantineControlProofs`). `StoredBansAreEnforced` and
  `MemoryMirrorsStore`, for one IPC handler (`OneHandler`; two of them can undo each
  other's halves, as `status_enforced` shows) and any number of processes and targets. The
  invariant `Mirror` says of each network that memory and store agree or that the
  handler owes the store what it did in memory (`Owed`), which still holds there
  (`HalfDone`); a boot establishes it anew. `EnforcedInv` adds that nothing is queued without an
  infraction. `ControlInv` has the types and that a process inside a command has
  something left to do. For any processes and handlers the whole implements the shared
  ledger (`ControlSharesLedger`): a daemon's step is a step of the ledger, an offline
  commit a `LiftLate` of the rows its SELECT found, however many infractions, workers and
  commands wrote in between. `ActiveAreLogged` and `CountMatchesAudit` follow (`ControlAudit`).
* **Ingestion** (`QuarantineIngestProofs`). `IngestInv` says where each target and ban
  comes from (`FromTheLog`), that nothing wanted of the lines read is in neither (`NothingLost`),
  that the lines read are those in front of the first unreadable one once the input is over, that a
  command goes on only with a duration that was parsed, and `BansLastAsAsked` itself. The
  lemmas are about the operators: the addresses of a resolved target
  (`ResolveCovers`), what a line yields (`ExtractIsNames`), when checked and wrapping
  arithmetic is exact (`FitsExactly`, `SecondsAsAsked`, `ExpiryAsAsked`).
* **ACME** (`EdgeProofs`). `AcmeInv` ties each step to what its request has seen: the
  place looked at had a file, the flat one was chosen after the nested one was
  empty, a file that passed its size check had a small content. From it
  `StableTokenIsServed` and, step by step, the refinement of
  ChallengeLookup.
* **One message** (`EdgeProofs`). Behind the framing guard the first element of the first
  `Content-Length` line stands for all (`PassedIsUnambiguous`), which `Passed` keeps until
  the message is sent; `Identified` says that only the peer is in the seven headers the guard
  strips, whatever was forged (`StrippedHeaders`; nothing is claimed of `Forwarded`, which passes). Where a message goes is `Routed`: the routes are valid once the
  proxy serves, the target is what its host resolves to, and each way out (tunnel, race,
  direct) is the one that its route and its upgrade header call for. Under it lie the
  tables: what a loop over routes and names has entered for a name is the last route
  that lists it, in both tables alike, so certificate and upstream agree
  (`NamesLeadToOneRoute`), whatever leaves reaches an upstream of that route
  (`RouteIsReached`), and only what is streamed may be larger than the limit
  (`OnlyStreamsAreLarge`).
* **A ClientHello** (`EdgeProofs`). Three facts about the bytes: where the fields of any
  hello lie (`EncodedFieldsLie`), where each extension lies in its block
  (`BlocksAreLaidOut`, by induction on the list of extensions), and that a peek shows a
  beginning of them. The parser's walk along the extensions is a recursive function;
  `WalkExists` shows that there is one, because it always goes on behind where it is,
  and `ShownAreFound`, by induction from the last extension to the first, that it finds
  exactly the headers that have arrived. Hence a whole hello is read as sent
  (`HellosAreRead`), a cut one never as more (`PeeksUnderstate`), and a browser's request is
  never judged spoofed for what had not arrived (`BrowsersAreCoherent`). `HelloInvariant`
  carries this through the behaviour: the profile is what the bytes that had arrived
  give, and a verdict was given by it.
* **Texts** (`EdgeProofs`). `TextInvariant` only says that a result is what the function
  gives for its input; the work is about the functions. The scrubber's state after
  each character keeps to the limit and shows no control character, and a larger limit
  only goes on further (`ScrubsAreClean`). The reader of a CSV row, fed a quoted field,
  is in one of four modes with so much of the field read, and ends with the field, unless an
  unquoted CR broke the row (`BreaksRow`, excluded; `ExportedRowsReadBack`). A query is split at `&`, each pair redacted and joined, which
  is to mask the values of secrets in place (`QueriesAreRedacted`).

What is computed along a list is proved without the library's induction theorems, which
take an operator: the induction is over a *set* of numbers or of sequences (`InductiveUpTo`
and `SequenceInduction` in `SequenceFacts`), and the set is the one of which the claim
holds. The same module shows that the recursive functions behind `FoldLeft` and
`FlattenSeq` exist and what one more element does to them.

Refinements, step by step: AcmeWebroot implements ChallengeLookup (`INSTANCE ... WITH`, where
the request's outcome is `pending` while it looks); QuarantineStore, QuarantineDaemon and
QuarantineControl extend QuarantineLedger and implement it, `LedgerSpec` with one writer and
`SharedSpec` with several, with `table` and `audit` as they are.

Every safety property that a passing run checks is a theorem. One theorem has a property that
no run checks: `StoredBansAreEnforced`, which `MemoryMirrorsStore` contains for the daemon beside a
command line. Model-checked only: `StrikesSettle`, `CommandsEnd` and `RequestsAreAnswered`, since liveness
under fairness is beyond the prover, and the counterexamples.

Some statements are as strong as the code allows and weaker than one might expect.
`MemoryMirrorsStore` excludes infractions (a sub-threshold one is stored as a ban and not
enforced before the next boot), store errors, and an offline write that a booting daemon
overtakes, or that is made because a running daemon could not bind its socket: memory and
store then disagree until the next boot. `ActiveAreLogged` says nothing of inactive rows: a ban
committed between `unban_all`'s two transactions is lifted without a trace. `ExactSparesExcluded`
needs `--exact` and single addresses in the log: the exclusion looks at the address a target is
written with, the ban covers its network. `NothingMissed` ends at the first line that cannot be
read, and takes the daemon's word for its chunks. `BrowserNeverCondemned` is about browsers with
GREASE among their ciphers. `MessageReachesItsRoute` says of a raced route which upstreams are
registered with its racer, not which of them the racer asks. `QuietUnbanIsFinal` is about unbans
with nothing in flight and no error. `RowsReadBack` is about the four formula characters the code
finds, in fields that do not break their row.

## Seen while modelling

Those without a run's name contradict no document as plainly as the findings do, and no
property is built on them.

* A `Content-Length` of `GET` or `HEAD` that is written as a list (`5, 5`) passes the check
  that refuses a body there, since the whole value is parsed
  (`framing_guard/mod.rs:134`); its length is still unambiguous.
* `ingest-logs` reads its input with `lines().map_while(Result::ok)` (`quarantine/cli/parsers.rs:103`,
  110): one line that is not UTF-8 ends the input, the rest is skipped without a word, and the
  command reports success for what came before.
* The tests for a leading tab or carriage return in `sanitize_csv_field` are made on a text whose
  leading blanks have been trimmed, and never hold; a field with a CR is never quoted for it.
  That contradicts a document: `csv_formulas`.
* The 4096 bytes of a challenge file are those of its metadata, and its read is not bounded:
  `acme_cap`.
* A `Forwarded` header passes the framing guard as the client wrote it; seven other names are
  stripped (`framing_guard/mod.rs:208-214`).
* A ban the daemon takes from a command is reported as done whether or not its store wrote it.
* A redirect goes to the host's name without a port (`http_redirect.rs:85`), whatever port
  `https_bind` has.
* `check` calls a configuration valid that `serve` refuses to start with, because the
  certificate of a route has to cover its domains (`cli.rs:79`; `Valid` and `Registered`).
* A host with a trailing dot is another name and goes to the default route.
* Framing violations, ACME answers, the 413 of a raced route and the 502 of an upgrade
  leave no telemetry record, though `docs/ACTIVE_DEFENSE.md:240` says "records all edge
  activity".
* A body whose length is not given is collected and limited on a raced route only, and
  streamed without a limit on every other (`LargeBodiesOnlyStreamed`).

## Not modelled, and the plan

What is left, in the order it would be taken up:

1. The takeover of the control socket: `IpcServer::bind` removes the file
   (`quarantine/ipc.rs:63`). A second daemon with the same bind address fails before that,
   so it takes two configurations that share a socket path, and a model with two
   memories.
2. Several command-line processes at once in TLC: QuarantineControl has one in its instance;
   its theorems about the ledger are for any number.
3. A passing run of QuarantineStore with two handles: its weaker promise is proved, and the run of
   two writers that passes is `control_one_operator`.

Left out for good: the racer (hippodrome, not in the repository), the constant
security headers, the text, JSON, Markdown and HTML forms of a listing (layout), loading
certificates and parsing TOML (input in libraries), `sanitize_host_banner` and
`neutralize_formula` (called by their tests only), the hygiene pass (`malloc_trim`), the
redirect listener's accept loop (the proxy's, without its counters),
`check_header_value_bytes` (no value it refuses can be in a `HeaderMap`).
