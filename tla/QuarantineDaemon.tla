-------------------------- MODULE QuarantineDaemon --------------------------
(***************************************************************************)
(* The quarantine of a running proxy: the in-memory bans that requests are *)
(* checked against, the SQLite store behind them, and the four things that *)
(* change the two, each of them in two steps that others interleave with:  *)
(*                                                                         *)
(*  - request tasks: an infraction is counted in memory, then a record is  *)
(*    queued (defense.rs: record_and_check, then notify_quarantine);       *)
(*  - the persistence worker, which drains the queue into the store;       *)
(*  - IPC handlers: each command changes memory, then the store (ipc.rs);  *)
(*  - the boot of the daemon: rehydrate, start the worker, bind the socket *)
(*    (proxy/mod.rs: build_edge_defense), and its end, clean or not.       *)
(*                                                                         *)
(* All of them share one store handle and its mutex, so a store call is    *)
(* one step here; QuarantineStore is the module that opens it up.          *)
(*                                                                         *)
(* The in-memory engine is phylax::AutonomousQuarantine, not part of this  *)
(* repository: it is modelled from how this code uses it, with every       *)
(* choice the code leaves open (does this strike reach the threshold, does *)
(* a second ban replace the first or keep the later expiry) open here too. *)
(***************************************************************************)
EXTENDS QuarantineLedger, Functions

CONSTANTS
  Task,        \* request-handling tasks
  Conn,        \* IPC handler tasks
  Life,        \* how long operators and phylax ban for
  Day,         \* the 24 hours notify_quarantine puts in every record
  Outcomes,    \* outcomes of a store call or a bind: TRUE is success
  MaxTime,     \* bound: the clock
  MaxStrikes,  \* bound: infractions
  MaxCommands, \* bound: IPC commands
  MaxTargets   \* bound: targets in one IPC command

ASSUME DaemonAssumption ==
  /\ Life \subseteq Nat \ {0} /\ Day \in Nat \ {0}
  /\ {MaxTime, MaxStrikes, MaxCommands, MaxTargets} \subseteq Nat
  /\ \A t \in 0 .. MaxTime, d \in Life \cup {Day} : t + d \in Expiry
  /\ Outcomes \subseteq BOOLEAN /\ TRUE \in Outcomes
  /\ IsFiniteSet(Task)

VARIABLES
  phase,     \* "down", "booting" (rehydrated, not serving yet) or "up"
  managed,   \* the store was opened: there are a manager and a worker
  listening, \* the control socket is bound
  now,       \* the clock; it runs while the daemon is down, too
  memory,    \* phylax: expiry of each in-memory ban, 0 if there is none
  task,      \* the record a request task is about to queue
  queue,     \* the unbounded channel to the worker
  conn       \* what each IPC handler has left to do

\* Observed by the properties, never read by the program.
VARIABLES
  strikes,  \* infractions so far
  settled,  \* records written, given up with an error, or lost at the end
  commands, \* IPC commands so far
  watch,    \* per handler and CIDR: what an unban under way may promise
  freed,    \* per CIDR: what the last completed unban promised
  promised, \* per CIDR: the expiry of the last ban an operator had stored
  faulted   \* some store call or bind has failed

flags == <<phase, managed, listening>>
observed == <<strikes, settled, commands, watch, freed, promised, faulted>>
vars == <<flags, now, memory, task, queue, conn, ledgerVars, observed>>

BanRecord == [cidr : Cidr, expires : Expiry]

NoRecord == [cidr |-> "none", expires |-> 0]

IdleConn == [pc |-> "idle", todo |-> << >>, expires |-> 0]

ConnState ==
  [pc : {"idle", "banMemory", "banStore", "unbanMemory", "unbanStore",
         "clearMemory", "clearStore"},
   todo : Seq(Target),
   expires : Nat]

TypeOK ==
  /\ phase \in {"down", "booting", "up"}
  /\ managed \in BOOLEAN /\ listening \in BOOLEAN
  /\ now \in 0 .. MaxTime
  /\ memory \in [Cidr -> Nat]
  /\ task \in [Task -> BanRecord \cup {NoRecord}]
  /\ queue \in Seq(BanRecord)
  /\ conn \in [Conn -> ConnState]
  /\ LedgerTypeOK
  /\ strikes \in Nat /\ settled \in Nat /\ commands \in Nat
  /\ watch \in [Conn -> [Cidr -> {"no", "raced", "quiet"}]]
  /\ freed \in [Cidr -> {"no", "raced", "quiet"}]
  /\ promised \in [Cidr -> Nat]
  /\ faulted \in BOOLEAN

-----------------------------------------------------------------------------
(* phylax, external. *)

NoBans == [c \in Cidr |-> 0]

\* add_ban on a CIDR that is banned already may replace or extend.
AddBan(m, c, expires) ==
  {[m EXCEPT ![c] = expires]}
    \cup (IF m[c] > expires THEN {m} ELSE {})

\* record_and_check: below the threshold nothing is banned yet.
RecordAndCheck(m, c, t) == {m} \cup UNION {AddBan(m, c, t + d) : d \in Life}

RemoveBans(m, S) == [c \in Cidr |-> IF c \in S THEN 0 ELSE m[c]]

Enforced == {c \in Cidr : memory[c] > now}

-----------------------------------------------------------------------------
(* What the properties observe. *)

\* Something not finished yet will put c into the store or into memory.
InFlight(c) ==
  \/ \E x \in Task : task[x] # NoRecord /\ task[x].cidr = c
  \/ \E i \in DOMAIN queue : queue[i].cidr = c
  \/ \E k \in Conn : /\ conn[k].pc \in {"banMemory", "banStore"}
                     /\ \E i \in DOMAIN conn[k].todo : conn[k].todo[i] = c

\* A new reason to ban the CIDRs of S: what unbans promised of them is void.
NewCause(S) ==
  /\ watch' = [k \in Conn |-> [c \in Cidr |-> IF c \in S THEN "no" ELSE watch[k][c]]]
  /\ freed' = [c \in Cidr |-> IF c \in S THEN "no" ELSE freed[c]]

\* Handler k has just cleared S from memory.
Watch(k, S) ==
  watch' = [watch EXCEPT ![k] =
    [c \in Cidr |-> IF c \notin S THEN "no" ELSE IF InFlight(c) THEN "raced" ELSE "quiet"]]

\* Handler k is past the store's part of its unban.
Free(k, ok) ==
  /\ freed' = [c \in Cidr |-> IF ok /\ watch[k][c] # "no" THEN watch[k][c] ELSE freed[c]]
  /\ watch' = [watch EXCEPT ![k] = [c \in Cidr |-> "no"]]

ForgetPromises(S) == promised' = [c \in Cidr |-> IF c \in S THEN 0 ELSE promised[c]]

\* A store call with this outcome.
Noted(ok) == faulted' = (faulted \/ ~ok)

-----------------------------------------------------------------------------
Init ==
  /\ phase = "down" /\ managed = FALSE /\ listening = FALSE
  /\ now = 0
  /\ memory = NoBans
  /\ task = [x \in Task |-> NoRecord]
  /\ queue = << >>
  /\ conn = [k \in Conn |-> IdleConn]
  /\ LedgerInit
  /\ strikes = 0 /\ settled = 0 /\ commands = 0
  /\ watch = [k \in Conn |-> [c \in Cidr |-> "no"]]
  /\ freed = [c \in Cidr |-> "no"]
  /\ promised = [c \in Cidr |-> 0]
  /\ faulted = FALSE

Tick ==
  /\ now < MaxTime
  /\ now' = now + 1
  /\ UNCHANGED <<flags, memory, task, queue, conn, ledgerVars, observed>>

-----------------------------------------------------------------------------
(* The store's calls, each under the mutex of the one handle. *)

\* Mutant: the audit INSERT is left out of record_ban.
StoreRecordBanUnlogged(c, expires, ok) ==
  /\ table' = IF ok THEN Upsert(table, c, expires) ELSE table
  /\ UNCHANGED audit

\* record_ban(c, expires); an error leaves the store as it was.
StoreRecordBan(c, expires, ok) ==
  IF ok THEN /\ table' = Upsert(table, c, expires)
             /\ audit' = Log(audit, {c}, "quarantined")
        ELSE UNCHANGED ledgerVars

\* Mutant: the event is written as the CLI command, not as one of the log's.
StoreUnbanMislabelled(S, event, ok) ==
  /\ table' = IF ok THEN Deactivate(table, S) ELSE table
  /\ audit' = IF ok THEN Log(audit, S, "unban") ELSE audit

\* unban / unban_all of the active rows S.
StoreUnban(S, event, ok) ==
  IF ok THEN /\ table' = Deactivate(table, S)
             /\ audit' = Log(audit, S, event)
        ELSE UNCHANGED ledgerVars

\* rehydrate_with_timestamp into an engine nobody else sees yet: every active,
\* unexpired row is added with its own expiry.  A failed SELECT is a warning.
Rehydrated(ok) ==
  [c \in Cidr |-> IF ok /\ c \in ActiveBans(table, now) THEN table[c].expires ELSE 0]

-----------------------------------------------------------------------------
(* Boot and end of the daemon: build_edge_defense, run_serve. *)

BootRehydrate ==
  /\ phase = "down"
  /\ \E ok \in Outcomes : memory' = Rehydrated(ok) /\ Noted(ok)
  /\ phase' = "booting" /\ managed' = TRUE
  /\ UNCHANGED <<listening, now, task, queue, conn, ledgerVars>>
  /\ UNCHANGED <<strikes, settled, commands, watch, freed, promised>>

\* A socket that cannot be bound is a warning: the proxy serves without IPC.
BootBind ==
  /\ phase = "booting"
  /\ \E ok \in Outcomes : listening' = ok /\ Noted(ok)
  /\ phase' = "up"
  /\ UNCHANGED <<managed, now, memory, task, queue, conn, ledgerVars>>
  /\ UNCHANGED <<strikes, settled, commands, watch, freed, promised>>

\* A store that cannot be opened: in-memory fallback, no manager, no IPC.
BootFallback ==
  /\ phase = "down" /\ FALSE \in Outcomes
  /\ phase' = "up"
  /\ Noted(FALSE)
  /\ UNCHANGED <<managed, listening, now, memory, task, queue, conn, ledgerVars>>
  /\ UNCHANGED <<strikes, settled, commands, watch, freed, promised>>

\* The process ends, killed or by ctrl-c: run_serve returns after a hygiene
\* pass and nothing drains the queue or waits for a handler.
Stop ==
  /\ phase # "down"
  /\ phase' = "down" /\ managed' = FALSE /\ listening' = FALSE
  /\ memory' = NoBans
  /\ task' = [x \in Task |-> NoRecord]
  /\ queue' = << >>
  /\ conn' = [k \in Conn |-> IdleConn]
  /\ watch' = [k \in Conn |-> [c \in Cidr |-> "no"]]
  /\ settled' = settled + Len(queue) + Cardinality({x \in Task : task[x] # NoRecord})
  /\ UNCHANGED <<now, ledgerVars, strikes, commands, freed, promised, faulted>>

-----------------------------------------------------------------------------
(* Requests: evaluate_request_full. *)

\* A hostile payload, a spoofed ClientHello or a canary: record_and_check in
\* memory, and a record that is active for a day whether or not the threshold
\* was reached.  Without a manager notify_quarantine does nothing.
Strike(x, a) ==
  /\ phase = "up" /\ task[x] = NoRecord /\ strikes < MaxStrikes
  /\ memory' \in RecordAndCheck(memory, HomeNet[a], now)
  /\ strikes' = strikes + 1
  /\ IF managed
       THEN /\ task' = [task EXCEPT ![x] = [cidr |-> HomeNet[a], expires |-> now + Day]]
            /\ UNCHANGED settled
       ELSE /\ settled' = settled + 1
            /\ UNCHANGED task
  /\ NewCause({HomeNet[a]})
  /\ UNCHANGED <<flags, now, queue, conn, ledgerVars, commands, promised, faulted>>

\* notify_quarantine: send on the unbounded channel.
Notify(x) ==
  /\ task[x] # NoRecord
  /\ queue' = Append(queue, task[x])
  /\ task' = [task EXCEPT ![x] = NoRecord]
  /\ UNCHANGED <<flags, now, memory, conn, ledgerVars, observed>>

\* evaluate_perimeter denies the request and phylax bans on its own account:
\* this path queues no record.
PerimeterDeny(a) ==
  /\ phase = "up" /\ strikes < MaxStrikes
  /\ memory' \in RecordAndCheck(memory, HomeNet[a], now) \ {memory}
  /\ strikes' = strikes + 1 /\ settled' = settled + 1
  /\ NewCause({HomeNet[a]})
  /\ UNCHANGED <<flags, now, task, queue, conn, ledgerVars, commands, promised, faulted>>

\* Mutant: a record that could not be written goes back to the end of the queue.
WorkerRequeues ==
  /\ queue # << >>
  /\ \E ok \in Outcomes :
       /\ StoreRecordBan(Head(queue).cidr, Head(queue).expires, ok)
       /\ Noted(ok)
       /\ queue' = IF ok THEN Tail(queue) ELSE Append(Tail(queue), Head(queue))
       /\ settled' = IF ok THEN settled + 1 ELSE settled
  /\ UNCHANGED <<flags, now, memory, task, conn>>
  /\ UNCHANGED <<strikes, commands, watch, freed, promised>>

\* run_persistence_worker: receive, record_ban, log an error and go on.
Worker ==
  /\ queue # << >>
  /\ \E ok \in Outcomes :
       /\ StoreRecordBan(Head(queue).cidr, Head(queue).expires, ok)
       /\ Noted(ok)
  /\ queue' = Tail(queue)
  /\ settled' = settled + 1
  /\ UNCHANGED <<flags, now, memory, task, conn>>
  /\ UNCHANGED <<strikes, commands, watch, freed, promised>>

-----------------------------------------------------------------------------
(* IPC: handle_connection, exec_ban, exec_unban. *)

Batch == UNION {[1 .. n -> Target] : n \in 1 .. MaxTargets}

Receive(k, pc, todo, expires) ==
  /\ phase = "up" /\ listening /\ conn[k].pc = "idle" /\ commands < MaxCommands
  /\ conn' = [conn EXCEPT ![k] = [pc |-> pc, todo |-> todo, expires |-> expires]]
  /\ commands' = commands + 1
  /\ UNCHANGED <<flags, now, memory, task, queue, ledgerVars, strikes, settled, faulted>>

\* Targets that name no network are skipped by the loop: the list is of those
\* that do, resolved.
ReceiveBan(k, targets, exact, life) ==
  LET nets == [i \in DOMAIN targets |-> Resolve(targets[i], exact)] IN
  /\ Receive(k, "banMemory", nets, now + life)
  /\ NewCause(Range(nets))
  /\ UNCHANGED promised

ReceiveUnban(k, targets) ==
  /\ Receive(k, "unbanMemory", targets, 0)
  /\ ForgetPromises(UNION {Matches(targets[i]) : i \in DOMAIN targets})
  /\ UNCHANGED <<watch, freed>>

ReceiveUnbanAll(k) ==
  /\ Receive(k, "clearMemory", << >>, 0)
  /\ ForgetPromises(Cidr)
  /\ UNCHANGED <<watch, freed>>

\* The head of the list is done: on to the next target, or reply.
NextTarget(k, pc) ==
  conn' = [conn EXCEPT ![k] =
    IF Len(@.todo) = 1 THEN IdleConn
    ELSE [pc |-> pc, todo |-> Tail(@.todo), expires |-> @.expires]]

BanMemory(k) ==
  /\ conn[k].pc = "banMemory"
  /\ memory' \in AddBan(memory, Head(conn[k].todo), conn[k].expires)
  /\ conn' = [conn EXCEPT ![k].pc = "banStore"]
  /\ UNCHANGED <<flags, now, task, queue, ledgerVars, observed>>

\* `let _ = store.record_ban(&rec)`: reported as banned whatever happened.
BanStore(k) ==
  LET c == Head(conn[k].todo) IN
  /\ conn[k].pc = "banStore"
  /\ \E ok \in Outcomes :
       /\ StoreRecordBan(c, conn[k].expires, ok)
       /\ promised' = IF ok THEN [promised EXCEPT ![c] = conn[k].expires] ELSE promised
       /\ Noted(ok)
  /\ NextTarget(k, "banMemory")
  /\ UNCHANGED <<flags, now, memory, task, queue>>
  /\ UNCHANGED <<strikes, settled, commands, watch, freed>>

UnbanMemory(k) ==
  LET S == Matches(Head(conn[k].todo)) IN
  /\ conn[k].pc = "unbanMemory"
  /\ memory' = RemoveBans(memory, S)
  /\ conn' = [conn EXCEPT ![k].pc = "unbanStore"]
  /\ Watch(k, S)
  /\ UNCHANGED <<flags, now, task, queue, ledgerVars>>
  /\ UNCHANGED <<strikes, settled, commands, freed, promised, faulted>>

\* A store error is not reported: the target is only left out of the count.
UnbanStore(k) ==
  /\ conn[k].pc = "unbanStore"
  /\ \E ok \in Outcomes :
       /\ StoreUnban(SelectUnban(table, Head(conn[k].todo)), "unbanned", ok)
       /\ Free(k, ok)
       /\ Noted(ok)
  /\ NextTarget(k, "unbanMemory")
  /\ UNCHANGED <<flags, now, memory, task, queue>>
  /\ UNCHANGED <<strikes, settled, commands, promised>>

ClearMemory(k) ==
  /\ conn[k].pc = "clearMemory"
  /\ memory' = NoBans
  /\ conn' = [conn EXCEPT ![k].pc = "clearStore"]
  /\ Watch(k, Cidr)
  /\ UNCHANGED <<flags, now, task, queue, ledgerVars>>
  /\ UNCHANGED <<strikes, settled, commands, freed, promised, faulted>>

ClearStore(k) ==
  /\ conn[k].pc = "clearStore"
  /\ \E ok \in Outcomes :
       /\ StoreUnban(Active(table), "unbanned_all", ok)
       /\ Free(k, ok)
       /\ Noted(ok)
  /\ conn' = [conn EXCEPT ![k] = IdleConn]
  /\ UNCHANGED <<flags, now, memory, task, queue>>
  /\ UNCHANGED <<strikes, settled, commands, promised>>

Handler(k) ==
  \/ BanMemory(k) \/ BanStore(k)
  \/ UnbanMemory(k) \/ UnbanStore(k)
  \/ ClearMemory(k) \/ ClearStore(k)

-----------------------------------------------------------------------------
Lifecycle == BootRehydrate \/ BootBind \/ BootFallback \/ Stop

Requests ==
  \/ \E x \in Task : Notify(x) \/ \E a \in Addr : Strike(x, a)
  \/ \E a \in Addr : PerimeterDeny(a)

Operators ==
  \E k \in Conn :
    \/ \E targets \in Batch : ReceiveUnban(k, targets)
    \/ \E targets \in Batch, exact \in BOOLEAN, life \in Life :
         ReceiveBan(k, targets, exact, life)
    \/ ReceiveUnbanAll(k)

Next ==
  \/ Tick
  \/ Lifecycle
  \/ Requests
  \/ Worker
  \/ Operators
  \/ \E k \in Conn : Handler(k)

Spec == Init /\ [][Next]_vars

\* The tasks of the runtime are scheduled: a spawned task that can run, does.
\* Nothing makes requests, commands, ends or boots happen.
Fairness ==
  /\ WF_vars(Worker)
  /\ \A x \in Task : WF_vars(Notify(x))
  /\ \A k \in Conn : WF_vars(Handler(k))

FairSpec == Spec /\ Fairness

-----------------------------------------------------------------------------
\* Whatever the tasks do and however often the daemon ends, its store implements
\* the ledger: table and audit log change together and the log is only extended.
ImplementsLedger == LedgerSpec

\* An unban that ran while nothing about the CIDR was in flight is final: the
\* CIDR is in neither memory nor the active rows, across any other command and
\* any number of ends and boots, until a new infraction or ban names it.
QuietUnbanIsFinal ==
  \A c \in Cidr : freed[c] = "quiet" => memory[c] = 0 /\ ~table[c].active

\* The same without the condition: an unban that was stored is final until a new
\* infraction or ban.  Violated: a record queued before the unban is drained
\* after it and makes the row active again.
UnbanIsFinal ==
  \A c \in Cidr : freed[c] # "no" => ~table[c].active

\* A ban that an operator was told is in place, and that was stored, keeps at
\* least its expiry in the store until an unban names it.  Violated: the UPSERT
\* of a later infraction's record overwrites expires_at with its own 24 hours.
StoredBanKeepsExpiry ==
  \A c \in Cidr : promised[c] > 0 => table[c].expires >= promised[c]

\* No infraction so far, every store call succeeded, one operator: whenever the
\* handler is not between a command's step in memory and its step in the store, what
\* the store calls an active ban is enforced in memory, for at least as long.  This
\* holds across restarts: rehydration.
StoredBansAreEnforced ==
  /\ phase # "down" /\ strikes = 0 /\ ~faulted
  /\ \A k \in Conn : conn[k].pc \notin {"banStore", "unbanStore", "clearStore"}
  => \A c \in ActiveBans(table, now) : memory[c] >= table[c].expires

\* `quarantine status` prints the store's active rows as "Active Enforced Bans".
\* With nothing left to do and no store error they should be enforced.
\* Violated by a ban and an unban of one CIDR that two handlers interleave:
\* memory takes the ban first and the store takes it last.
ActiveRowsAreEnforced ==
  /\ phase = "up" /\ managed /\ ~faulted
  /\ queue = << >> /\ \A x \in Task : task[x] = NoRecord
  /\ \A k \in Conn : conn[k].pc = "idle"
  => ActiveBans(table, now) \subseteq Enforced

\* Every infraction's record is written, given up with an error, or lost with
\* the process: the queue never keeps one forever while the worker runs.
StrikesSettle ==
  \A n \in 1 .. MaxStrikes : strikes >= n ~> settled >= n
=============================================================================
