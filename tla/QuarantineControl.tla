------------------------- MODULE QuarantineControl -------------------------
(***************************************************************************)
(* The quarantine command line (quarantine/cli) beside a daemon that boots *)
(* and ends when it likes.  A command asks whether anybody accepts on the  *)
(* control socket; if so it sends its request and waits for the answer,    *)
(* otherwise it opens the store and does the work itself.  ingest-logs     *)
(* does this anew for each chunk of targets.                               *)
(*                                                                         *)
(* The daemon is the whole of QuarantineDaemon: infractions, queue and     *)
(* worker go on beside the commands, so its writes do fall between the     *)
(* SELECT and the COMMIT of a process that took it for absent.  An IPC     *)
(* handler lives for one request, so a process waits for its own handler.  *)
(* The daemon's own store calls are one step each here, as in that module: *)
(* QuarantineStore is the one that opens the calls of every process.       *)
(***************************************************************************)
EXTENDS QuarantineDaemon

CONSTANTS
  Cli,      \* command-line processes
  MaxChunks \* bound: chunks of one command; MaxCommands bounds those of all

ASSUME ControlAssumption == MaxChunks \in Nat /\ Conn # {}

VARIABLES
  cli,     \* where each process is in its command
  issued,  \* chunks of the commands typed so far, each at most one IPC command
  crossed  \* observed: an offline write was committed beside a running daemon

ctlVars == <<cli, issued, crossed>>
allVars == <<vars, ctlVars>>

\* chunks: the targets left, of a ban as given; rows: what an offline unban has
\* SELECTed; conn: the handler the process waits for.
CliState ==
  [pc : {"idle", "probe", "send", "wait", "offline", "commit"},
   op : {"none", "ban", "unban", "clear"},
   chunks : Seq(Seq(Target)), exact : BOOLEAN, life : Nat, started : Nat,
   rows : SUBSET Cidr, conn : Conn]

SomeConn == CHOOSE k \in Conn : TRUE

IdleCli ==
  [pc |-> "idle", op |-> "none", chunks |-> << >>, exact |-> FALSE, life |-> 0,
   started |-> 0, rows |-> {}, conn |-> SomeConn]

ControlTypeOK ==
  /\ TypeOK
  /\ cli \in [Cli -> CliState]
  /\ issued \in 0 .. MaxCommands
  /\ crossed \in BOOLEAN

ControlInit ==
  /\ Init
  /\ cli = [p \in Cli |-> IdleCli]
  /\ issued = 0
  /\ crossed = FALSE

-----------------------------------------------------------------------------
(* Typing a command. *)

\* A ban and an unban have one chunk, an ingestion is a ban with several, clear
\* has one without targets.
Issue(p, op, chunks, exact, life) ==
  /\ cli[p].pc = "idle" /\ issued + Len(chunks) <= MaxCommands
  /\ cli' = [cli EXCEPT ![p] =
       [IdleCli EXCEPT !.pc = "probe", !.op = op, !.chunks = chunks,
                       !.exact = exact, !.life = life, !.started = now]]
  /\ issued' = issued + Len(chunks)
  /\ UNCHANGED <<vars, crossed>>

Type(p) ==
  \/ \E n \in 1 .. MaxChunks : \E chunks \in [1 .. n -> Batch],
        exact \in BOOLEAN, life \in Life : Issue(p, "ban", chunks, exact, life)
  \/ \E targets \in Batch : Issue(p, "unban", <<targets>>, FALSE, 0)
  \/ Issue(p, "clear", << << >> >>, FALSE, 0)

\* The rest of the command once its first chunk is done.
Rest(s) ==
  IF Len(s.chunks) <= 1 THEN IdleCli
  ELSE [s EXCEPT !.pc = "probe", !.chunks = Tail(@)]

-----------------------------------------------------------------------------
(* With a daemon. *)

\* is_alive: somebody accepts on the socket.  A proxy that has rehydrated but
\* not bound yet, or could not bind, does not.
Probe(p) ==
  /\ cli[p].pc = "probe"
  /\ cli' = [cli EXCEPT ![p].pc = IF listening THEN "send" ELSE "offline"]
  /\ UNCHANGED <<vars, issued, crossed>>

\* A handler no process is waiting for.
Fresh(k) == \A p \in Cli : cli[p].pc = "wait" => cli[p].conn # k

\* send_request up to the flush.
Send(p) ==
  LET targets == Head(cli[p].chunks) IN
  /\ cli[p].pc = "send"
  /\ \E k \in Conn :
       /\ Fresh(k)
       /\ CASE cli[p].op = "ban" -> ReceiveBan(k, targets, cli[p].exact, cli[p].life)
            [] cli[p].op = "unban" -> ReceiveUnban(k, targets)
            [] cli[p].op = "clear" -> ReceiveUnbanAll(k)
       /\ cli' = [cli EXCEPT ![p].pc = "wait", ![p].conn = k]
  /\ UNCHANGED <<issued, crossed>>

\* Mutant: a daemon that is gone is probed for again.
RefusedRetries(p) ==
  /\ cli[p].pc = "send" /\ ~listening
  /\ cli' = [cli EXCEPT ![p].pc = "probe"]
  /\ UNCHANGED <<vars, issued, crossed>>

\* DaemonOffline: the daemon has gone since the probe and `?` ends the command.
Refused(p) ==
  /\ cli[p].pc = "send" /\ ~listening
  /\ cli' = [cli EXCEPT ![p] = IdleCli]
  /\ UNCHANGED <<vars, issued, crossed>>

\* The handler has answered.
Reply(p) ==
  /\ cli[p].pc = "wait" /\ conn[cli[p].conn].pc = "idle"
  /\ cli' = [cli EXCEPT ![p] = Rest(@)]
  /\ UNCHANGED <<vars, issued, crossed>>

\* The end of the daemon is the end of the stream for those who wait: always
\* when their handler had not finished, possibly when its answer was under way.
StopBesideCli ==
  LET waiting == {p \in Cli : cli[p].pc = "wait"}
      cut == {p \in waiting : conn[cli[p].conn].pc # "idle"}
  IN
  /\ Stop
  /\ \E lost \in SUBSET waiting :
       /\ cut \subseteq lost
       /\ cli' = [p \in Cli |-> IF p \in lost THEN IdleCli ELSE cli[p]]
  /\ UNCHANGED <<issued, crossed>>

-----------------------------------------------------------------------------
(* Without a daemon, or so the probe said: on a store handle of its own. *)

\* The first target of the first chunk is done.
NextOffline(s) ==
  IF Len(Head(s.chunks)) <= 1 THEN Rest(s)
  ELSE [s EXCEPT !.pc = "offline", !.rows = {},
                 !.chunks = <<Tail(Head(@))>> \o Tail(@)]

\* A write was committed: `?` ends the command if it was not.
Wrote(p, ok) ==
  /\ cli' = [cli EXCEPT ![p] = IF ok THEN NextOffline(@) ELSE IdleCli]
  /\ crossed' = (crossed \/ (ok /\ phase # "down"))
  /\ Noted(ok)
  /\ UNCHANGED <<flags, now, memory, task, queue, conn, strikes, settled, commands, issued>>

\* exec_cli_ban: the expiry counts from the start of the command.
OfflineBan(p) ==
  LET s == cli[p]
      c == Resolve(Head(Head(s.chunks)), s.exact)
  IN
  /\ s.pc = "offline" /\ s.op = "ban"
  /\ NewCause({c})
  /\ \E ok \in Outcomes :
       /\ StoreRecordBan(c, s.started + s.life, ok)
       /\ promised' = IF ok THEN [promised EXCEPT ![c] = s.started + s.life] ELSE promised
       /\ Wrote(p, ok)

\* What an offline unban or clear finds to lift.
Found(s) ==
  IF s.op = "clear" THEN Active(table) ELSE SelectUnban(table, Head(Head(s.chunks)))

\* The SELECTs of unban and unban_all; with no rows the call is over.  An error,
\* or a store that cannot be opened, ends the command.
OfflineSelect(p) ==
  LET s == cli[p] IN
  /\ s.pc = "offline" /\ s.op \in {"unban", "clear"}
  /\ \E ok \in Outcomes :
       cli' = [cli EXCEPT ![p] =
         IF ~ok THEN IdleCli
         ELSE IF Found(s) # {} THEN [@ EXCEPT !.pc = "commit", !.rows = Found(s)]
         ELSE NextOffline(@)]
  /\ UNCHANGED <<vars, issued, crossed>>

\* Mutant: unban_all swaps its sets: the UPDATE takes the rows of the SELECT, the
\* log those that are active now.
OfflineCommitSwapped(p) ==
  LET s == cli[p]
      logging == IF s.op = "clear" THEN Active(table) ELSE s.rows
  IN
  /\ s.pc = "commit"
  /\ \E ok \in Outcomes :
       /\ table' = IF ok THEN Deactivate(table, s.rows) ELSE table
       /\ audit' = IF ~ok THEN audit
                   ELSE Log(audit, logging, IF s.op = "clear" THEN "unbanned_all" ELSE "unbanned")
       /\ ForgetPromises(s.rows)
       /\ Wrote(p, ok)
  /\ UNCHANGED <<watch, freed>>

\* The transactions of unban and unban_all (which takes what is active now).
OfflineCommit(p) ==
  LET s == cli[p]
      freeing == IF s.op = "clear" THEN Active(table) ELSE s.rows
  IN
  /\ s.pc = "commit"
  /\ \E ok \in Outcomes :
       /\ table' = IF ok THEN Deactivate(table, freeing) ELSE table
       /\ audit' = IF ~ok THEN audit
                   ELSE Log(audit, s.rows, IF s.op = "clear" THEN "unbanned_all" ELSE "unbanned")
       /\ ForgetPromises(freeing)
       /\ Wrote(p, ok)
  /\ UNCHANGED <<watch, freed>>

-----------------------------------------------------------------------------
\* External: the operator interrupts a command, wherever it is.  Its writes stay
\* written, its handler goes on, and what it had SELECTed is never committed.
Interrupt(p) ==
  /\ cli[p].pc # "idle"
  /\ cli' = [cli EXCEPT ![p] = IdleCli]
  /\ UNCHANGED <<vars, issued, crossed>>

CliStep(p) ==
  \/ Probe(p) \/ Send(p) \/ Refused(p) \/ Reply(p)
  \/ OfflineBan(p) \/ OfflineSelect(p) \/ OfflineCommit(p)

-----------------------------------------------------------------------------
Booting == BootRehydrate \/ BootBind \/ BootFallback

ControlNext ==
  \/ (Tick \/ Booting \/ Requests \/ Worker \/ \E k \in Conn : Handler(k)) /\ UNCHANGED ctlVars
  \/ StopBesideCli
  \/ \E p \in Cli : Type(p) \/ CliStep(p) \/ Interrupt(p)

ControlSpec == ControlInit /\ [][ControlNext]_allVars

\* Processes and handlers are scheduled; nobody must type, boot or end anything.
ControlFairness ==
  /\ \A p \in Cli : WF_allVars(CliStep(p))
  /\ \A k \in Conn : WF_allVars(Handler(k) /\ UNCHANGED ctlVars)

FairControlSpec == ControlSpec /\ ControlFairness

-----------------------------------------------------------------------------
\* One operator at a time, no infraction yet, no store error, and no offline write
\* beside a running daemon: whenever the handler is not between a command's step in
\* memory and its step in the store, the two say the same.  What is listed as
\* active is enforced for as long, and what is enforced is active: through probes,
\* chunks, boots and ends in any order.
MemoryMirrorsStore ==
  /\ managed /\ strikes = 0 /\ ~faulted /\ ~crossed
  /\ \A k \in Conn : conn[k].pc \notin {"banStore", "unbanStore", "clearStore"}
  => \A c \in Cidr : /\ c \in ActiveBans(table, now) => memory[c] >= table[c].expires
                     /\ memory[c] > now => table[c].active

\* However the writes of the daemon and of processes that took it for absent fall
\* between each other's SELECT and COMMIT, the file keeps the promise of the shared
\* ledger: no row stays active that a commit logs as lifted.
SharesLedger == SharedSpec

\* A command ends, although no timeout guards the answer it waits for: the daemon
\* answers, or its end closes the stream, and a probe is never repeated.
CommandsEnd == \A p \in Cli : cli[p].pc # "idle" ~> cli[p].pc = "idle"
=============================================================================
