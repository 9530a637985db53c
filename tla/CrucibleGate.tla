---------------------------- MODULE CrucibleGate ----------------------------
(***************************************************************************)
(* The crucible gate (crucible.rs): a listener of its own with an          *)
(* in-memory quarantine that bans at the first infraction, and a store     *)
(* like the proxy's.  The handler reads no body, so it never awaits;       *)
(* handlers of different connections run beside each other.                *)
(*                                                                         *)
(* The clock is in milliseconds, as the memory of phylax and the store's   *)
(* readers count; the handler stamps its records in seconds.               *)
(***************************************************************************)
EXTENDS QuarantineLedger

CONSTANTS
  Task,    \* request handlers
  Milli,   \* milliseconds in a second
  Hour,    \* seconds a ban lasts
  Start,   \* the time the gate starts
  Steps,   \* bound: how far the clock may jump
  MaxTime, \* bound: the clock
  MaxHits  \* bound: hostile requests

VARIABLES
  now,    \* milliseconds
  memory, \* phylax: expiry of each ban, 0 if there is none
  task,   \* what each handler is about to do
  hits,   \* hostile requests so far
  failed  \* observed: some record could not be stored

gateVars == <<now, memory, task, hits, failed, ledgerVars>>

IdleTask == [pc |-> "idle", cidr |-> "none", at |-> 0]

GateInit ==
  /\ LedgerInit
  /\ now = Start
  /\ memory = [c \in Cidr |-> 0]
  /\ task = [x \in Task |-> IdleTask]
  /\ hits = 0 /\ failed = FALSE

\* A handler takes no longer than a few milliseconds.
Pass ==
  /\ \E d \in Steps :
       /\ d > 1 => \A x \in Task : task[x].pc = "idle"
       /\ now + d <= MaxTime
       /\ now' = now + d
  /\ UNCHANGED <<memory, task, hits, failed, ledgerVars>>

\* A request that is not quarantined and is caught: a payload, a scanner's agent
\* or a decoy path, each with the same three effects.  A quarantined client, a
\* framing conflict and a clean request change nothing.
Catch(x, a) ==
  /\ task[x].pc = "idle" /\ hits < MaxHits
  /\ memory[HomeNet[a]] <= now
  /\ task' = [task EXCEPT ![x] = [pc |-> "record", cidr |-> HomeNet[a], at |-> now]]
  /\ hits' = hits + 1
  /\ UNCHANGED <<now, memory, failed, ledgerVars>>

\* `let _ = ctx.store.record_ban(&rec)`: quarantined_at and expires_at are made
\* of now_sec.
StampedExpiry(at) == at \div Milli + Hour

RecordHit(x) ==
  LET c == task[x].cidr IN
  /\ task[x].pc = "record"
  /\ \/ /\ table' = Upsert(table, c, StampedExpiry(task[x].at))
        /\ audit' = Log(audit, {c}, "quarantined")
        /\ UNCHANGED failed
     \/ failed' = TRUE /\ UNCHANGED ledgerVars
  /\ task' = [task EXCEPT ![x].pc = "ban"]
  /\ UNCHANGED <<now, memory, hits>>

\* record_and_check with a threshold of 1 bans at once, for Hour.
BanHit(x) ==
  /\ task[x].pc = "ban"
  /\ memory' = [memory EXCEPT ![task[x].cidr] = task[x].at + Hour * Milli]
  /\ task' = [task EXCEPT ![x] = IdleTask]
  /\ UNCHANGED <<now, hits, failed, ledgerVars>>

GateNext ==
  \/ Pass
  \/ \E x \in Task : RecordHit(x) \/ BanHit(x) \/ \E a \in Addr : Catch(x, a)

GateSpec == GateInit /\ [][GateNext]_gateVars

-----------------------------------------------------------------------------
\* Without a store error, what the gate enforces for another second at least is
\* an active ban of the store: listed, and there for a boot to rehydrate.
\* Violated: an expiry in seconds lies far before any time in milliseconds.
GateBansAreListed ==
  ~failed => \A c \in Cidr : memory[c] > now + Milli => c \in ActiveBans(table, now)
=============================================================================
