-------------------------- MODULE QuarantineLedger --------------------------
(***************************************************************************)
(* What the quarantine store promises: a table of bans and an audit log    *)
(* that change together, one transaction at a time.  A ban activates one   *)
(* row and is logged; lifting bans deactivates a set of ACTIVE rows and    *)
(* logs every one of them, once.  The daemon (QuarantineDaemon) is checked *)
(* to implement it, and a store that one process has open is proved to.    *)
(* Processes that share the file keep a weaker promise, SharedSpec.        *)
(***************************************************************************)
EXTENDS QuarantineTable, FiniteSets

CONSTANT Expiry \* the expiry times bans are given

ASSUME ExpiryAssumption == Expiry \subseteq Nat

VARIABLES
  table, \* quarantined_subnets
  audit  \* quarantine_audit_log, per CIDR

ledgerVars == <<table, audit>>

LedgerTypeOK ==
  /\ table \in [Cidr -> Row]
  /\ audit \in [Cidr -> Seq(AuditEvent)]

LedgerInit ==
  /\ table = EmptyTable
  /\ audit = EmptyAudit

\* record_ban: the UPSERT and its audit row, in one transaction.
Record(c, expires) ==
  /\ table' = Upsert(table, c, expires)
  /\ audit' = Log(audit, {c}, "quarantined")

\* unban and unban_all: S was active, becomes inactive, and is logged.
Lift(S, event) ==
  /\ S \subseteq Active(table)
  /\ table' = Deactivate(table, S)
  /\ audit' = Log(audit, S, event)

LedgerNext ==
  \/ \E c \in Cidr, expires \in Expiry : Record(c, expires)
  \/ \E S \in SUBSET Cidr, event \in {"unbanned", "unbanned_all"} : Lift(S, event)

LedgerSpec == LedgerInit /\ [][LedgerNext]_ledgerVars

\* The same on rows R that were read in an earlier transaction: the UPDATE takes
\* S, the log takes R, and nothing is logged as lifted that stays active.
LiftLate(S, R, event) ==
  /\ R \cap Active(table) \subseteq S
  /\ table' = Deactivate(table, S)
  /\ audit' = Log(audit, R, event)

SharedNext ==
  \/ \E c \in Cidr, expires \in Expiry : Record(c, expires)
  \/ \E S, R \in SUBSET Cidr, event \in {"unbanned", "unbanned_all"} : LiftLate(S, R, event)

SharedSpec == LedgerInit /\ [][SharedNext]_ledgerVars

-----------------------------------------------------------------------------
Quarantinings(log) == {i \in DOMAIN log : log[i] = "quarantined"}

\* The audit log explains the table: a row is active exactly when the last
\* event logged for its CIDR is "quarantined".  Nobody is banned or freed
\* without a trace, and no trace is left of what did not happen.
AuditExplains ==
  \A c \in Cidr :
    table[c].active <=> /\ audit[c] # << >>
                        /\ audit[c][Len(audit[c])] = "quarantined"

\* Half of it, whoever else writes the same file: a row is active only when the
\* last event logged for its CIDR is "quarantined".  No ban without a trace, and
\* none that its own log says was lifted.
ActiveAreLogged ==
  \A c \in Active(table) : audit[c] # << >> /\ audit[c][Len(audit[c])] = "quarantined"

\* The infraction_count the UPSERT accumulates is the number of "quarantined"
\* events of the CIDR: the two statements of record_ban commit together.
CountMatchesAudit ==
  \A c \in Cidr : table[c].count = Cardinality(Quarantinings(audit[c]))
=============================================================================
