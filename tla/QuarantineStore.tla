-------------------------- MODULE QuarantineStore --------------------------
(***************************************************************************)
(* QuarantineStore (quarantine/store.rs) as its callers share it.  A       *)
(* handle is one opened store: one connection behind one Mutex, held for   *)
(* the whole of a call, so the calls of one handle never overlap.  Handles *)
(* of different processes (the daemon, an offline CLI) meet in SQLite      *)
(* only, which serialises transactions and nothing else: unban and         *)
(* unban_all SELECT in a transaction of their own, before the one that     *)
(* UPDATEs and logs, and another process may commit between the two.       *)
(***************************************************************************)
EXTENDS QuarantineLedger

CONSTANTS
  Handle,   \* opened stores, at most one per process
  MaxEvents \* bound: audit events per CIDR

VARIABLE call \* the call each handle is inside, between its SELECT and its COMMIT

storeVars == <<table, audit, call>>

\* No call is past its SELECT.
NoCall == [op |-> "none", rows |-> {}]

Call == [op : {"none", "unban", "unban_all"}, rows : SUBSET Cidr]

StoreTypeOK ==
  /\ LedgerTypeOK
  /\ call \in [Handle -> Call]

\* open and init_schema: CREATE TABLE IF NOT EXISTS on a new file.
StoreInit ==
  /\ LedgerInit
  /\ call = [h \in Handle |-> NoCall]

\* The mutex of the handle is free.
Idle(h) == call[h].op = "none"

\* Bound of the model: no CIDR's log outgrows MaxEvents.
Room(S) == \A c \in S : Len(audit[c]) < MaxEvents

\* record_ban: the UPSERT and the audit row, in one transaction.
RecordBan(h, c, expires) ==
  /\ Idle(h) /\ Room({c})
  /\ table' = Upsert(table, c, expires)
  /\ audit' = Log(audit, {c}, "quarantined")
  /\ UNCHANGED call

\* unban up to its early return: SELECT the rows, give up if there are none.
UnbanSelect(h, target) ==
  /\ Idle(h)
  /\ SelectUnban(table, target) # {}
  /\ call' = [call EXCEPT ![h] = [op |-> "unban", rows |-> SelectUnban(table, target)]]
  /\ UNCHANGED ledgerVars

\* unban's transaction: each SELECTed key is set inactive and logged, whether
\* or not it still is active.
UnbanCommit(h) ==
  /\ call[h].op = "unban" /\ Room(call[h].rows)
  /\ table' = Deactivate(table, call[h].rows)
  /\ audit' = Log(audit, call[h].rows, "unbanned")
  /\ call' = [call EXCEPT ![h] = NoCall]

UnbanAllSelect(h) ==
  /\ Idle(h)
  /\ Active(table) # {}
  /\ call' = [call EXCEPT ![h] = [op |-> "unban_all", rows |-> Active(table)]]
  /\ UNCHANGED ledgerVars

\* unban_all's transaction: the UPDATE takes every row that is active now, the
\* log takes the rows that were active at the SELECT.
UnbanAllCommit(h) ==
  /\ call[h].op = "unban_all" /\ Room(call[h].rows)
  /\ table' = Deactivate(table, Active(table))
  /\ audit' = Log(audit, call[h].rows, "unbanned_all")
  /\ call' = [call EXCEPT ![h] = NoCall]

\* An error (SQLITE_BUSY after the busy timeout, a full disk) or the death of
\* the process rolls the transaction back: `?` returns before the commit.
Abandon(h) ==
  /\ ~Idle(h)
  /\ call' = [call EXCEPT ![h] = NoCall]
  /\ UNCHANGED ledgerVars

StoreStep(h) ==
  \/ \E c \in Cidr, expires \in Expiry : RecordBan(h, c, expires)
  \/ \E target \in Target : UnbanSelect(h, target)
  \/ UnbanCommit(h)
  \/ UnbanAllSelect(h)
  \/ UnbanAllCommit(h)
  \/ Abandon(h)

StoreNext == \E h \in Handle : StoreStep(h)

StoreSpec == StoreInit /\ [][StoreNext]_storeVars

-----------------------------------------------------------------------------
\* With one handle the store implements the ledger: every call that commits is
\* one ledger transaction although it is two transactions of SQLite, and every
\* other step leaves table and log alone.
ImplementsLedger == LedgerSpec

\* With any number of handles it keeps the weaker promise.
SharesLedger == SharedSpec
=============================================================================
