------------------------ MODULE QuarantineStoreProofs ------------------------
(***************************************************************************)
(* One handle of the store implements the ledger, for every set of CIDRs   *)
(* and targets: the mutex of the handle makes one transaction of a SELECT  *)
(* and the UPDATE that follows it.  Several handles do not: they implement *)
(* the shared ledger, which promises half of the audit.                    *)
(***************************************************************************)
EXTENDS QuarantineStore, QuarantineLedgerProofs, TLAPS

\* The store is opened by one process.
OneHandle == \A g, h \in Handle : g = h

\* What a call remembers of its SELECT is still so when it commits.
SelectionHolds ==
  \A h \in Handle :
    /\ call[h].op = "none" => call[h].rows = {}
    /\ call[h].op = "unban" => call[h].rows \subseteq Active(table)
    /\ call[h].op = "unban_all" => call[h].rows = Active(table)

StoreInv == StoreTypeOK /\ SelectionHolds

-----------------------------------------------------------------------------
\* A call of an only handle keeps the types and the meaning of its selection.
LEMMA StoreInvStep ==
  ASSUME OneHandle, StoreInv, [StoreNext]_storeVars
  PROVE  StoreInv'
<1> USE ExpiryAssumption DEF StoreInv, StoreTypeOK, LedgerTypeOK, ledgerVars
<1>0. NoCall \in Call
  BY DEF NoCall, Call
<1>1. ASSUME NEW h \in Handle, NEW c \in Cidr, NEW e \in Expiry, RecordBan(h, c, e)
      PROVE  StoreInv'
  <2>1. table' \in [Cidr -> Row] /\ audit' \in [Cidr -> Seq(AuditEvent)]
    BY <1>1, UpsertType, LogType DEF RecordBan, AuditEvent
  <2>2. \A g \in Handle : call[g].op = "none"
    BY <1>1 DEF RecordBan, Idle, OneHandle
  <2>3. SelectionHolds'
    BY <1>1, <2>2 DEF RecordBan, SelectionHolds
  <2> QED BY <1>1, <2>1, <2>3 DEF RecordBan
<1>2. ASSUME NEW h \in Handle, NEW target \in Target, UnbanSelect(h, target)
      PROVE  StoreInv'
  <2> DEFINE R == SelectUnban(table, target)
  <2>1. R \subseteq Active(table) /\ R \subseteq Cidr
    BY DEF SelectUnban, Active
  <2> HIDE DEF R
  <2>2. call' = [call EXCEPT ![h] = [op |-> "unban", rows |-> R]]
    BY <1>2 DEF UnbanSelect, R
  <2>3. UNCHANGED ledgerVars
    BY <1>2 DEF UnbanSelect
  <2> QED BY <2>1, <2>2, <2>3 DEF Call, SelectionHolds, Active
<1>3. ASSUME NEW h \in Handle, UnbanCommit(h)
      PROVE  StoreInv'
  <2>1. table' \in [Cidr -> Row] /\ audit' \in [Cidr -> Seq(AuditEvent)]
    BY <1>3, DeactivateType, LogType DEF UnbanCommit, AuditEvent
  <2>2. call' = [call EXCEPT ![h] = NoCall]
    BY <1>3 DEF UnbanCommit
  <2>3. \A g \in Handle : call'[g] = NoCall
    BY <2>2 DEF OneHandle
  <2> QED BY <1>0, <2>1, <2>2, <2>3 DEF SelectionHolds, NoCall
<1>4. ASSUME NEW h \in Handle, UnbanAllSelect(h)
      PROVE  StoreInv'
  <2>1. Active(table) \subseteq Cidr /\ Active(table)' = Active(table)
    BY <1>4 DEF Active, UnbanAllSelect
  <2>2. call' = [call EXCEPT ![h] = [op |-> "unban_all", rows |-> Active(table)]]
    BY <1>4 DEF UnbanAllSelect
  <2>3. UNCHANGED ledgerVars
    BY <1>4 DEF UnbanAllSelect
  <2> QED BY <2>1, <2>2, <2>3 DEF Call, SelectionHolds
<1>5. ASSUME NEW h \in Handle, UnbanAllCommit(h)
      PROVE  StoreInv'
  <2>1. table' \in [Cidr -> Row] /\ audit' \in [Cidr -> Seq(AuditEvent)]
    BY <1>5, DeactivateType, LogType DEF UnbanAllCommit, AuditEvent
  <2>2. call' = [call EXCEPT ![h] = NoCall]
    BY <1>5 DEF UnbanAllCommit
  <2>3. \A g \in Handle : call'[g] = NoCall
    BY <2>2 DEF OneHandle
  <2> QED BY <1>0, <2>1, <2>2, <2>3 DEF SelectionHolds, NoCall
<1>6. ASSUME NEW h \in Handle, Abandon(h)
      PROVE  StoreInv'
  <2>1. call' = [call EXCEPT ![h] = NoCall]
    BY <1>6 DEF Abandon
  <2>2. \A g \in Handle : call'[g] = NoCall
    BY <2>1 DEF OneHandle
  <2> QED BY <1>0, <1>6, <2>1, <2>2 DEF Abandon, SelectionHolds, NoCall
<1>7. CASE UNCHANGED storeVars
  BY <1>7 DEF storeVars, SelectionHolds, Active
<1> QED BY <1>1, <1>2, <1>3, <1>4, <1>5, <1>6, <1>7 DEF StoreNext, StoreStep

\* Every step of an only handle is a step of the ledger, or leaves it alone.
LEMMA StoreStepIsLedgerStep ==
  ASSUME OneHandle, StoreInv, [StoreNext]_storeVars
  PROVE  [LedgerNext]_ledgerVars
<1> USE DEF ledgerVars, LedgerNext
<1>1. ASSUME NEW h \in Handle, NEW c \in Cidr, NEW e \in Expiry, RecordBan(h, c, e)
      PROVE  LedgerNext
  BY <1>1 DEF RecordBan, Record
<1>2. ASSUME NEW h \in Handle, UnbanCommit(h)
      PROVE  LedgerNext
  <2>1. call[h].rows \in SUBSET Cidr /\ call[h].rows \subseteq Active(table)
    BY <1>2 DEF UnbanCommit, StoreInv, SelectionHolds, Active
  <2>2. Lift(call[h].rows, "unbanned")
    BY <1>2, <2>1 DEF UnbanCommit, Lift
  <2> QED BY <2>1, <2>2
<1>3. ASSUME NEW h \in Handle, UnbanAllCommit(h)
      PROVE  LedgerNext
  <2>1. call[h].rows = Active(table) /\ Active(table) \in SUBSET Cidr
    BY <1>3 DEF UnbanAllCommit, StoreInv, SelectionHolds, Active
  <2>2. Lift(Active(table), "unbanned_all")
    BY <1>3, <2>1 DEF UnbanAllCommit, Lift
  <2> QED BY <2>1, <2>2
<1>4. ASSUME NEW h \in Handle,
             \/ \E target \in Target : UnbanSelect(h, target)
             \/ UnbanAllSelect(h)
             \/ Abandon(h)
      PROVE  UNCHANGED ledgerVars
  BY <1>4 DEF UnbanSelect, UnbanAllSelect, Abandon
<1>5. CASE UNCHANGED storeVars
  BY <1>5 DEF storeVars
<1> QED BY <1>1, <1>2, <1>3, <1>4, <1>5 DEF StoreNext, StoreStep

\* The invariant of an only handle.
THEOREM StoreInvariant == ASSUME OneHandle PROVE StoreSpec => []StoreInv
<1>1. StoreInit => StoreInv
  BY DEF StoreInit, LedgerInit, StoreInv, StoreTypeOK, LedgerTypeOK, SelectionHolds, EmptyTable, EmptyAudit,
         NoRow, Row, NoCall, Call
<1>2. StoreInv /\ [StoreNext]_storeVars => StoreInv'
  BY StoreInvStep
<1> QED BY <1>1, <1>2, PTL DEF StoreSpec

\* A store opened by one process implements the ledger: although unban and
\* unban_all read in one SQLite transaction and write in another, every call is
\* one atomic change of table and log.
THEOREM OneHandleImplementsLedger == ASSUME OneHandle PROVE StoreSpec => ImplementsLedger
<1>1. StoreInit => LedgerInit
  BY DEF StoreInit
<1>2. StoreInv /\ [StoreNext]_storeVars => [LedgerNext]_ledgerVars
  BY StoreStepIsLedgerStep
<1> QED BY <1>1, <1>2, StoreInvariant, PTL DEF StoreSpec, LedgerSpec, ImplementsLedger

\* So the audit log of such a store explains its table, and the persisted counts
\* are those of the log.
THEOREM OneHandleAudit ==
  ASSUME OneHandle PROVE StoreSpec => [](AuditExplains /\ CountMatchesAudit)
BY OneHandleImplementsLedger, AuditExplainsTable, CountIsQuarantinings, PTL
  DEF ImplementsLedger

\* Types need no single handle: whatever another process commits in between, a call
\* commits rows of the right kind.
THEOREM StoreTypeCorrect == StoreSpec => []StoreTypeOK
<1>1. StoreInit => StoreTypeOK
  BY DEF StoreInit, LedgerInit, StoreTypeOK, LedgerTypeOK, EmptyTable, EmptyAudit, NoRow, Row,
         NoCall, Call
<1>2. StoreTypeOK /\ [StoreNext]_storeVars => StoreTypeOK'
  <2> SUFFICES ASSUME StoreTypeOK, [StoreNext]_storeVars PROVE StoreTypeOK'
    OBVIOUS
  <2> USE ExpiryAssumption DEF StoreTypeOK, LedgerTypeOK, ledgerVars
  <2>1. Active(table) \subseteq Cidr /\ \A target \in Target : SelectUnban(table, target) \subseteq Cidr
    BY DEF Active, SelectUnban
  <2>2. ASSUME NEW t, NEW S, NEW ev \in AuditEvent,
               table' = Deactivate(table, t), audit' = Log(audit, S, ev)
        PROVE  table' \in [Cidr -> Row] /\ audit' \in [Cidr -> Seq(AuditEvent)]
    BY <2>2, DeactivateType, LogType
  <2>3. ASSUME NEW h \in Handle, NEW c \in Call, call' = [call EXCEPT ![h] = c]
        PROVE  call' \in [Handle -> Call]
    BY <2>3
  <2>4. NoCall \in Call
    BY DEF NoCall, Call
  <2>5. ASSUME NEW h \in Handle, NEW c \in Cidr, NEW expires \in Expiry, RecordBan(h, c, expires)
        PROVE  StoreTypeOK'
    BY <2>5, UpsertType, LogType DEF RecordBan, AuditEvent
  <2>6. ASSUME NEW h \in Handle, UnbanCommit(h) \/ UnbanAllCommit(h)
        PROVE  StoreTypeOK'
    <3>1. table' \in [Cidr -> Row] /\ audit' \in [Cidr -> Seq(AuditEvent)]
      BY <2>2, <2>6 DEF UnbanCommit, UnbanAllCommit, AuditEvent
    <3> QED BY <2>3, <2>4, <2>6, <3>1 DEF UnbanCommit, UnbanAllCommit
  <2>7. ASSUME NEW h \in Handle, NEW target \in Target, UnbanSelect(h, target)
        PROVE  StoreTypeOK'
    <3>1. [op |-> "unban", rows |-> SelectUnban(table, target)] \in Call
      BY <2>1 DEF Call
    <3> QED BY <2>3, <2>7, <3>1 DEF UnbanSelect
  <2>8. ASSUME NEW h \in Handle, UnbanAllSelect(h)
        PROVE  StoreTypeOK'
    <3>1. [op |-> "unban_all", rows |-> Active(table)] \in Call
      BY <2>1 DEF Call
    <3> QED BY <2>3, <2>8, <3>1 DEF UnbanAllSelect
  <2>9. ASSUME NEW h \in Handle, Abandon(h)
        PROVE  StoreTypeOK'
    BY <2>3, <2>4, <2>9 DEF Abandon
  <2>10. CASE UNCHANGED storeVars
    BY <2>10 DEF storeVars
  <2> QED BY <2>5, <2>6, <2>7, <2>8, <2>9, <2>10 DEF StoreNext, StoreStep
<1> QED BY <1>1, <1>2, PTL DEF StoreSpec

\* A call that commits what it SELECTed earlier logs no row that it leaves active:
\* unban lifts just the rows it logs, unban_all lifts all.
LEMMA StoreStepIsShared ==
  ASSUME StoreTypeOK, [StoreNext]_storeVars
  PROVE  [SharedNext]_ledgerVars
<1> USE DEF ledgerVars, SharedNext
<1>1. ASSUME NEW h \in Handle, NEW c \in Cidr, NEW e \in Expiry, RecordBan(h, c, e)
      PROVE  SharedNext
  BY <1>1 DEF RecordBan, Record
<1>2. ASSUME NEW h \in Handle, UnbanCommit(h)
      PROVE  SharedNext
  <2>1. call[h].rows \in SUBSET Cidr
    BY <1>2 DEF StoreTypeOK, Call
  <2>2. LiftLate(call[h].rows, call[h].rows, "unbanned")
    BY <1>2 DEF UnbanCommit, LiftLate
  <2> QED BY <2>1, <2>2
<1>3. ASSUME NEW h \in Handle, UnbanAllCommit(h)
      PROVE  SharedNext
  <2>1. call[h].rows \in SUBSET Cidr /\ Active(table) \in SUBSET Cidr
    BY <1>3 DEF StoreTypeOK, Call, Active
  <2>2. LiftLate(Active(table), call[h].rows, "unbanned_all")
    BY <1>3 DEF UnbanAllCommit, LiftLate
  <2> QED BY <2>1, <2>2
<1>4. ASSUME NEW h \in Handle,
             \/ \E target \in Target : UnbanSelect(h, target)
             \/ UnbanAllSelect(h)
             \/ Abandon(h)
      PROVE  UNCHANGED ledgerVars
  BY <1>4 DEF UnbanSelect, UnbanAllSelect, Abandon
<1>5. CASE UNCHANGED storeVars
  BY <1>5 DEF storeVars
<1> QED BY <1>1, <1>2, <1>3, <1>4, <1>5 DEF StoreNext, StoreStep

\* However the calls of several processes on one file fall between each other's
\* SELECT and COMMIT, the file keeps the promise of the shared ledger.
THEOREM StoreSharesLedger == StoreSpec => SharesLedger
<1>1. StoreInit => LedgerInit
  BY DEF StoreInit
<1>2. StoreTypeOK /\ [StoreNext]_storeVars => [SharedNext]_ledgerVars
  BY StoreStepIsShared
<1> QED BY <1>1, <1>2, StoreTypeCorrect, PTL DEF StoreSpec, SharedSpec, SharesLedger

\* Half of the audit, and the counts, are therefore right for any number of processes;
\* the other half, that what is logged last as quarantined is active, is not.
THEOREM StoreSharedAudit == StoreSpec => [](ActiveAreLogged /\ CountMatchesAudit)
BY StoreSharesLedger, SharedAudit, SharedCounts, PTL DEF SharesLedger
=============================================================================
