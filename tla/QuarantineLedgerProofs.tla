----------------------- MODULE QuarantineLedgerProofs -----------------------
(* Theorems about the ledger of QuarantineLedger, for every set of CIDRs. *)
EXTENDS QuarantineLedger, FiniteSetTheorems, SequenceTheorems, TLAPS

-----------------------------------------------------------------------------
(* The writing operators of QuarantineTable. *)

\* The UPSERT of record_ban keeps the table well-typed.
LEMMA UpsertType ==
  ASSUME NEW t \in [Cidr -> Row], NEW c \in Cidr, NEW e \in Nat
  PROVE  Upsert(t, c, e) \in [Cidr -> Row]
BY DEF Upsert, Row

\* So do the UPDATEs of unban and unban_all.
LEMMA DeactivateType ==
  ASSUME NEW t \in [Cidr -> Row], NEW S
  PROVE  Deactivate(t, S) \in [Cidr -> Row]
BY DEF Deactivate, Row

\* And the audit INSERTs keep the log well-typed.
LEMMA LogType ==
  ASSUME NEW a \in [Cidr -> Seq(AuditEvent)], NEW S, NEW ev \in AuditEvent
  PROVE  Log(a, S, ev) \in [Cidr -> Seq(AuditEvent)]
BY DEF Log

\* An UPSERT sets its own row and no other.
LEMMA UpsertEffect ==
  ASSUME NEW t \in [Cidr -> Row], NEW c \in Cidr, NEW e, NEW d \in Cidr
  PROVE  /\ d # c => Upsert(t, c, e)[d] = t[d]
         /\ Upsert(t, c, e)[c].active
         /\ Upsert(t, c, e)[c].expires = e
         /\ Upsert(t, c, e)[c].count = t[c].count + 1
BY DEF Upsert

\* An UPDATE clears active in its rows and touches nothing else.
LEMMA DeactivateEffect ==
  ASSUME NEW t \in [Cidr -> Row], NEW S, NEW d \in Cidr
  PROVE  /\ d \in S => ~Deactivate(t, S)[d].active
         /\ d \notin S => Deactivate(t, S)[d] = t[d]
         /\ Deactivate(t, S)[d].count = t[d].count
         /\ Deactivate(t, S)[d].expires = t[d].expires
BY DEF Deactivate, Row

\* The audit INSERTs extend the logs of their CIDRs by one event.
LEMMA LogEffect ==
  ASSUME NEW a \in [Cidr -> Seq(AuditEvent)], NEW S, NEW ev, NEW d \in Cidr
  PROVE  Log(a, S, ev)[d] = IF d \in S THEN Append(a[d], ev) ELSE a[d]
BY DEF Log

\* The last event of a log that was just extended.
LEMMA LastOfAppend ==
  ASSUME NEW log \in Seq(AuditEvent), NEW ev \in AuditEvent
  PROVE  /\ Append(log, ev) # << >>
         /\ Append(log, ev)[Len(Append(log, ev))] = ev
BY AppendProperties, LenProperties

-----------------------------------------------------------------------------
(* Type correctness. *)

\* What one process does in one step, several do: their promise is the weaker one.
LEMMA LedgerStepIsShared == [LedgerNext]_ledgerVars => [SharedNext]_ledgerVars
<1>1. ASSUME NEW S \in SUBSET Cidr, NEW ev, Lift(S, ev) PROVE LiftLate(S, S, ev)
  BY <1>1 DEF Lift, LiftLate
<1> QED BY <1>1 DEF LedgerNext, SharedNext

LEMMA SharedTypeStep ==
  ASSUME LedgerTypeOK, [SharedNext]_ledgerVars
  PROVE  LedgerTypeOK'
<1> USE DEF LedgerTypeOK
<1>1. ASSUME NEW c \in Cidr, NEW e \in Expiry, Record(c, e) PROVE LedgerTypeOK'
  <2>1. table' \in [Cidr -> Row]
    BY <1>1, UpsertType, ExpiryAssumption DEF Record
  <2>2. audit' \in [Cidr -> Seq(AuditEvent)]
    BY <1>1, LogType DEF Record, AuditEvent
  <2> QED BY <2>1, <2>2
<1>2. ASSUME NEW S \in SUBSET Cidr, NEW R \in SUBSET Cidr,
             NEW ev \in {"unbanned", "unbanned_all"}, LiftLate(S, R, ev)
      PROVE  LedgerTypeOK'
  BY <1>2, DeactivateType, LogType DEF LiftLate, AuditEvent
<1>3. CASE UNCHANGED ledgerVars
  BY <1>3 DEF ledgerVars
<1> QED BY <1>1, <1>2, <1>3 DEF SharedNext

LEMMA LedgerTypeInit == LedgerInit => LedgerTypeOK
BY DEF LedgerInit, LedgerTypeOK, EmptyTable, EmptyAudit, NoRow, Row

LEMMA SharedTypeCorrect == SharedSpec => []LedgerTypeOK
BY LedgerTypeInit, SharedTypeStep, PTL DEF SharedSpec

\* The table and the log keep their types: no statement writes anything else.
THEOREM LedgerTypeCorrect == LedgerSpec => []LedgerTypeOK
<1>1. LedgerTypeOK /\ [LedgerNext]_ledgerVars => LedgerTypeOK'
  BY LedgerStepIsShared, SharedTypeStep
<1> QED BY <1>1, LedgerTypeInit, PTL DEF LedgerSpec

-----------------------------------------------------------------------------
(* The audit log explains the table. *)

\* A row is active exactly when the last event of its CIDR is "quarantined":
\* record_ban, unban and unban_all each write both or neither.
THEOREM AuditExplainsTable == LedgerSpec => []AuditExplains
<1> DEFINE Explains(log) == log # << >> /\ log[Len(log)] = "quarantined"
<1>1. LedgerInit => AuditExplains
  <2> SUFFICES ASSUME LedgerInit, NEW c \in Cidr
               PROVE  table[c].active <=> Explains(audit[c])
    BY DEF AuditExplains
  <2>1. table[c] = NoRow /\ audit[c] = << >>
    BY DEF LedgerInit, EmptyTable, EmptyAudit
  <2> QED BY <2>1 DEF NoRow
<1>2. LedgerTypeOK /\ AuditExplains /\ [LedgerNext]_ledgerVars => AuditExplains'
  <2> SUFFICES ASSUME LedgerTypeOK, AuditExplains, [LedgerNext]_ledgerVars,
                      NEW d \in Cidr
               PROVE  table'[d].active <=> Explains(audit'[d])
    BY DEF AuditExplains
  <2>0. /\ table \in [Cidr -> Row] /\ audit \in [Cidr -> Seq(AuditEvent)]
        /\ audit[d] \in Seq(AuditEvent)
    BY DEF LedgerTypeOK
  <2>a. table[d].active <=> Explains(audit[d])
    BY DEF AuditExplains
  <2>b. ASSUME table'[d] = table[d], audit'[d] = audit[d]
        PROVE  table'[d].active <=> Explains(audit'[d])
    BY <2>a, <2>b
  <2> HIDE DEF Explains
  <2>1. ASSUME NEW c \in Cidr, NEW e \in Expiry, Record(c, e)
        PROVE  table'[d].active <=> Explains(audit'[d])
    <3>1. table' = Upsert(table, c, e) /\ audit' = Log(audit, {c}, "quarantined")
      BY <2>1 DEF Record
    <3>2. CASE d = c
      <4>1. table'[d].active
        BY <2>0, <3>1, <3>2, UpsertEffect
      <4>2. audit'[d] = Append(audit[d], "quarantined")
        BY <2>0, <3>1, <3>2, LogEffect
      <4>3. Explains(audit'[d])
        BY <4>2, <2>0, LastOfAppend DEF AuditEvent, Explains
      <4> QED BY <4>1, <4>3
    <3>3. CASE d # c
      <4>1. table'[d] = table[d]
        BY <2>0, <3>1, <3>3, UpsertEffect
      <4>2. audit'[d] = audit[d]
        BY <2>0, <3>1, <3>3, LogEffect
      <4> QED BY <4>1, <4>2, <2>b
    <3> QED BY <3>2, <3>3
  <2>2. ASSUME NEW S \in SUBSET Cidr, NEW ev \in {"unbanned", "unbanned_all"},
               Lift(S, ev)
        PROVE  table'[d].active <=> Explains(audit'[d])
    <3>1. table' = Deactivate(table, S) /\ audit' = Log(audit, S, ev)
      BY <2>2 DEF Lift
    <3>2. CASE d \in S
      <4>1. ~table'[d].active
        BY <2>0, <3>1, <3>2, DeactivateEffect
      <4>2. audit'[d] = Append(audit[d], ev)
        <5>1. Log(audit, S, ev)[d] = IF d \in S THEN Append(audit[d], ev) ELSE audit[d]
          BY <2>0, LogEffect
        <5> QED BY <5>1, <3>1, <3>2
      <4>3. ~Explains(audit'[d])
        BY <4>2, <2>0, LastOfAppend DEF AuditEvent, Explains
      <4> QED BY <4>1, <4>3
    <3>3. CASE d \notin S
      <4>1. table'[d] = table[d]
        BY <2>0, <3>1, <3>3, DeactivateEffect
      <4>2. audit'[d] = audit[d]
        BY <2>0, <3>1, <3>3, LogEffect
      <4> QED BY <4>1, <4>2, <2>b
    <3> QED BY <3>2, <3>3
  <2>3. CASE UNCHANGED ledgerVars
    BY <2>3, <2>b DEF ledgerVars
  <2> QED BY <2>1, <2>2, <2>3 DEF LedgerNext
<1> QED BY <1>1, <1>2, LedgerTypeCorrect, PTL DEF LedgerSpec

-----------------------------------------------------------------------------
(* The persisted infraction count. *)

\* Appending an event adds one position to the quarantinings, or none.
LEMMA QuarantiningsOfAppend ==
  ASSUME NEW log \in Seq(AuditEvent), NEW ev \in AuditEvent
  PROVE  /\ IsFiniteSet(Quarantinings(log))
         /\ Quarantinings(Append(log, ev)) =
              IF ev = "quarantined" THEN Quarantinings(log) \cup {Len(log) + 1}
                                    ELSE Quarantinings(log)
         /\ Len(log) + 1 \notin Quarantinings(log)
<1>1. IsFiniteSet(1 .. Len(log))
  BY FS_Interval, LenProperties
<1>2. Quarantinings(log) \subseteq 1 .. Len(log)
  BY LenProperties DEF Quarantinings
<1>3. IsFiniteSet(Quarantinings(log))
  BY <1>1, <1>2, FS_Subset
<1>4. DOMAIN Append(log, ev) = 1 .. Len(log) + 1
  BY AppendProperties, LenProperties
<1>5. \A i \in 1 .. Len(log) : Append(log, ev)[i] = log[i]
  BY AppendProperties
<1>6. Append(log, ev)[Len(log) + 1] = ev
  BY AppendProperties
<1>7. Len(log) \in Nat /\ DOMAIN log = 1 .. Len(log)
  BY LenProperties
<1>8. 1 .. Len(log) + 1 = (1 .. Len(log)) \cup {Len(log) + 1}
  BY <1>7
<1>9. Quarantinings(Append(log, ev)) =
        Quarantinings(log) \cup {i \in {Len(log) + 1} : ev = "quarantined"}
  BY <1>4, <1>5, <1>6, <1>7, <1>8 DEF Quarantinings
<1>10. Len(log) + 1 \notin Quarantinings(log)
  BY <1>2, <1>7
<1> QED BY <1>3, <1>9, <1>10

\* infraction_count counts the "quarantined" events of its CIDR, whoever shares the
\* file: an UPSERT that commits adds one to both, an unban to neither.
THEOREM SharedCounts == SharedSpec => []CountMatchesAudit
<1>1. LedgerInit => CountMatchesAudit
  <2> SUFFICES ASSUME LedgerInit, NEW c \in Cidr
               PROVE  table[c].count = Cardinality(Quarantinings(audit[c]))
    BY DEF CountMatchesAudit
  <2>1. table[c].count = 0 /\ audit[c] = << >>
    BY DEF LedgerInit, EmptyTable, EmptyAudit, NoRow
  <2>2. Quarantinings(<< >>) = {}
    BY DEF Quarantinings
  <2> QED BY <2>1, <2>2, FS_EmptySet
<1>2. LedgerTypeOK /\ CountMatchesAudit /\ [SharedNext]_ledgerVars => CountMatchesAudit'
  <2> SUFFICES ASSUME LedgerTypeOK, CountMatchesAudit, [SharedNext]_ledgerVars,
                      NEW d \in Cidr
               PROVE  table'[d].count = Cardinality(Quarantinings(audit'[d]))
    BY DEF CountMatchesAudit
  <2>0. /\ table \in [Cidr -> Row] /\ audit \in [Cidr -> Seq(AuditEvent)]
        /\ audit[d] \in Seq(AuditEvent)
        /\ table[d].count = Cardinality(Quarantinings(audit[d]))
    BY DEF LedgerTypeOK, CountMatchesAudit
  <2>1. ASSUME NEW c \in Cidr, NEW e \in Expiry, Record(c, e)
        PROVE  table'[d].count = Cardinality(Quarantinings(audit'[d]))
    <3>1. /\ "quarantined" \in AuditEvent /\ e \in Nat
          /\ table' = Upsert(table, c, e) /\ audit' = Log(audit, {c}, "quarantined")
      BY <2>1, ExpiryAssumption DEF Record, AuditEvent
    <3>2. CASE d = c
      <4>1. table'[d].count = table[d].count + 1
        BY <2>0, <3>1, <3>2, UpsertEffect
      <4>2. audit'[d] = Append(audit[d], "quarantined")
        BY <2>0, <3>1, <3>2, LogEffect
      <4>3. Cardinality(Quarantinings(audit'[d])) = Cardinality(Quarantinings(audit[d])) + 1
        <5>1. /\ IsFiniteSet(Quarantinings(audit[d]))
              /\ Len(audit[d]) + 1 \notin Quarantinings(audit[d])
              /\ Quarantinings(audit'[d]) =
                   Quarantinings(audit[d]) \cup {Len(audit[d]) + 1}
          BY <4>2, <3>1, <2>0, QuarantiningsOfAppend
        <5> QED BY <5>1, FS_AddElement
      <4> QED BY <4>1, <4>3, <2>0
    <3>3. CASE d # c
      <4>1. table'[d] = table[d]
        BY <2>0, <3>1, <3>3, UpsertEffect
      <4>2. audit'[d] = audit[d]
        BY <2>0, <3>1, <3>3, LogEffect
      <4> QED BY <4>1, <4>2, <2>0
    <3> QED BY <3>2, <3>3
  <2>2. ASSUME NEW S \in SUBSET Cidr, NEW R \in SUBSET Cidr,
               NEW ev \in {"unbanned", "unbanned_all"}, LiftLate(S, R, ev)
        PROVE  table'[d].count = Cardinality(Quarantinings(audit'[d]))
    <3>1. /\ ev \in AuditEvent /\ ev # "quarantined"
          /\ table' = Deactivate(table, S) /\ audit' = Log(audit, R, ev)
      BY <2>2 DEF LiftLate, AuditEvent
    <3>2. table'[d].count = table[d].count
      BY <2>0, <3>1, DeactivateEffect
    <3>3. Quarantinings(audit'[d]) = Quarantinings(audit[d])
      <4>1. audit'[d] = audit[d] \/ audit'[d] = Append(audit[d], ev)
        <5>1. CASE d \in R      BY <5>1, <2>0, <3>1, LogEffect
        <5>2. CASE d \notin R   BY <5>2, <2>0, <3>1, LogEffect
        <5> QED BY <5>1, <5>2
      <4> QED BY <4>1, <2>0, <3>1, QuarantiningsOfAppend
    <3> QED BY <3>2, <3>3, <2>0
  <2>3. CASE UNCHANGED ledgerVars
    BY <2>3, <2>0 DEF ledgerVars
  <2> QED BY <2>1, <2>2, <2>3 DEF SharedNext
<1> QED BY <1>1, <1>2, SharedTypeCorrect, PTL DEF SharedSpec

\* So it does in the ledger.
THEOREM CountIsQuarantinings == LedgerSpec => []CountMatchesAudit
<1>1. LedgerSpec => SharedSpec
  BY LedgerStepIsShared, PTL DEF LedgerSpec, SharedSpec
<1> QED BY <1>1, SharedCounts, PTL

-----------------------------------------------------------------------------
(* Half of the audit. *)

\* Whoever shares the file, a row is active only if the last event of its CIDR is
\* "quarantined": a late commit logs no row that it leaves active.
THEOREM SharedAudit == SharedSpec => []ActiveAreLogged
<1> DEFINE Explains(log) == log # << >> /\ log[Len(log)] = "quarantined"
<1>1. LedgerInit => ActiveAreLogged
  <2> SUFFICES ASSUME LedgerInit PROVE Active(table) = {}
    BY DEF ActiveAreLogged
  <2>1. \A c \in Cidr : ~table[c].active
    BY DEF LedgerInit, EmptyTable, NoRow
  <2> QED BY <2>1 DEF Active
<1>2. LedgerTypeOK /\ ActiveAreLogged /\ [SharedNext]_ledgerVars => ActiveAreLogged'
  <2> SUFFICES ASSUME LedgerTypeOK, ActiveAreLogged, [SharedNext]_ledgerVars,
                      NEW d \in Cidr, table'[d].active
               PROVE  Explains(audit'[d])
    BY DEF ActiveAreLogged, Active
  <2>0. /\ table \in [Cidr -> Row] /\ audit \in [Cidr -> Seq(AuditEvent)]
        /\ audit[d] \in Seq(AuditEvent)
        /\ table[d].active => Explains(audit[d])
    BY DEF LedgerTypeOK, ActiveAreLogged, Active
  <2> HIDE DEF Explains
  <2>1. ASSUME NEW c \in Cidr, NEW e \in Expiry, Record(c, e)
        PROVE  Explains(audit'[d])
    <3>1. table' = Upsert(table, c, e) /\ audit' = Log(audit, {c}, "quarantined")
      BY <2>1 DEF Record
    <3>2. CASE d = c
      <4>1. audit'[d] = Append(audit[d], "quarantined")
        BY <2>0, <3>1, <3>2, LogEffect
      <4> QED BY <4>1, <2>0, LastOfAppend DEF AuditEvent, Explains
    <3>3. CASE d # c
      <4>1. table'[d] = table[d] /\ audit'[d] = audit[d]
        BY <2>0, <3>1, <3>3, UpsertEffect, LogEffect
      <4> QED BY <4>1, <2>0
    <3> QED BY <3>2, <3>3
  <2>2. ASSUME NEW S \in SUBSET Cidr, NEW R \in SUBSET Cidr,
               NEW ev \in {"unbanned", "unbanned_all"}, LiftLate(S, R, ev)
        PROVE  Explains(audit'[d])
    <3>1. /\ table' = Deactivate(table, S) /\ audit' = Log(audit, R, ev)
          /\ R \cap Active(table) \subseteq S
      BY <2>2 DEF LiftLate
    <3>2. d \notin S
      BY <2>0, <3>1, DeactivateEffect
    <3>3. table[d].active
      BY <2>0, <3>1, <3>2, DeactivateEffect
    <3>4. d \notin R
      BY <3>1, <3>2, <3>3 DEF Active
    <3>5. audit'[d] = audit[d]
      BY <2>0, <3>1, <3>4, LogEffect
    <3> QED BY <3>3, <3>5, <2>0
  <2>3. CASE UNCHANGED ledgerVars
    BY <2>3, <2>0 DEF ledgerVars
  <2> QED BY <2>1, <2>2, <2>3 DEF SharedNext
<1> QED BY <1>1, <1>2, SharedTypeCorrect, PTL DEF SharedSpec
=============================================================================
