-------------------------- MODULE QuarantineTable --------------------------
(***************************************************************************)
(* The persistent quarantine table (quarantine/store.rs) as pure           *)
(* operators: what a row holds, what the UPSERT of record_ban does, which  *)
(* rows an unban SELECTs, what the two UPDATEs and the audit INSERTs do.   *)
(*                                                                         *)
(* A row keeps active, expires_at and infraction_count; the columns that   *)
(* no statement ever tests (trigger_ip, infraction_type, user_agent,       *)
(* ip_version, quarantined_at) are abstracted away.  The audit log is kept *)
(* per CIDR: the order of two events of different CIDRs is never used.     *)
(***************************************************************************)
EXTENDS Naturals, Sequences

CONSTANTS
  Cidr,    \* primary keys: networks as IpNet prints them, host bits kept
  Addr,    \* client addresses
  NetsOf,  \* the keys whose network contains an address
  HomeNet, \* phylax's derive_quarantine_cidr: the /24 or /48 of an address
  HostNet  \* the /32 or /128 of an address ("exact" bans)

ASSUME TableAssumption ==
  /\ NetsOf \in [Addr -> SUBSET Cidr]
  /\ HomeNet \in [Addr -> Cidr]
  /\ HostNet \in [Addr -> Cidr]
  /\ \A a \in Addr : {HomeNet[a], HostNet[a]} \subseteq NetsOf[a]
  /\ Addr \cap Cidr = {}

\* What an operator may name: a CIDR (it holds a '/') or a bare address.
Target == Cidr \cup Addr

AuditEvent == {"quarantined", "unbanned", "unbanned_all"}

\* infraction_count is at least 1 in every row the code inserts, so a count
\* of 0 stands for a key that is not in the table.
Row == [active : BOOLEAN, expires : Nat, count : Nat]

NoRow == [active |-> FALSE, expires |-> 0, count |-> 0]

EmptyTable == [c \in Cidr |-> NoRow]

EmptyAudit == [c \in Cidr |-> << >>]

-----------------------------------------------------------------------------
(* Reading. *)

Active(t) == {c \in Cidr : t[c].active}

\* Mutant: the SELECT forgets active = 1.
ActiveBansOfAnyRow(t, now) == {c \in Cidr : t[c].expires > now}

\* get_active_bans(now): active = 1 AND expires_at > now.
ActiveBans(t, now) == {c \in Active(t) : t[c].expires > now}

\* unban's target: a stored key by equality, else every network that
\* contains the address.  A CIDR is never parsed as an address.
Matches(target) == IF target \in Cidr THEN {target} ELSE NetsOf[target]

\* Mutant: the SELECTs of unban forget active = 1.
SelectUnbanOfAnyRow(t, target) == Matches(target)

\* The SELECTs of unban.
SelectUnban(t, target) == Matches(target) \cap Active(t)

\* The network a ban of `target` names (exec_ban, resolve_target_cidr).
Resolve(target, exact) ==
  IF target \in Cidr THEN target
  ELSE IF exact THEN HostNet[target] ELSE HomeNet[target]

-----------------------------------------------------------------------------
(* Writing. *)

\* INSERT ... ON CONFLICT(cidr) DO UPDATE: the count accumulates, the expiry
\* is overwritten whatever it was, the row becomes active.
Upsert(t, c, expires) ==
  [t EXCEPT ![c] = [active |-> TRUE, expires |-> expires, count |-> @.count + 1]]

\* UPDATE ... SET active = 0 for the rows of S.
Deactivate(t, S) ==
  [c \in Cidr |-> IF c \in S THEN [t[c] EXCEPT !.active = FALSE] ELSE t[c]]

\* One audit INSERT per CIDR of S.
Log(log, S, event) ==
  [c \in Cidr |-> IF c \in S THEN Append(log[c], event) ELSE log[c]]
=============================================================================
