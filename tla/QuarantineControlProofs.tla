---------------------- MODULE QuarantineControlProofs ----------------------
(***************************************************************************)
(* Theorems about memory and store: of a daemon with one IPC handler, and  *)
(* of the command line beside it.  Between a handler's step in memory and  *)
(* its step in the store the two disagree, on the CIDRs that the handler   *)
(* still owes the store and on no others.                                  *)
(***************************************************************************)
EXTENDS QuarantineControl, QuarantineDaemonProofs

-----------------------------------------------------------------------------
(* The invariant. *)

OneHandler == \A j, k \in Conn : j = k

\* Memory and store say the same of c.
Mirrored(c) ==
  /\ c \in ActiveBans(table, now) => memory[c] >= table[c].expires
  /\ memory[c] > now => table[c].active

Halfway == {"banStore", "unbanStore", "clearStore"}

\* A handler has yet to do to the store what it did to c in memory.
Owed(c) ==
  \E k \in Conn :
    \/ conn[k].pc = "banStore" /\ c = Head(conn[k].todo)
    \/ conn[k].pc = "unbanStore" /\ c \in Matches(Head(conn[k].todo))
    \/ conn[k].pc = "clearStore"

\* What a handler did in memory is still so when it gets to the store.
HalfDone(k) ==
  /\ conn[k].pc = "banStore" => memory[Head(conn[k].todo)] >= conn[k].expires
  /\ conn[k].pc = "unbanStore" => \A c \in Matches(Head(conn[k].todo)) : memory[c] = 0
  /\ conn[k].pc = "clearStore" => \A c \in Cidr : memory[c] = 0

Mirror ==
  /\ \A c \in Cidr : Mirrored(c) \/ Owed(c)
  /\ \A k \in Conn : HalfDone(k)

-----------------------------------------------------------------------------
(* The daemon's steps. *)

LEMMA MirrorTypes ==
  ASSUME DaemonInv
  PROVE  /\ memory \in [Cidr -> Nat] /\ now \in Nat
         /\ table \in [Cidr -> Row]
         /\ conn \in [Conn -> ConnState]
BY DaemonAssumption DEF DaemonInv, TypeOK, LedgerTypeOK

\* Time passes, or something happens elsewhere.
LEMMA MirrorStays ==
  ASSUME DaemonInv, Mirror, UNCHANGED <<memory, table, conn>>, now' \in Nat, now' >= now
  PROVE  Mirror'
<1>1. ASSUME NEW c \in Cidr, Mirrored(c) PROVE Mirrored(c)'
  BY <1>1, MirrorTypes DEF Mirrored, ActiveBans, Active, Row
<1>2. \A c \in Cidr : Owed(c) => Owed(c)'
  BY DEF Owed
<1>3. \A k \in Conn : HalfDone(k)'
  BY DEF HalfDone, Mirror
<1> QED BY <1>1, <1>2, <1>3 DEF Mirror

\* No handler is halfway: then all is mirrored.
LEMMA NothingOwed ==
  ASSUME Mirror, \A k \in Conn : conn[k].pc \notin Halfway
  PROVE  \A c \in Cidr : Mirrored(c)
BY DEF Mirror, Owed, Halfway

LEMMA AllMirrored ==
  ASSUME \A k \in Conn : conn'[k].pc \notin Halfway, \A c \in Cidr : Mirrored(c)'
  PROVE  Mirror'
BY DEF Mirror, HalfDone, Halfway

\* The only handler begins or ends something.
LEMMA MirrorMoves ==
  ASSUME DaemonInv, OneHandler, Mirror, NEW k \in Conn, conn[k].pc \notin Halfway,
         NEW next, next.pc \notin Halfway, conn' = [conn EXCEPT ![k] = next],
         UNCHANGED <<memory, table, now>>
  PROVE  Mirror'
<1>1. \A j \in Conn : conn[j].pc \notin Halfway /\ conn'[j].pc \notin Halfway
  BY MirrorTypes DEF OneHandler
<1>2. \A c \in Cidr : Mirrored(c)'
  BY <1>1, NothingOwed DEF Mirrored
<1> QED BY <1>1, <1>2, AllMirrored

\* Rehydration makes memory of the store.
LEMMA MirrorBoots ==
  ASSUME DaemonInv, BootRehydrate, ~faulted'
  PROVE  Mirror'
<1>1. memory' = Rehydrated(TRUE)
  BY DaemonAssumption DEF BootRehydrate, Noted
<1>2. UNCHANGED <<table, now, conn>> /\ \A k \in Conn : conn[k].pc = "idle"
  BY DEF BootRehydrate, ledgerVars, DaemonInv, HandlersOK
<1>3. ASSUME NEW c \in Cidr PROVE Mirrored(c)'
  <2>1. memory'[c] = IF c \in ActiveBans(table, now) THEN table[c].expires ELSE 0
    BY <1>1 DEF Rehydrated
  <2>2. table[c].expires \in Nat /\ now \in Nat
    BY MirrorTypes DEF Row
  <2>3. ActiveBans(table, now)' = ActiveBans(table, now)
    BY <1>2 DEF ActiveBans, Active
  <2> QED BY <1>2, <2>1, <2>2, <2>3 DEF Mirrored, ActiveBans, Active
<1>4. \A k \in Conn : conn'[k].pc \notin Halfway
  BY <1>2 DEF Halfway
<1> QED BY <1>3, <1>4, AllMirrored

\* A command begins or its next target does: what a handler does in memory.
LEMMA MirrorBanned ==
  ASSUME DaemonInv, OneHandler, Mirror, NEW k \in Conn, BanMemory(k)
  PROVE  Mirror'
<1> DEFINE d == Head(conn[k].todo)
<1>1. /\ conn[k].pc = "banMemory"
      /\ memory' \in AddBan(memory, d, conn[k].expires)
      /\ conn' = [conn EXCEPT ![k].pc = "banStore"]
      /\ UNCHANGED <<table, now>>
  BY DEF BanMemory, ledgerVars
<1>2. d \in Cidr /\ conn[k].expires \in Nat
  BY <1>1, HandlerTarget, ExpiryAssumption DEF Banning
<1>3. /\ \A c \in Cidr : c # d => memory'[c] = memory[c]
      /\ memory'[d] >= conn[k].expires
  BY <1>1, <1>2, MirrorTypes DEF AddBan
<1>4. conn'[k].pc = "banStore" /\ conn'[k].todo = conn[k].todo
      /\ conn'[k].expires = conn[k].expires
  BY <1>1, MirrorTypes DEF ConnState
<1>5. ASSUME NEW c \in Cidr PROVE Mirrored(c)' \/ Owed(c)'
  <2>1. CASE c = d
    BY <1>4, <2>1 DEF Owed
  <2>2. CASE c # d
    <3>1. Mirrored(c)
      BY <1>1, NothingOwed DEF OneHandler, Halfway
    <3> QED BY <1>1, <1>3, <2>2, <3>1 DEF Mirrored, ActiveBans, Active
  <2> QED BY <2>1, <2>2
<1>6. ASSUME NEW j \in Conn PROVE HalfDone(j)'
  <2>1. j = k
    BY DEF OneHandler
  <2> QED BY <1>3, <1>4, <2>1 DEF HalfDone
<1> QED BY <1>5, <1>6 DEF Mirror

LEMMA MirrorForgotten ==
  ASSUME DaemonInv, OneHandler, Mirror, NEW k \in Conn, UnbanMemory(k) \/ ClearMemory(k)
  PROVE  Mirror'
<1> DEFINE S == IF conn[k].pc = "clearMemory" THEN Cidr ELSE Matches(Head(conn[k].todo))
           pc == IF conn[k].pc = "clearMemory" THEN "clearStore" ELSE "unbanStore"
<1>1. /\ conn[k].pc \in {"unbanMemory", "clearMemory"}
      /\ memory' = RemoveBans(memory, S)
      /\ conn' = [conn EXCEPT ![k].pc = pc]
      /\ UNCHANGED <<table, now>>
  BY DEF UnbanMemory, ClearMemory, RemoveBans, NoBans, ledgerVars
<1>2. conn'[k].pc = pc /\ conn'[k].todo = conn[k].todo
  BY <1>1, MirrorTypes DEF ConnState
<1>3. S \subseteq Cidr
  BY <1>1, HandlerTarget, MatchesType DEF Unbanning
<1>4. \A c \in Cidr : memory'[c] = IF c \in S THEN 0 ELSE memory[c]
  BY <1>1 DEF RemoveBans
<1>5. ASSUME NEW c \in Cidr PROVE Mirrored(c)' \/ Owed(c)'
  <2>1. CASE c \in S
    BY <1>1, <1>2, <2>1 DEF Owed
  <2>2. CASE c \notin S
    <3>1. Mirrored(c)
      BY <1>1, NothingOwed DEF OneHandler, Halfway
    <3>2. memory'[c] = memory[c]
      BY <1>4, <2>2
    <3> QED BY <1>1, <3>1, <3>2 DEF Mirrored, ActiveBans, Active
  <2> QED BY <2>1, <2>2
<1>6. ASSUME NEW j \in Conn PROVE HalfDone(j)'
  <2>1. j = k
    BY DEF OneHandler
  <2> QED BY <1>1, <1>2, <1>3, <1>4, <2>1 DEF HalfDone
<1> QED BY <1>5, <1>6 DEF Mirror

\* What a handler does in the store afterwards settles what it owed.
LEMMA MirrorSettles ==
  ASSUME DaemonInv, OneHandler, Mirror, NEW k \in Conn, conn[k].pc \in Halfway,
         NEW next, next.pc \notin Halfway, conn' = [conn EXCEPT ![k] = next],
         UNCHANGED <<memory, now>>,
         \A c \in Cidr : ~Owed(c) => table'[c] = table[c],
         \A c \in Cidr : Owed(c) => Mirrored(c)'
  PROVE  Mirror'
<1>1. \A j \in Conn : conn'[j].pc \notin Halfway
  BY MirrorTypes DEF OneHandler
<1>2. ASSUME NEW c \in Cidr PROVE Mirrored(c)'
  BY <1>2 DEF Mirror, Mirrored, ActiveBans, Active
<1> QED BY <1>1, <1>2, AllMirrored

\* After its target a handler is not halfway any more.
LEMMA NextTargetWhole ==
  ASSUME NEW k \in Conn, NEW pc, pc \notin Halfway, NextTarget(k, pc)
  PROVE  \E next : next.pc \notin Halfway /\ conn' = [conn EXCEPT ![k] = next]
<1> DEFINE next == IF Len(conn[k].todo) = 1 THEN IdleConn
                   ELSE [pc |-> pc, todo |-> Tail(conn[k].todo), expires |-> conn[k].expires]
<1>1. next.pc \notin Halfway
  BY DEF IdleConn, Halfway
<1>2. conn' = [conn EXCEPT ![k] = next]
  BY DEF NextTarget
<1> QED BY <1>1, <1>2

LEMMA MirrorBanStored ==
  ASSUME DaemonInv, OneHandler, Mirror, NEW k \in Conn, BanStore(k), ~faulted'
  PROVE  Mirror'
<1> DEFINE d == Head(conn[k].todo)
<1>1. /\ conn[k].pc = "banStore" /\ NextTarget(k, "banMemory")
      /\ UNCHANGED <<memory, now>>
  BY DEF BanStore
<1>2. table' = Upsert(table, d, conn[k].expires)
  BY DaemonAssumption DEF BanStore, StoreRecordBan, Noted
<1>3. d \in Cidr /\ conn[k].expires \in Nat
  BY <1>1, HandlerTarget, ExpiryAssumption DEF Banning
<1>4. \A c \in Cidr : Owed(c) <=> c = d
  BY <1>1 DEF Owed, OneHandler
<1>5. table'[d].active /\ table'[d].expires = conn[k].expires
      /\ \A c \in Cidr : c # d => table'[c] = table[c]
  BY <1>2, <1>3, UpsertEffect, MirrorTypes
<1>6. memory[d] >= conn[k].expires
  BY <1>1 DEF Mirror, HalfDone
<1>7. ASSUME NEW c \in Cidr, c = d PROVE Mirrored(c)'
  BY <1>1, <1>5, <1>6, <1>7 DEF Mirrored
<1>8. PICK next : next.pc \notin Halfway /\ conn' = [conn EXCEPT ![k] = next]
  BY <1>1, NextTargetWhole DEF Halfway
<1>9. conn[k].pc \in Halfway
  BY <1>1 DEF Halfway
<1>10. /\ \A c \in Cidr : ~Owed(c) => table'[c] = table[c]
       /\ \A c \in Cidr : Owed(c) => Mirrored(c)'
  BY <1>4, <1>5, <1>7
<1> QED BY <1>1, <1>8, <1>9, <1>10, MirrorSettles

LEMMA MirrorLifted ==
  ASSUME DaemonInv, OneHandler, Mirror, NEW k \in Conn, UnbanStore(k) \/ ClearStore(k),
         ~faulted'
  PROVE  Mirror'
<1> DEFINE S == IF conn[k].pc = "clearStore" THEN Active(table)
                ELSE SelectUnban(table, Head(conn[k].todo))
<1>1. /\ conn[k].pc \in {"unbanStore", "clearStore"}
      /\ UNCHANGED <<memory, now>>
      /\ table' = Deactivate(table, S)
  <2>1. CASE UnbanStore(k)
    BY <2>1, DaemonAssumption DEF UnbanStore, StoreUnban, Noted
  <2>2. CASE ClearStore(k)
    BY <2>2, DaemonAssumption DEF ClearStore, StoreUnban, Noted
  <2> QED BY <2>1, <2>2
<1>2. \A c \in Cidr : Owed(c) => memory[c] = 0 /\ (table[c].active => c \in S)
  BY <1>1 DEF Owed, OneHandler, Mirror, HalfDone, SelectUnban, Active
<1>3. \A c \in Cidr : c \in S => Owed(c)
  BY <1>1 DEF Owed, SelectUnban
<1> HIDE DEF S
<1>4. ASSUME NEW c \in Cidr, Owed(c) PROVE Mirrored(c)'
  <2>1. memory'[c] = 0 /\ now' \in Nat
    BY <1>1, <1>2, <1>4, MirrorTypes
  <2>2. ~table'[c].active
    <3>1. CASE c \in S
      BY <1>1, <3>1, DeactivateEffect, MirrorTypes
    <3>2. CASE c \notin S
      BY <1>1, <1>2, <1>4, <3>2, DeactivateEffect, MirrorTypes
    <3> QED BY <3>1, <3>2
  <2> QED BY <2>1, <2>2 DEF Mirrored, ActiveBans, Active
<1>5. \A c \in Cidr : ~Owed(c) => table'[c] = table[c]
  BY <1>1, <1>3, DeactivateEffect, MirrorTypes
<1>6. \E next : next.pc \notin Halfway /\ conn' = [conn EXCEPT ![k] = next]
  <2>1. CASE UnbanStore(k)
    BY <2>1, NextTargetWhole DEF UnbanStore, Halfway
  <2>2. CASE ClearStore(k)
    BY <2>2 DEF ClearStore, IdleConn, Halfway
  <2> QED BY <2>1, <2>2
<1>7. conn[k].pc \in Halfway
  BY <1>1 DEF Halfway
<1> QED BY <1>1, <1>4, <1>5, <1>6, <1>7, MirrorSettles

LEMMA MirrorHandled ==
  ASSUME DaemonInv, OneHandler, Mirror, NEW k \in Conn, Handler(k), ~faulted'
  PROVE  Mirror'
BY MirrorBanned, MirrorForgotten, MirrorBanStored, MirrorLifted DEF Handler

\* A command arrives at the handler.
LEMMA MirrorReceives ==
  ASSUME DaemonInv, OneHandler, Mirror, NEW k \in Conn,
         NEW pc, pc \notin Halfway, NEW todo, NEW expires, Receive(k, pc, todo, expires)
  PROVE  Mirror'
<1> DEFINE next == [pc |-> pc, todo |-> todo, expires |-> expires]
<1>1. /\ conn[k].pc \notin Halfway /\ next.pc \notin Halfway
      /\ conn' = [conn EXCEPT ![k] = next]
      /\ UNCHANGED <<memory, table, now>>
  BY DEF Receive, Halfway, ledgerVars
<1> HIDE DEF next
<1> QED BY <1>1, MirrorMoves

LEMMA MirrorOperated ==
  ASSUME DaemonInv, OneHandler, Mirror, Operators
  PROVE  Mirror'
<1>1. ASSUME NEW k \in Conn, NEW targets, ReceiveUnban(k, targets) PROVE Mirror'
  BY <1>1, MirrorReceives DEF ReceiveUnban, Halfway
<1>2. ASSUME NEW k \in Conn, NEW targets, NEW exact, NEW life,
             ReceiveBan(k, targets, exact, life)
      PROVE  Mirror'
  BY <1>2, MirrorReceives DEF ReceiveBan, Halfway
<1>3. ASSUME NEW k \in Conn, ReceiveUnbanAll(k) PROVE Mirror'
  BY <1>3, MirrorReceives DEF ReceiveUnbanAll, Halfway
<1> QED BY <1>1, <1>2, <1>3 DEF Operators

-----------------------------------------------------------------------------
(* Stored bans are enforced. *)

\* Without infractions the worker has nothing to write.
QueueInv == strikes = 0 => queue = << >> /\ \A x \in Task : task[x] = NoRecord

EnforcedInv ==
  /\ QueueInv
  /\ phase # "down" /\ strikes = 0 /\ ~faulted => Mirror

\* What a step of the daemon does to the premises.
LEMMA PremisesPersist ==
  ASSUME DaemonInv, [Next]_vars
  PROVE  /\ strikes' = 0 => strikes = 0
         /\ ~faulted' => ~faulted
<1> USE DEF DaemonInv, TypeOK, Noted, observed, Receive
<1>1. CASE Tick \/ Lifecycle
  BY <1>1 DEF Tick, Lifecycle, BootRehydrate, BootBind, BootFallback, Stop
<1>2. CASE Requests
  <2>1. \/ UNCHANGED <<strikes, faulted>>
        \/ strikes' = strikes + 1 /\ UNCHANGED faulted
    BY <1>2 DEF Requests, Notify, Strike, PerimeterDeny
  <2> QED BY <2>1
<1>3. CASE Worker
  BY <1>3 DEF Worker
<1>4. CASE Operators
  <2>1. UNCHANGED <<strikes, faulted>>
    BY <1>4 DEF Operators, ReceiveBan, ReceiveUnban, ReceiveUnbanAll
  <2> QED BY <2>1
<1>5. ASSUME NEW k \in Conn, Handler(k)
      PROVE  (strikes' = 0 => strikes = 0) /\ (~faulted' => ~faulted)
  BY <1>5 DEF Handler, BanMemory, BanStore, UnbanMemory, UnbanStore, ClearMemory, ClearStore
<1>6. CASE UNCHANGED vars
  BY <1>6 DEF vars
<1> QED BY <1>1, <1>2, <1>3, <1>4, <1>5, <1>6 DEF Next

\* An infraction voids the premises, and without one nothing is queued.
LEMMA NothingQueued ==
  ASSUME DaemonInv, QueueInv, [Next]_vars, strikes' = 0
  PROVE  ~Worker /\ queue' = << >> /\ \A x \in Task : task'[x] = NoRecord
<1>1. strikes = 0
  BY PremisesPersist
<1>2. queue = << >> /\ \A x \in Task : task[x] = NoRecord
  BY <1>1 DEF QueueInv
<1>3. ~Worker
  BY <1>2 DEF Worker
<1>4. CASE Tick \/ Lifecycle
  BY <1>2, <1>3, <1>4 DEF Tick, Lifecycle, BootRehydrate, BootBind, BootFallback, Stop
<1>5. CASE Requests
  <2>1. ASSUME NEW x \in Task PROVE ~Notify(x)
    BY <1>2 DEF Notify
  <2>2. strikes' = strikes + 1
    BY <1>5, <2>1 DEF Requests, Strike, PerimeterDeny
  <2> QED BY <1>1, <2>2
<1>6. CASE Operators
  BY <1>2, <1>3, <1>6 DEF Operators, ReceiveBan, ReceiveUnban, ReceiveUnbanAll, Receive
<1>7. ASSUME NEW k \in Conn, Handler(k) PROVE UNCHANGED <<queue, task>>
  BY <1>7 DEF Handler, BanMemory, BanStore, UnbanMemory, UnbanStore, ClearMemory, ClearStore
<1>8. CASE UNCHANGED vars
  BY <1>2, <1>3, <1>8 DEF vars
<1> QED BY <1>2, <1>3, <1>4, <1>5, <1>6, <1>7, <1>8 DEF Next

LEMMA EnforcedStep ==
  ASSUME DaemonInv, EnforcedInv, OneHandler, [Next]_vars
  PROVE  EnforcedInv'
<1>1. DaemonInv'
  BY DaemonInvStep
<1>2. SUFFICES ASSUME phase' # "down", strikes' = 0, ~faulted' PROVE Mirror'
  BY NothingQueued DEF EnforcedInv, QueueInv
<1>3. strikes = 0 /\ ~faulted /\ ~Worker
  BY <1>2, PremisesPersist, NothingQueued DEF EnforcedInv
<1>4. phase # "down" => Mirror
  BY <1>3 DEF EnforcedInv
<1>5. CASE Tick
  <2>1. UNCHANGED <<memory, table, conn, phase>> /\ now' = now + 1
    BY <1>5 DEF Tick, ledgerVars, flags
  <2> QED BY <1>2, <1>4, <2>1, MirrorStays, MirrorTypes
<1>6. CASE BootRehydrate
  BY <1>2, <1>6, MirrorBoots
<1>7. CASE BootBind
  <2>1. UNCHANGED <<memory, table, conn, now>> /\ phase # "down"
    BY <1>7 DEF BootBind, ledgerVars
  <2> QED BY <1>4, <2>1, MirrorStays, MirrorTypes
<1>8. CASE BootFallback \/ Stop
  BY <1>2, <1>8 DEF BootFallback, Stop, Noted
<1>9. CASE Requests
  <2>1. \A x \in Task : ~Notify(x)
    BY <1>3 DEF EnforcedInv, QueueInv, Notify
  <2>2. strikes' = strikes + 1
    BY <1>9, <2>1 DEF Requests, Strike, PerimeterDeny
  <2> QED BY <1>2, <1>3, <2>2
<1>10. CASE Operators
  <2>1. phase # "down"
    BY <1>10 DEF Operators, ReceiveBan, ReceiveUnban, ReceiveUnbanAll, Receive
  <2> QED BY <1>4, <1>10, <2>1, MirrorOperated
<1>11. ASSUME NEW k \in Conn, Handler(k) PROVE Mirror'
  <2>1. conn[k].pc # "idle"
    BY <1>11 DEF Handler, BanMemory, BanStore, UnbanMemory, UnbanStore, ClearMemory, ClearStore
  <2>2. phase # "down"
    BY <2>1, HandlerTarget
  <2> QED BY <1>2, <1>4, <1>11, <2>2, MirrorHandled
<1>12. CASE UNCHANGED vars
  <2>1. UNCHANGED <<memory, table, conn, now, phase>>
    BY <1>12 DEF vars, flags, ledgerVars
  <2> QED BY <1>2, <1>4, <2>1, MirrorStays, MirrorTypes
<1> QED BY <1>3, <1>5, <1>6, <1>7, <1>8, <1>9, <1>10, <1>11, <1>12 DEF Next, Lifecycle

\* With one IPC handler and no infraction or fault so far, every ban the store lists
\* as active is enforced in memory for as long, across restarts, except between the
\* two steps of a command.
THEOREM StoredBans == OneHandler => (Spec => []StoredBansAreEnforced)
<1> SUFFICES ASSUME OneHandler PROVE Spec => []StoredBansAreEnforced
  OBVIOUS
<1>1. Init => EnforcedInv
  BY DEF Init, EnforcedInv, QueueInv
<1>2. DaemonInv /\ EnforcedInv /\ [Next]_vars => EnforcedInv'
  BY EnforcedStep
<1>3. EnforcedInv => StoredBansAreEnforced
  BY NothingOwed DEF EnforcedInv, StoredBansAreEnforced, Mirrored, Halfway, ActiveBans, Active
<1> QED BY <1>1, <1>2, <1>3, DaemonInvariant, PTL DEF Spec

-----------------------------------------------------------------------------
(* The command line: types. *)

\* What a command that is under way carries: the targets it has left.
CliReady(s) ==
  /\ s.pc # "idle" => s.op # "none"
  /\ s.op \in {"ban", "unban"} => s.chunks \in Seq(Batch) \ {<< >>}
  /\ s.op = "clear" => s.chunks = << << >> >>
  /\ s.op = "ban" => s.life \in Life /\ s.started \in 0 .. MaxTime
  /\ s.pc = "commit" => s.op \in {"unban", "clear"}

CliOK == cli \in [Cli -> CliState] /\ \A p \in Cli : CliReady(cli[p])

ControlInv ==
  /\ DaemonInv
  /\ CliOK
  /\ issued \in 0 .. MaxCommands /\ crossed \in BOOLEAN
  /\ managed => phase # "down"

LEMMA IdleCliReady == IdleCli \in CliState /\ CliReady(IdleCli)
<1>1. SomeConn \in Conn
  BY ControlAssumption DEF SomeConn
<1>2. << >> \in Seq(Seq(Target))
  BY EmptySeq
<1> QED BY <1>1, <1>2 DEF IdleCli, CliState, CliReady

LEMMA CliMoves ==
  ASSUME CliOK, NEW p \in Cli, NEW next \in CliState, CliReady(next),
         cli' = [cli EXCEPT ![p] = next]
  PROVE  CliOK'
<1>1. cli' \in [Cli -> CliState]
  BY DEF CliOK
<1>2. ASSUME NEW q \in Cli PROVE CliReady(cli'[q])
  <2>1. CASE q = p
    BY <2>1 DEF CliOK
  <2>2. CASE q # p
    <3>1. cli'[q] = cli[q]
      BY <2>2 DEF CliOK
    <3> QED BY <3>1 DEF CliOK
  <2> QED BY <2>1, <2>2
<1> QED BY <1>1, <1>2 DEF CliOK

\* A batch is a list of targets; what is left of one is one.
LEMMA BatchParts ==
  ASSUME NEW b \in Batch
  PROVE  /\ b \in Seq(Target) /\ b # << >> /\ Head(b) \in Target
         /\ Len(b) \in Nat /\ (~(Len(b) <= 1) => Tail(b) \in Batch)
<1>1. PICK n \in 1 .. MaxTargets : b \in [1 .. n -> Target]
  BY DEF Batch
<1>2. b \in Seq(Target) \ {<< >>}
  BY BatchType
<1>3. n \in Nat /\ Len(b) = n
  BY <1>1, <1>2, DaemonAssumption, LenProperties
<1>4. Head(b) \in Target /\ Tail(b) \in Seq(Target) /\ Len(Tail(b)) = n - 1
  BY <1>2, <1>3, HeadTailProperties
<1>5. ASSUME ~(n <= 1) PROVE Tail(b) \in Batch
  <2>1. Tail(b) \in [1 .. n - 1 -> Target]
    BY <1>3, <1>4, LenProperties
  <2>2. n - 1 \in 1 .. MaxTargets
    BY <1>3, <1>5, DaemonAssumption
  <2> QED BY <2>1, <2>2 DEF Batch
<1> QED BY <1>2, <1>3, <1>4, <1>5

LEMMA BatchesAreTargets == Seq(Batch) \subseteq Seq(Seq(Target))
<1> SUFFICES ASSUME NEW s \in Seq(Batch) PROVE s \in Seq(Seq(Target))
  OBVIOUS
<1>1. Len(s) \in Nat /\ s \in [1 .. Len(s) -> Batch]
  BY LenProperties
<1>2. Batch \subseteq Seq(Target)
  BY BatchParts
<1>3. s \in [1 .. Len(s) -> Seq(Target)]
  BY <1>1, <1>2
<1> QED BY <1>1, <1>3, SeqDef

\* The chunks of a command.
LEMMA ChunkParts ==
  ASSUME NEW s \in CliState, CliReady(s), s.op # "none"
  PROVE  /\ Len(s.chunks) \in Nat
         /\ s.op \in {"ban", "unban"} =>
              /\ Head(s.chunks) \in Batch
              /\ Tail(s.chunks) \in Seq(Batch)
              /\ ~(Len(s.chunks) <= 1) => Tail(s.chunks) # << >>
         /\ s.op = "clear" => Len(s.chunks) = 1 /\ Len(Head(s.chunks)) = 0
<1>1. s.op \in {"ban", "unban", "clear"} /\ s.chunks \in Seq(Seq(Target))
  BY DEF CliState
<1>2. Len(s.chunks) \in Nat
  BY <1>1, LenProperties
<1>3. CASE s.op = "clear"
  <2>1. s.chunks = << << >> >>
    BY <1>3 DEF CliReady
  <2>2. << >> \in Seq(Target)
    BY EmptySeq
  <2>3. Len(s.chunks) = 1 /\ Head(s.chunks) = << >>
    BY <2>1
  <2>4. Len(Head(s.chunks)) = 0
    BY <2>2, <2>3, EmptySeq
  <2> QED BY <1>2, <1>3, <2>3, <2>4
<1>4. CASE s.op \in {"ban", "unban"}
  <2>1. s.chunks \in Seq(Batch) /\ s.chunks # << >>
    BY <1>4 DEF CliReady
  <2>2. Head(s.chunks) \in Batch /\ Tail(s.chunks) \in Seq(Batch)
        /\ (Len(s.chunks) # 1 => Tail(s.chunks) # << >>)
    BY <2>1, HeadTail
  <2> QED BY <1>2, <1>4, <2>2
<1> QED BY <1>1, <1>3, <1>4

LEMMA RestReady ==
  ASSUME NEW s \in CliState, CliReady(s), s.op # "none"
  PROVE  Rest(s) \in CliState /\ CliReady(Rest(s))
<1>1. CASE Len(s.chunks) <= 1
  BY <1>1, IdleCliReady DEF Rest
<1>2. CASE ~(Len(s.chunks) <= 1)
  <2>1. /\ s.op \in {"ban", "unban"}
        /\ Tail(s.chunks) \in Seq(Batch) /\ Tail(s.chunks) # << >>
    <3>1. s.op \in {"ban", "unban", "clear"}
      BY DEF CliState
    <3>2. Len(s.chunks) \in Nat /\ (s.op = "clear" => Len(s.chunks) = 1)
      BY ChunkParts
    <3>3. s.op # "clear"
      <4> DEFINE n == Len(s.chunks)
      <4>1. n \in Nat /\ ~(n <= 1) /\ (s.op = "clear" => n = 1)
        BY <1>2, <3>2
      <4> HIDE DEF n
      <4> QED BY <4>1
    <3> QED BY <1>2, <3>1, <3>3, ChunkParts
  <2> DEFINE next == [s EXCEPT !.pc = "probe", !.chunks = Tail(@)]
  <2>2. Rest(s) = next
    BY <1>2 DEF Rest
  <2>3. /\ next.pc = "probe" /\ next.op = s.op /\ next.chunks = Tail(s.chunks)
        /\ next.life = s.life /\ next.started = s.started
    BY DEF CliState
  <2>4. next \in CliState
    BY <2>1, BatchesAreTargets DEF CliState
  <2>5. CliReady(next)
    BY <2>1, <2>3 DEF CliReady
  <2> QED BY <2>2, <2>4, <2>5
<1> QED BY <1>1, <1>2

LEMMA NextOfflineReady ==
  ASSUME NEW s \in CliState, CliReady(s), s.op # "none"
  PROVE  NextOffline(s) \in CliState /\ CliReady(NextOffline(s))
<1>1. CASE Len(Head(s.chunks)) <= 1
  BY <1>1, RestReady DEF NextOffline
<1>2. CASE ~(Len(Head(s.chunks)) <= 1)
  <2> DEFINE left == <<Tail(Head(s.chunks))>> \o Tail(s.chunks)
             next == [s EXCEPT !.pc = "offline", !.rows = {}, !.chunks = left]
  <2>1. NextOffline(s) = next
    BY <1>2 DEF NextOffline
  <2>2. s.op \in {"ban", "unban"}
    <3>1. s.op \in {"ban", "unban", "clear"}
      BY DEF CliState
    <3>2. s.op # "clear"
      BY <1>2, ChunkParts
    <3> QED BY <3>1, <3>2
  <2>3. Tail(Head(s.chunks)) \in Batch /\ Tail(s.chunks) \in Seq(Batch)
    BY <1>2, <2>2, ChunkParts, BatchParts
  <2>4. left \in Seq(Batch) /\ left # << >>
    <3> DEFINE head == Tail(Head(s.chunks))
               tail == Tail(s.chunks)
    <3>1. head \in Batch /\ tail \in Seq(Batch)
      BY <2>3
    <3> HIDE DEF head, tail
    <3>2. <<head>> \in Seq(Batch) /\ Len(<<head>>) = 1
      BY <3>1
    <3>3. <<head>> \o tail \in Seq(Batch) /\ Len(<<head>> \o tail) = 1 + Len(tail)
      BY <3>1, <3>2, ConcatProperties
    <3>4. Len(tail) \in Nat
      BY <3>1, LenProperties
    <3>5. <<head>> \o tail # << >>
      BY <3>3, <3>4, EmptySeq
    <3> QED BY <3>3, <3>5 DEF head, tail
  <2> HIDE DEF left
  <2>5. /\ next.pc = "offline" /\ next.op = s.op /\ next.chunks = left
        /\ next.life = s.life /\ next.started = s.started
    BY DEF CliState
  <2>6. next \in CliState
    BY <2>4, BatchesAreTargets DEF CliState
  <2>7. CliReady(next)
    BY <2>2, <2>4, <2>5 DEF CliReady
  <2> QED BY <2>1, <2>6, <2>7
<1> QED BY <1>1, <1>2

\* Each command that is typed is one that can be carried out.
LEMMA TypedReady ==
  ASSUME ControlInv, NEW p \in Cli, Type(p)
  PROVE  ControlInv' /\ UNCHANGED vars
<1>1. ASSUME NEW op \in {"ban", "unban", "clear"}, NEW chunks \in Seq(Seq(Target)),
             NEW exact \in BOOLEAN, NEW life \in Nat, Issue(p, op, chunks, exact, life),
             op \in {"ban", "unban"} => chunks \in Seq(Batch) \ {<< >>},
             op = "clear" => chunks = << << >> >>,
             op = "ban" => life \in Life
      PROVE  CliOK' /\ issued' \in 0 .. MaxCommands /\ UNCHANGED <<vars, crossed>>
  <2> DEFINE next == [IdleCli EXCEPT !.pc = "probe", !.op = op, !.chunks = chunks,
                                     !.exact = exact, !.life = life, !.started = now]
  <2>1. cli' = [cli EXCEPT ![p] = next]
    BY <1>1 DEF Issue
  <2>2. now \in 0 .. MaxTime /\ now \in Nat
    BY DaemonAssumption DEF ControlInv, DaemonInv, TypeOK
  <2>3. /\ next.pc = "probe" /\ next.op = op /\ next.chunks = chunks
        /\ next.life = life /\ next.started = now
    BY DEF IdleCli
  <2>4. next \in CliState
    BY <1>1, <2>2, IdleCliReady DEF IdleCli, CliState
  <2>5. CliReady(next)
    BY <1>1, <2>2, <2>3 DEF CliReady
  <2> HIDE DEF next
  <2>6. CliOK'
    BY <2>1, <2>4, <2>5, CliMoves DEF ControlInv
  <2>7. issued' \in 0 .. MaxCommands
    <3>1. Len(chunks) \in Nat /\ issued \in Nat
      BY DaemonAssumption DEF ControlInv
    <3> QED BY <1>1, <3>1, DaemonAssumption DEF Issue
  <2> QED BY <1>1, <2>6, <2>7 DEF Issue
<1>2. ASSUME NEW n \in 1 .. MaxChunks, NEW chunks \in [1 .. n -> Batch],
             NEW exact \in BOOLEAN, NEW life \in Life, Issue(p, "ban", chunks, exact, life)
      PROVE  CliOK' /\ issued' \in 0 .. MaxCommands /\ UNCHANGED <<vars, crossed>>
  <2>1. n \in Nat /\ 1 \in 1 .. n
    BY ControlAssumption
  <2>2. chunks \in Seq(Batch) /\ chunks # << >>
    BY <1>2, <2>1, SeqDef
  <2>3. life \in Nat
    BY DaemonAssumption
  <2> QED BY <1>1, <1>2, <2>2, <2>3, BatchesAreTargets
<1>3. ASSUME NEW targets \in Batch, Issue(p, "unban", <<targets>>, FALSE, 0)
      PROVE  CliOK' /\ issued' \in 0 .. MaxCommands /\ UNCHANGED <<vars, crossed>>
  <2>1. <<targets>> \in Seq(Batch) /\ <<targets>> # << >>
    OBVIOUS
  <2> QED BY <1>1, <1>3, <2>1, BatchesAreTargets
<1>4. ASSUME Issue(p, "clear", << << >> >>, FALSE, 0)
      PROVE  CliOK' /\ issued' \in 0 .. MaxCommands /\ UNCHANGED <<vars, crossed>>
  <2>1. << >> \in Seq(Target)
    BY EmptySeq
  <2>2. << << >> >> \in Seq(Seq(Target))
    BY <2>1
  <2> QED BY <1>1, <1>4, <2>2
<1>5. CliOK' /\ issued' \in 0 .. MaxCommands /\ UNCHANGED <<vars, crossed>>
  BY <1>2, <1>3, <1>4 DEF Type
<1>6. DaemonInv'
  BY <1>5, DaemonInvStep DEF ControlInv
<1> QED BY <1>5, <1>6 DEF ControlInv, vars, flags

-----------------------------------------------------------------------------
(* The command line: its steps. *)

\* Where a command stands after a chunk, or after a target done offline.
LEMMA WhereNext ==
  ASSUME NEW s \in CliState
  PROVE  /\ Rest(s).pc \in {"idle", "probe"}
         /\ NextOffline(s).pc \in {"idle", "probe", "offline"}
<1>1. Rest(s).pc \in {"idle", "probe"}
  BY DEF Rest, IdleCli, CliState
<1>2. CASE Len(Head(s.chunks)) <= 1
  BY <1>1, <1>2 DEF NextOffline
<1>3. CASE ~(Len(Head(s.chunks)) <= 1)
  BY <1>1, <1>3 DEF NextOffline, CliState
<1> QED BY <1>1, <1>2, <1>3

\* What an offline unban or clear SELECTs is active, and a clear takes it all.
LEMMA FoundIsActive ==
  ASSUME NEW s
  PROVE  Found(s) \subseteq Active(table) /\ (s.op = "clear" => Found(s) = Active(table))
BY DEF Found, SelectUnban

\* The steps in which a process asks, waits, reads or gives up.
Private(p) == Probe(p) \/ Refused(p) \/ Reply(p) \/ OfflineSelect(p) \/ Interrupt(p)

\* They move it to a state it can go on from, and touch nothing else.
LEMMA PrivateStep ==
  ASSUME ControlInv, NEW p \in Cli, Private(p)
  PROVE  /\ UNCHANGED <<vars, issued, crossed>>
         /\ \E next \in CliState :
              /\ CliReady(next)
              /\ cli' = [cli EXCEPT ![p] = next]
              /\ next.pc = "offline" =>
                   \/ ~listening
                   \/ cli[p].pc = "offline"
              /\ next.pc = "commit" =>
                   /\ cli[p].pc = "offline"
                   /\ next.rows \subseteq Active(table)
                   /\ next.op = "clear" => next.rows = Active(table)
<1> DEFINE s == cli[p]
           Goes(next) ==
             /\ CliReady(next)
             /\ cli' = [cli EXCEPT ![p] = next]
             /\ next.pc = "offline" => ~listening \/ s.pc = "offline"
             /\ next.pc = "commit" =>
                  /\ s.pc = "offline"
                  /\ next.rows \subseteq Active(table)
                  /\ next.op = "clear" => next.rows = Active(table)
<1>1. s \in CliState /\ CliReady(s) /\ cli \in [Cli -> CliState]
  BY DEF ControlInv, CliOK
<1>2. UNCHANGED <<vars, issued, crossed>>
  BY DEF Private, Probe, Refused, Reply, OfflineSelect, Interrupt
<1>3. s.pc # "idle" => s.op # "none"
  BY <1>1 DEF CliReady
<1>4. Goes(IdleCli) \/ cli' # [cli EXCEPT ![p] = IdleCli]
  BY IdleCliReady DEF IdleCli
<1>5. CASE Probe(p)
  <2> DEFINE next == [s EXCEPT !.pc = IF listening THEN "send" ELSE "offline"]
  <2>1. cli' = [cli EXCEPT ![p] = next] /\ s.pc = "probe"
    BY <1>1, <1>5 DEF Probe
  <2>2. /\ next \in CliState /\ next.op = s.op /\ next.chunks = s.chunks
        /\ next.life = s.life /\ next.started = s.started
        /\ next.pc = IF listening THEN "send" ELSE "offline"
    BY <1>1 DEF CliState
  <2>3. CliReady(next)
    BY <1>1, <2>1, <2>2 DEF CliReady
  <2>4. next.pc # "commit" /\ (next.pc = "offline" => ~listening)
    BY <2>2
  <2> HIDE DEF next
  <2> QED BY <1>2, <2>1, <2>2, <2>3, <2>4
<1>6. CASE Refused(p) \/ Interrupt(p)
  BY <1>2, <1>4, <1>6, IdleCliReady DEF Refused, Interrupt
<1>7. CASE Reply(p)
  <2>1. cli' = [cli EXCEPT ![p] = Rest(s)] /\ s.op # "none"
    BY <1>1, <1>3, <1>7 DEF Reply
  <2>2. Rest(s) \in CliState /\ CliReady(Rest(s))
    BY <1>1, <2>1, RestReady
  <2>3. Rest(s).pc \in {"idle", "probe"}
    BY <1>1, WhereNext
  <2> QED BY <1>2, <2>1, <2>2, <2>3
<1>8. CASE OfflineSelect(p)
  <2> DEFINE found == Found(s)
             next == [s EXCEPT !.pc = "commit", !.rows = found]
  <2>1. s.pc = "offline" /\ s.op \in {"unban", "clear"}
    BY <1>8 DEF OfflineSelect
  <2>2. \/ cli' = [cli EXCEPT ![p] = IdleCli]
        \/ cli' = [cli EXCEPT ![p] = NextOffline(s)]
        \/ cli' = [cli EXCEPT ![p] = next]
    BY <1>1, <1>8 DEF OfflineSelect
  <2>3. CASE cli' = [cli EXCEPT ![p] = NextOffline(s)]
    <3>1. NextOffline(s) \in CliState /\ CliReady(NextOffline(s))
      BY <1>1, <2>1, NextOfflineReady
    <3>2. NextOffline(s).pc \in {"idle", "probe", "offline"}
      BY <1>1, WhereNext
    <3> QED BY <1>2, <2>1, <2>3, <3>1, <3>2
  <2>4. CASE cli' = [cli EXCEPT ![p] = next]
    <3>1. found \subseteq Active(table) /\ (s.op = "clear" => found = Active(table))
      BY FoundIsActive
    <3>2. found \subseteq Cidr
      BY <3>1 DEF Active
    <3> HIDE DEF found
    <3>3. /\ next \in CliState /\ next.op = s.op /\ next.chunks = s.chunks
          /\ next.life = s.life /\ next.started = s.started
          /\ next.pc = "commit" /\ next.rows = found
      BY <1>1, <3>2 DEF CliState
    <3>4. CliReady(next)
      BY <1>1, <2>1, <3>3 DEF CliReady
    <3> QED BY <1>2, <2>1, <2>4, <3>1, <3>3, <3>4
  <2> QED BY <1>2, <1>4, <2>2, <2>3, <2>4, IdleCliReady
<1> QED BY <1>5, <1>6, <1>7, <1>8 DEF Private

LEMMA PrivateKeeps ==
  ASSUME ControlInv, NEW p \in Cli, Private(p)
  PROVE  ControlInv'
<1>1. CliOK' /\ UNCHANGED <<vars, issued, crossed>>
  BY PrivateStep, CliMoves DEF ControlInv
<1>2. DaemonInv'
  BY <1>1, DaemonInvStep DEF ControlInv
<1> QED BY <1>1, <1>2 DEF ControlInv, vars, flags

\* A step of the daemon, beside which the processes do nothing or lose their
\* connection.
LEMMA DaemonSide ==
  ASSUME ControlInv, CliOK', UNCHANGED <<issued, crossed>>,
         \/ Tick \/ Booting \/ Stop \/ Requests \/ Worker
         \/ \E k \in Conn : Handler(k)
  PROVE  ControlInv'
<1>1. Next
  BY DEF Next, Lifecycle, Booting
<1>2. DaemonInv'
  BY <1>1, DaemonInvStep DEF ControlInv
<1>3. managed' => phase' # "down"
  <2>1. CASE Tick
    BY <2>1 DEF ControlInv, Tick, flags
  <2>2. CASE Booting \/ Stop
    BY <2>2 DEF Booting, BootRehydrate, BootBind, BootFallback, Stop
  <2>3. ASSUME NEW k \in Conn, Handler(k) PROVE UNCHANGED flags
    BY <2>3 DEF Handler, BanMemory, BanStore, UnbanMemory, UnbanStore, ClearMemory, ClearStore
  <2>4. CASE Requests \/ Worker
    <3>1. UNCHANGED flags
      BY <2>4 DEF Requests, Notify, Strike, PerimeterDeny, Worker
    <3> QED BY <3>1 DEF ControlInv, flags
  <2> QED BY <2>1, <2>2, <2>3, <2>4 DEF ControlInv, flags
<1> QED BY <1>2, <1>3 DEF ControlInv

LEMMA StopKeeps ==
  ASSUME ControlInv, StopBesideCli
  PROVE  CliOK' /\ Stop /\ UNCHANGED <<issued, crossed>>
         /\ \A p \in Cli : cli'[p] \in {IdleCli, cli[p]}
<1>1. PICK lost : cli' = [p \in Cli |-> IF p \in lost THEN IdleCli ELSE cli[p]]
  BY DEF StopBesideCli
<1>2. ASSUME NEW p \in Cli PROVE cli'[p] \in CliState /\ CliReady(cli'[p])
  BY <1>1, IdleCliReady DEF ControlInv, CliOK
<1>3. cli' \in [Cli -> CliState]
  BY <1>1, <1>2
<1> QED BY <1>1, <1>2, <1>3 DEF StopBesideCli, CliOK

\* A request that is sent is one the daemon can get.
LEMMA SendStep ==
  ASSUME ControlInv, NEW p \in Cli, Send(p)
  PROVE  /\ Operators /\ listening
         /\ ControlInv' /\ UNCHANGED <<crossed, flags, ledgerVars>>
         /\ cli'[p].pc = "wait"
<1> DEFINE s == cli[p]
<1>1. /\ s \in CliState /\ CliReady(s) /\ cli \in [Cli -> CliState]
      /\ s.pc = "send" /\ s.op \in {"ban", "unban", "clear"}
  BY DEF ControlInv, CliOK, Send, CliReady, CliState
<1>2. PICK k \in Conn :
        /\ CASE s.op = "ban" -> ReceiveBan(k, Head(s.chunks), s.exact, s.life)
             [] s.op = "unban" -> ReceiveUnban(k, Head(s.chunks))
             [] s.op = "clear" -> ReceiveUnbanAll(k)
        /\ cli' = [cli EXCEPT ![p].pc = "wait", ![p].conn = k]
  BY DEF Send
<1>3. s.op \in {"ban", "unban"} => Head(s.chunks) \in Batch
  BY <1>1, ChunkParts
<1>4. Operators /\ listening /\ UNCHANGED <<flags, ledgerVars>>
  <2>1. CASE s.op = "ban"
    <3>1. ReceiveBan(k, Head(s.chunks), s.exact, s.life)
      BY <1>2, <2>1
    <3>2. s.exact \in BOOLEAN /\ s.life \in Life
      BY <1>1, <2>1 DEF CliState, CliReady
    <3> QED BY <1>3, <2>1, <3>1, <3>2 DEF Operators, ReceiveBan, Receive
  <2>2. CASE s.op = "unban"
    <3>1. ReceiveUnban(k, Head(s.chunks))
      BY <1>2, <2>2
    <3> QED BY <1>3, <2>2, <3>1 DEF Operators, ReceiveUnban, Receive
  <2>3. CASE s.op = "clear"
    <3>1. ReceiveUnbanAll(k)
      BY <1>2, <2>3
    <3> QED BY <3>1 DEF Operators, ReceiveUnbanAll, Receive
  <2> QED BY <1>1, <2>1, <2>2, <2>3
<1>5. DaemonInv'
  BY <1>4, OperatorStep DEF ControlInv
<1> DEFINE next == [s EXCEPT !.pc = "wait", !.conn = k]
<1>6. cli' = [cli EXCEPT ![p] = next]
  BY <1>1, <1>2
<1>7. /\ next \in CliState /\ next.op = s.op /\ next.chunks = s.chunks
      /\ next.life = s.life /\ next.started = s.started /\ next.pc = "wait"
  BY <1>1 DEF CliState
<1>8. CliReady(next)
  BY <1>1, <1>7 DEF CliReady
<1> HIDE DEF next
<1>9. CliOK'
  BY <1>6, <1>7, <1>8, CliMoves DEF ControlInv
<1>10. cli'[p].pc = "wait" /\ UNCHANGED <<issued, crossed>>
  BY <1>1, <1>6, <1>7 DEF Send
<1> QED BY <1>4, <1>5, <1>9, <1>10 DEF ControlInv, flags

\* What an offline write does to the daemon's variables and its process.
LEMMA OfflineWrite ==
  ASSUME ControlInv, NEW p \in Cli, NEW ok \in Outcomes, cli[p].op # "none",
         Wrote(p, ok), LedgerTypeOK', promised' \in [Cidr -> Nat],
         watch' \in [Conn -> [Cidr -> {"no", "raced", "quiet"}]],
         freed' \in [Cidr -> {"no", "raced", "quiet"}]
  PROVE  /\ ControlInv'
         /\ cli'[p].pc \in {"idle", "probe", "offline"}
         /\ managed' /\ ~faulted' => crossed'
<1>1. cli[p] \in CliState /\ CliReady(cli[p]) /\ cli \in [Cli -> CliState]
  BY DEF ControlInv, CliOK
<1>2. PICK next \in {NextOffline(cli[p]), IdleCli} : cli' = [cli EXCEPT ![p] = next]
  BY DEF Wrote
<1>3. next \in CliState /\ CliReady(next) /\ next.pc \in {"idle", "probe", "offline"}
  <2>1. CASE next = NextOffline(cli[p])
    <3>1. NextOffline(cli[p]) \in CliState /\ CliReady(NextOffline(cli[p]))
      BY <1>1, NextOfflineReady
    <3>2. NextOffline(cli[p]).pc \in {"idle", "probe", "offline"}
      BY <1>1, WhereNext
    <3> QED BY <2>1, <3>1, <3>2
  <2>2. CASE next = IdleCli
    <3>1. IdleCli.pc = "idle"
      BY DEF IdleCli
    <3> QED BY <2>2, <3>1, IdleCliReady
  <2> QED BY <2>1, <2>2
<1>4. CliOK'
  BY <1>2, <1>3, CliMoves DEF ControlInv
<1>5. ok \in BOOLEAN /\ faulted' \in BOOLEAN /\ crossed' \in BOOLEAN
  BY DaemonAssumption DEF Wrote, Noted, ControlInv, DaemonInv, TypeOK
<1>6. UNCHANGED <<flags, now, memory, task, queue, conn, strikes, settled, commands, issued>>
  BY DEF Wrote
<1>7. DaemonInv'
  BY <1>5, <1>6 DEF ControlInv, DaemonInv, TypeOK, HandlersOK, Ready, flags
<1>8. managed' /\ ~faulted' => crossed'
  <2>1. managed' = managed /\ (managed => phase # "down")
    BY <1>6 DEF ControlInv, flags
  <2>2. crossed' = (crossed \/ (ok /\ phase # "down")) /\ faulted' = (faulted \/ ~ok)
    BY DEF Wrote, Noted
  <2> QED BY <1>5, <2>1, <2>2, Zenon
<1> QED BY <1>1, <1>2, <1>3, <1>4, <1>5, <1>6, <1>7, <1>8 DEF ControlInv, flags

LEMMA OfflineBanStep ==
  ASSUME ControlInv, NEW p \in Cli, OfflineBan(p)
  PROVE  /\ ControlInv' /\ [SharedNext]_ledgerVars
         /\ cli'[p].pc \in {"idle", "probe", "offline"}
         /\ managed' /\ ~faulted' => crossed'
<1> DEFINE s == cli[p]
           c == Resolve(Head(Head(s.chunks)), s.exact)
           e == s.started + s.life
<1>1. s \in CliState /\ CliReady(s) /\ s.pc = "offline" /\ s.op = "ban"
  BY DEF ControlInv, CliOK, OfflineBan
<1>2. c \in Cidr
  <2>1. Head(s.chunks) \in Batch
    BY <1>1, ChunkParts
  <2>2. Head(Head(s.chunks)) \in Target
    BY <2>1, BatchParts
  <2> QED BY <2>2, ResolveType
<1>3. e \in Expiry /\ e \in Nat
  BY <1>1, DaemonAssumption, ExpiryAssumption DEF CliReady
<1>4. PICK ok \in Outcomes :
        /\ StoreRecordBan(c, e, ok)
        /\ promised' = IF ok THEN [promised EXCEPT ![c] = e] ELSE promised
        /\ Wrote(p, ok)
  BY DEF OfflineBan
<1>5. NewCause({c})
  BY DEF OfflineBan
<1> HIDE DEF c, e
<1>6. LedgerTypeOK /\ promised \in [Cidr -> Nat] /\ ok \in BOOLEAN
      /\ freed \in [Cidr -> {"no", "raced", "quiet"}]
      /\ watch \in [Conn -> [Cidr -> {"no", "raced", "quiet"}]]
  BY DaemonAssumption DEF ControlInv, DaemonInv, TypeOK
<1>7. LedgerTypeOK' /\ [SharedNext]_ledgerVars
  BY <1>2, <1>3, <1>4, <1>6, StoreRecordBanStep, LedgerStepIsShared
<1>8. promised' \in [Cidr -> Nat]
  BY <1>2, <1>3, <1>4, <1>6
<1>9. /\ watch' \in [Conn -> [Cidr -> {"no", "raced", "quiet"}]]
      /\ freed' \in [Cidr -> {"no", "raced", "quiet"}]
  BY <1>5, <1>6 DEF NewCause
<1> QED BY <1>1, <1>4, <1>7, <1>8, <1>9, OfflineWrite

\* An offline unban or clear that commits, however late, is a step of the shared
\* ledger.
LEMMA OfflineCommitStep ==
  ASSUME ControlInv, NEW p \in Cli, OfflineCommit(p)
  PROVE  /\ ControlInv'
         /\ cli'[p].pc \in {"idle", "probe", "offline"}
         /\ managed' /\ ~faulted' => crossed'
         /\ [SharedNext]_ledgerVars
<1> DEFINE s == cli[p]
           freeing == IF s.op = "clear" THEN Active(table) ELSE s.rows
           event == IF s.op = "clear" THEN "unbanned_all" ELSE "unbanned"
<1>1. s \in CliState /\ CliReady(s) /\ s.pc = "commit" /\ s.op \in {"unban", "clear"}
  BY DEF ControlInv, CliOK, CliReady, OfflineCommit
<1>2. PICK ok \in Outcomes :
        /\ table' = IF ok THEN Deactivate(table, freeing) ELSE table
        /\ audit' = IF ~ok THEN audit ELSE Log(audit, s.rows, event)
        /\ ForgetPromises(freeing)
        /\ Wrote(p, ok)
  BY DEF OfflineCommit
<1>3. UNCHANGED <<watch, freed>>
  BY DEF OfflineCommit
<1>4. event \in {"unbanned", "unbanned_all"} /\ s.rows \subseteq Cidr
  BY <1>1 DEF CliState
<1>5. LedgerTypeOK /\ promised \in [Cidr -> Nat]
      /\ freed \in [Cidr -> {"no", "raced", "quiet"}]
      /\ watch \in [Conn -> [Cidr -> {"no", "raced", "quiet"}]]
  BY DEF ControlInv, DaemonInv, TypeOK
<1>6. freeing \subseteq Cidr
  BY <1>4 DEF Active
<1>7. s.rows \cap Active(table) \subseteq freeing
  OBVIOUS
<1> HIDE DEF freeing, event
<1>8. table' \in [Cidr -> Row] /\ audit' \in [Cidr -> Seq(AuditEvent)]
  <2>1. event \in AuditEvent
    BY <1>4 DEF AuditEvent
  <2> QED BY <1>2, <1>5, <2>1, DeactivateType, LogType DEF LedgerTypeOK
<1>9. promised' \in [Cidr -> Nat]
  BY <1>2, <1>5 DEF ForgetPromises
<1>10. LedgerTypeOK'
  BY <1>8 DEF LedgerTypeOK
<1>11. [SharedNext]_ledgerVars
  <2>1. CASE ok
    <3>1. LiftLate(freeing, s.rows, event)
      BY <1>2, <1>7, <2>1 DEF LiftLate
    <3> QED BY <1>4, <1>6, <3>1 DEF SharedNext
  <2>2. CASE ~ok
    BY <1>2, <2>2 DEF ledgerVars
  <2> QED BY <2>1, <2>2
<1>12. /\ ControlInv'
       /\ cli'[p].pc \in {"idle", "probe", "offline"}
       /\ managed' /\ ~faulted' => crossed'
  BY <1>1, <1>2, <1>3, <1>5, <1>9, <1>10, OfflineWrite
<1> QED BY <1>11, <1>12

\* Every step keeps the types.
LEMMA ControlStep ==
  ASSUME ControlInv, [ControlNext]_allVars
  PROVE  ControlInv'
<1>1. CASE (Tick \/ Booting \/ Requests \/ Worker \/ \E k \in Conn : Handler(k))
           /\ UNCHANGED ctlVars
  <2>1. CliOK' /\ UNCHANGED <<issued, crossed>>
    BY <1>1 DEF ctlVars, CliOK, ControlInv
  <2> QED BY <1>1, <2>1, DaemonSide
<1>2. CASE StopBesideCli
  BY <1>2, StopKeeps, DaemonSide
<1>3. ASSUME NEW p \in Cli, Type(p) \/ CliStep(p) \/ Interrupt(p) PROVE ControlInv'
  BY <1>3, TypedReady, PrivateKeeps, SendStep, OfflineBanStep, OfflineCommitStep
     DEF CliStep, Private
<1>4. CASE UNCHANGED allVars
  <2>1. UNCHANGED <<vars, cli, issued, crossed>>
    BY <1>4 DEF allVars, ctlVars
  <2>2. DaemonInv'
    BY <2>1, DaemonInvStep DEF ControlInv
  <2> QED BY <2>1, <2>2 DEF ControlInv, CliOK, vars, flags
<1> QED BY <1>1, <1>2, <1>3, <1>4 DEF ControlNext

LEMMA ControlStart == ASSUME ControlInit PROVE ControlInv
<1>1. DaemonInv
  BY DaemonInvInit DEF ControlInit
<1>2. CliOK
  BY IdleCliReady DEF ControlInit, CliOK
<1>3. issued \in 0 .. MaxCommands /\ crossed \in BOOLEAN
  <2>1. MaxCommands \in Nat
    BY DaemonAssumption
  <2>2. issued = 0 /\ crossed = FALSE
    BY DEF ControlInit
  <2>3. issued \in 0 .. MaxCommands
    BY <2>1, <2>2
  <2> QED BY <2>2, <2>3
<1> QED BY <1>1, <1>2, <1>3 DEF ControlInv, ControlInit, Init

LEMMA ControlInvariant == ControlSpec => []ControlInv
BY ControlStart, ControlStep, PTL DEF ControlSpec

\* Commands, chunks, interrupts, boots and ends keep every type: a command always
\* has the target it goes on with, and a request the daemon gets has one.
THEOREM ControlTypes == ControlSpec => []ControlTypeOK
<1>1. ControlInv => ControlTypeOK
  BY DEF ControlInv, DaemonInv, CliOK, ControlTypeOK
<1> QED BY <1>1, ControlInvariant, PTL

-----------------------------------------------------------------------------
(* Memory mirrors the store. *)

\* What was written offline is rehydrated; what was written offline beside a
\* running daemon is not.
MirrorInv ==
  /\ QueueInv
  /\ managed /\ strikes = 0 /\ ~faulted /\ ~crossed => Mirror

\* What a step beside the command line does to the premises.
LEMMA ControlPremises ==
  ASSUME ControlInv, [ControlNext]_allVars
  PROVE  /\ strikes' = 0 => strikes = 0
         /\ ~faulted' => ~faulted
         /\ ~crossed' => ~crossed
         /\ [Next]_vars \/ UNCHANGED <<queue, task>>
<1> USE DEF ControlInv
<1>1. CASE [Next]_vars /\ UNCHANGED crossed
  BY <1>1, PremisesPersist
<1>2. CASE (Tick \/ Booting \/ Requests \/ Worker \/ \E k \in Conn : Handler(k))
           /\ UNCHANGED ctlVars
  BY <1>1, <1>2 DEF Next, Lifecycle, Booting, ctlVars
<1>3. CASE StopBesideCli
  BY <1>1, <1>3 DEF StopBesideCli, Next, Lifecycle
<1>4. ASSUME NEW p \in Cli, Type(p) \/ Private(p) PROVE UNCHANGED vars /\ UNCHANGED crossed
  BY <1>4, PrivateStep DEF Type, Issue
<1>5. ASSUME NEW p \in Cli, Send(p) PROVE Next /\ UNCHANGED crossed
  BY <1>5, SendStep DEF Next
<1>6. ASSUME NEW p \in Cli, NEW ok \in Outcomes, Wrote(p, ok)
      PROVE  /\ UNCHANGED <<strikes, queue, task>>
             /\ (~faulted' => ~faulted) /\ (~crossed' => ~crossed)
  BY <1>6 DEF Wrote, Noted
<1>7. ASSUME NEW p \in Cli, OfflineBan(p) \/ OfflineCommit(p)
      PROVE  \E ok \in Outcomes : Wrote(p, ok)
  BY <1>7 DEF OfflineBan, OfflineCommit
<1>8. ASSUME NEW p \in Cli, Type(p) \/ CliStep(p) \/ Interrupt(p)
      PROVE  \/ [Next]_vars /\ UNCHANGED crossed
             \/ /\ UNCHANGED <<strikes, queue, task>>
                /\ (~faulted' => ~faulted) /\ (~crossed' => ~crossed)
  BY <1>4, <1>5, <1>6, <1>7, <1>8 DEF CliStep, Private
<1>9. CASE UNCHANGED allVars
  BY <1>1, <1>9 DEF allVars, ctlVars
<1> QED BY <1>1, <1>2, <1>3, <1>8, <1>9 DEF ControlNext

\* Before the first infraction nothing is queued, by commands either.
LEMMA ControlQueue ==
  ASSUME ControlInv, MirrorInv, [ControlNext]_allVars, strikes' = 0
  PROVE  /\ strikes = 0 /\ ~Worker
         /\ queue' = << >> /\ \A x \in Task : task'[x] = NoRecord
<1>1. strikes = 0
  BY ControlPremises
<1>2. queue = << >> /\ \A x \in Task : task[x] = NoRecord
  BY <1>1 DEF MirrorInv, QueueInv
<1>3. ~Worker
  BY <1>2 DEF Worker
<1>4. ASSUME [Next]_vars PROVE queue' = << >> /\ \A x \in Task : task'[x] = NoRecord
  BY <1>4, NothingQueued DEF ControlInv, MirrorInv
<1>5. ASSUME UNCHANGED <<queue, task>>
      PROVE  queue' = << >> /\ \A x \in Task : task'[x] = NoRecord
  BY <1>2, <1>5
<1> QED BY <1>1, <1>3, <1>4, <1>5, ControlPremises

LEMMA MirrorStep ==
  ASSUME ControlInv, MirrorInv, OneHandler, [ControlNext]_allVars
  PROVE  MirrorInv'
<1> USE DEF ControlInv
<1>1. SUFFICES ASSUME managed', strikes' = 0, ~faulted', ~crossed' PROVE Mirror'
  BY ControlQueue DEF MirrorInv, QueueInv
<1>0. /\ strikes = 0 /\ ~faulted /\ ~crossed /\ ~Worker
      /\ \A x \in Task : task[x] = NoRecord
  BY <1>1, ControlPremises, ControlQueue DEF MirrorInv, QueueInv
<1>10. managed => Mirror
  BY <1>0 DEF MirrorInv
<1> HIDE DEF MirrorInv
<1>2. ASSUME UNCHANGED <<memory, table, conn, managed>>, now' \in Nat, now' >= now
      PROVE  Mirror'
  BY <1>1, <1>2, <1>10, MirrorStays
<1>3. CASE (Tick \/ Booting \/ Requests \/ Worker \/ \E k \in Conn : Handler(k))
           /\ UNCHANGED ctlVars
  <2>1. now \in Nat
    BY MirrorTypes
  <2>2. CASE Tick
    <3>1. UNCHANGED <<memory, table, conn, managed>> /\ now' = now + 1
      BY <2>2 DEF Tick, flags, ledgerVars
    <3> QED BY <1>2, <2>1, <3>1
  <2>3. CASE BootRehydrate
    BY <1>1, <2>3, MirrorBoots
  <2>4. CASE BootBind
    BY <1>2, <2>1, <2>4 DEF BootBind, ledgerVars
  <2>5. CASE BootFallback
    BY <1>1, <2>5 DEF BootFallback, Noted
  <2>6. CASE Requests
    <3>1. \A x \in Task : ~Notify(x)
      BY <1>0 DEF Notify
    <3>2. strikes' = strikes + 1
      BY <2>6, <3>1 DEF Requests, Strike, PerimeterDeny
    <3> QED BY <1>0, <1>1, <3>2
  <2>7. ASSUME NEW k \in Conn, Handler(k) PROVE Mirror'
    <3>1. UNCHANGED managed
      BY <2>7 DEF Handler, BanMemory, BanStore, UnbanMemory, UnbanStore, ClearMemory,
                  ClearStore, flags
    <3> QED BY <1>1, <1>10, <2>7, <3>1, MirrorHandled
  <2> QED BY <1>0, <1>3, <2>2, <2>3, <2>4, <2>5, <2>6, <2>7 DEF Booting
<1>4. CASE StopBesideCli
  BY <1>1, <1>4 DEF StopBesideCli, Stop
<1>5. ASSUME NEW p \in Cli, Type(p) \/ CliStep(p) \/ Interrupt(p) PROVE Mirror'
  <2>1. CASE Type(p) \/ Private(p)
    <3>1. UNCHANGED vars
      BY <2>1, PrivateStep DEF Type, Issue
    <3>2. UNCHANGED <<memory, table, conn, managed, now>>
      BY <3>1 DEF vars, flags, ledgerVars
    <3>3. now' \in Nat /\ now' >= now
      BY <3>2, MirrorTypes
    <3> QED BY <1>2, <3>2, <3>3
  <2>2. CASE Send(p)
    <3>1. Operators /\ UNCHANGED flags
      BY <2>2, SendStep
    <3> QED BY <1>1, <1>10, <3>1, MirrorOperated DEF flags
  <2>3. CASE OfflineBan(p) \/ OfflineCommit(p)
    BY <1>1, <2>3, OfflineBanStep, OfflineCommitStep
  <2> QED BY <1>5, <2>1, <2>2, <2>3 DEF CliStep, Private
<1>6. CASE UNCHANGED allVars
  <2>1. UNCHANGED <<memory, table, conn, managed, now>>
    BY <1>6 DEF allVars, vars, flags, ledgerVars
  <2>2. now' \in Nat /\ now' >= now
    BY <2>1, MirrorTypes
  <2> QED BY <1>2, <2>1, <2>2
<1> QED BY <1>3, <1>4, <1>5, <1>6 DEF ControlNext

\* With one IPC handler, no infraction or fault so far and no offline write beside a
\* running daemon, memory and store say the same except between the two steps of a
\* command: across probes, chunks, interrupts, boots and ends in any order, of any
\* number of processes.
THEOREM MirrorsStore == OneHandler => (ControlSpec => []MemoryMirrorsStore)
<1> SUFFICES ASSUME OneHandler PROVE ControlSpec => []MemoryMirrorsStore
  OBVIOUS
<1>1. ControlInit => MirrorInv
  BY DEF ControlInit, Init, MirrorInv, QueueInv
<1>2. ControlInv /\ MirrorInv /\ [ControlNext]_allVars => MirrorInv'
  BY MirrorStep
<1>3. MirrorInv => MemoryMirrorsStore
  BY NothingOwed DEF MirrorInv, MemoryMirrorsStore, Mirrored, Halfway
<1> QED BY <1>1, <1>2, <1>3, ControlInvariant, PTL DEF ControlSpec

-----------------------------------------------------------------------------
(* The file that the daemon and the processes share. *)

LEMMA ControlStepIsShared ==
  ASSUME ControlInv, [ControlNext]_allVars
  PROVE  [SharedNext]_ledgerVars
<1>1. ASSUME [Next]_vars PROVE [SharedNext]_ledgerVars
  BY <1>1, DaemonInvStep, LedgerStepIsShared DEF ControlInv
<1>2. CASE (Tick \/ Booting \/ Requests \/ Worker \/ \E k \in Conn : Handler(k))
           /\ UNCHANGED ctlVars
  BY <1>1, <1>2 DEF Next, Lifecycle, Booting
<1>3. CASE StopBesideCli
  BY <1>1, <1>3 DEF StopBesideCli, Next, Lifecycle
<1>4. ASSUME NEW p \in Cli, Type(p) \/ CliStep(p) \/ Interrupt(p)
      PROVE  [SharedNext]_ledgerVars
  <2>1. CASE Type(p) \/ Private(p) \/ Send(p)
    BY <2>1, TypedReady, PrivateStep, SendStep DEF vars, ledgerVars
  <2>2. CASE OfflineBan(p) \/ OfflineCommit(p)
    BY <2>2, OfflineBanStep, OfflineCommitStep
  <2> QED BY <1>4, <2>1, <2>2 DEF CliStep, Private
<1>5. CASE UNCHANGED allVars
  BY <1>5 DEF allVars, vars, ledgerVars
<1> QED BY <1>2, <1>3, <1>4, <1>5 DEF ControlNext

\* Any number of processes beside a daemon with infractions, queue, worker, handlers,
\* faults, boots and ends: the file keeps the promise of the shared ledger.
THEOREM ControlSharesLedger == ControlSpec => SharesLedger
<1>1. ControlInit => LedgerInit
  BY DEF ControlInit, Init
<1>2. ControlInv /\ [ControlNext]_allVars => [SharedNext]_ledgerVars
  BY ControlStepIsShared
<1> QED BY <1>1, <1>2, ControlInvariant, PTL DEF ControlSpec, SharedSpec, SharesLedger

\* So no row is active whose log says that it was lifted, and the counts are right.
THEOREM ControlAudit == ControlSpec => [](ActiveAreLogged /\ CountMatchesAudit)
BY ControlSharesLedger, SharedAudit, SharedCounts, PTL DEF SharesLedger
=============================================================================
