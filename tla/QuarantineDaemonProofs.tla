----------------------- MODULE QuarantineDaemonProofs -----------------------
(***************************************************************************)
(* Theorems about the quarantine of a running daemon, for any number of    *)
(* request tasks and IPC handlers and every set of CIDRs: its store        *)
(* implements the ledger, and an unban that nothing raced is final.        *)
(***************************************************************************)
EXTENDS QuarantineDaemon, QuarantineLedgerProofs

-----------------------------------------------------------------------------
(* The inductive invariant. *)

Banning == {"banMemory", "banStore"}

Unbanning == {"unbanMemory", "unbanStore"}

\* A handler that works through targets has one left, and a ban's targets are
\* resolved to CIDRs.
Ready(handler) ==
  /\ handler.pc \in Banning => /\ handler.todo \in Seq(Cidr) \ {<< >>}
                              /\ handler.expires \in Expiry
  /\ handler.pc \in Unbanning => handler.todo \in Seq(Target) \ {<< >>}

\* Handlers run only while the daemon is up.
HandlersOK ==
  \A k \in Conn : Ready(conn[k]) /\ (phase # "up" => conn[k].pc = "idle")

DaemonInv == TypeOK /\ HandlersOK

\* Nothing holds c in memory and nothing is on its way to put it there or in
\* the store.
Clear(c) == memory[c] = 0 /\ ~InFlight(c)

\* What a handler was promised between the two steps of its unban.
WatchHolds ==
  \A k \in Conn, c \in Cidr : watch[k][c] = "quiet" =>
    /\ Clear(c)
    /\ \/ conn[k].pc = "unbanStore" /\ c \in Matches(Head(conn[k].todo))
       \/ conn[k].pc = "clearStore"

\* What an unban left behind.
FreedHolds ==
  \A c \in Cidr : freed[c] = "quiet" => Clear(c) /\ ~table[c].active

-----------------------------------------------------------------------------
(* Sequences. *)

LEMMA HeadTail ==
  ASSUME NEW S, NEW s \in Seq(S), s # << >>
  PROVE  Head(s) \in S /\ Tail(s) \in Seq(S) /\ (Len(s) # 1 => Tail(s) # << >>)
<1>1. /\ Head(s) \in S /\ Tail(s) \in Seq(S)
      /\ Len(Tail(s)) = Len(s) - 1
  BY HeadTailProperties
<1>2. Len(s) \in Nat
  BY LenProperties
<1>3. Tail(s) = << >> => Len(Tail(s)) = 0
  BY <1>1, EmptySeq
<1>4. Len(s) # 1 => Tail(s) # << >>
  BY <1>1, <1>2, <1>3
<1> QED BY <1>1, <1>4

\* Where the targets of a batch lead.
LEMMA ResolveType ==
  ASSUME NEW target \in Target, NEW exact
  PROVE  Resolve(target, exact) \in Cidr
BY TableAssumption DEF Resolve, Target

LEMMA MatchesType ==
  ASSUME NEW target \in Target
  PROVE  Matches(target) \subseteq Cidr
BY TableAssumption DEF Matches, Target

\* The lists that handlers work through.
LEMMA BatchType ==
  ASSUME NEW targets \in Batch
  PROVE  /\ targets \in Seq(Target) \ {<< >>}
         /\ \A exact : [i \in DOMAIN targets |-> Resolve(targets[i], exact)]
                         \in Seq(Cidr) \ {<< >>}
<1>1. PICK n \in 1 .. MaxTargets : targets \in [1 .. n -> Target]
  BY DEF Batch
<1>2. n \in Nat /\ 1 \in 1 .. n
  BY DaemonAssumption
<1>3. targets \in Seq(Target) /\ targets # << >>
  BY <1>1, <1>2, SeqDef
<1>4. ASSUME NEW exact
      PROVE  [i \in DOMAIN targets |-> Resolve(targets[i], exact)] \in Seq(Cidr) \ {<< >>}
  <2> DEFINE nets == [i \in DOMAIN targets |-> Resolve(targets[i], exact)]
  <2>1. nets \in [1 .. n -> Cidr]
    BY <1>1, ResolveType
  <2>2. DOMAIN nets = 1 .. n
    BY <1>1
  <2>3. nets \in Seq(Cidr)
    BY <1>2, <2>1, SeqDef
  <2>4. nets # << >>
    BY <1>2, <2>2
  <2> QED BY <2>3, <2>4
<1> QED BY <1>3, <1>4

\* The expiry of every ban that is given.
LEMMA ExpiryType ==
  ASSUME TypeOK
  PROVE  /\ Expiry \subseteq Nat
         /\ \A d \in Life : now + d \in Expiry /\ now + d \in Nat
         /\ now + Day \in Expiry
BY DaemonAssumption, ExpiryAssumption DEF TypeOK

\* phylax's engine holds a time for every CIDR.
LEMMA MemoryType ==
  ASSUME TypeOK, NEW c \in Cidr
  PROVE  /\ RecordAndCheck(memory, c, now) \subseteq [Cidr -> Nat]
         /\ \A e \in Nat : AddBan(memory, c, e) \subseteq [Cidr -> Nat]
<1>1. memory \in [Cidr -> Nat]
  BY DEF TypeOK
<1>2. \A e \in Nat : AddBan(memory, c, e) \subseteq [Cidr -> Nat]
  BY <1>1 DEF AddBan
<1>3. \A d \in Life : AddBan(memory, c, now + d) \subseteq [Cidr -> Nat]
  BY <1>2, ExpiryType
<1> QED BY <1>1, <1>2, <1>3 DEF RecordAndCheck

-----------------------------------------------------------------------------
(* The store's calls, as steps of the ledger. *)

\* record_ban is one ledger step when it commits and none when it fails.
LEMMA StoreRecordBanStep ==
  ASSUME LedgerTypeOK, NEW c \in Cidr, NEW e \in Expiry, NEW ok \in BOOLEAN,
         StoreRecordBan(c, e, ok)
  PROVE  LedgerTypeOK' /\ [LedgerNext]_ledgerVars
<1>1. CASE ok
  <2>1. Record(c, e)
    BY <1>1 DEF StoreRecordBan, Record
  <2>2. table' \in [Cidr -> Row] /\ audit' \in [Cidr -> Seq(AuditEvent)]
    BY <2>1, UpsertType, LogType, ExpiryAssumption DEF Record, AuditEvent, LedgerTypeOK
  <2> QED BY <2>1, <2>2 DEF LedgerNext, LedgerTypeOK
<1>2. CASE ~ok
  BY <1>2 DEF StoreRecordBan, LedgerTypeOK, ledgerVars
<1> QED BY <1>1, <1>2

\* unban and unban_all are one ledger step when they commit.
LEMMA StoreUnbanStep ==
  ASSUME LedgerTypeOK, NEW S \in SUBSET Active(table),
         NEW event \in {"unbanned", "unbanned_all"}, NEW ok \in BOOLEAN,
         StoreUnban(S, event, ok)
  PROVE  LedgerTypeOK' /\ [LedgerNext]_ledgerVars
<1>1. CASE ok
  <2>1. Lift(S, event) /\ S \in SUBSET Cidr
    BY <1>1 DEF StoreUnban, Lift, Active
  <2>2. table' \in [Cidr -> Row] /\ audit' \in [Cidr -> Seq(AuditEvent)]
    BY <2>1, DeactivateType, LogType DEF Lift, AuditEvent, LedgerTypeOK
  <2> QED BY <2>1, <2>2 DEF LedgerNext, LedgerTypeOK
<1>2. CASE ~ok
  BY <1>2 DEF StoreUnban, LedgerTypeOK, ledgerVars
<1> QED BY <1>1, <1>2

-----------------------------------------------------------------------------
(* Types and handlers: the steps that move a handler. *)

\* A handler moves to a state that is ready.
LEMMA HandlerMoves ==
  ASSUME DaemonInv, NEW k \in Conn, NEW next \in ConnState, Ready(next),
         phase' = "up", conn' = [conn EXCEPT ![k] = next]
  PROVE  conn' \in [Conn -> ConnState] /\ HandlersOK'
<1>1. conn \in [Conn -> ConnState]
  BY DEF DaemonInv, TypeOK
<1>2. conn' \in [Conn -> ConnState]
  BY <1>1
<1>3. ASSUME NEW j \in Conn PROVE Ready(conn'[j])
  <2>1. CASE j = k
    BY <1>1, <2>1
  <2>2. CASE j # k
    <3>1. conn'[j] = conn[j] BY <1>1, <2>2
    <3> QED BY <3>1 DEF DaemonInv, HandlersOK
  <2> QED BY <2>1, <2>2
<1> QED BY <1>2, <1>3 DEF HandlersOK

\* A list of CIDRs is a list of targets.
LEMMA CidrsAreTargets == Seq(Cidr) \subseteq Seq(Target)
<1> SUFFICES ASSUME NEW s \in Seq(Cidr) PROVE s \in Seq(Target)
  OBVIOUS
<1>1. Len(s) \in Nat /\ s \in [1 .. Len(s) -> Cidr]
  BY LenProperties
<1>2. s \in [1 .. Len(s) -> Target]
  BY <1>1 DEF Target
<1> QED BY <1>1, <1>2, SeqDef

\* A handler that has finished its first target is ready for the next one.
LEMMA NextTargetReady ==
  ASSUME DaemonInv, NEW k \in Conn, phase' = phase,
         NEW pc, NextTarget(k, pc),
         \/ conn[k].pc \in Banning /\ pc = "banMemory"
         \/ conn[k].pc \in Unbanning /\ pc = "unbanMemory"
  PROVE  conn' \in [Conn -> ConnState] /\ HandlersOK'
<1> DEFINE here == conn[k]
<1>1. here \in ConnState /\ Ready(here) /\ phase' = "up"
  BY DEF DaemonInv, TypeOK, HandlersOK, Banning, Unbanning
<1>2. CASE Len(here.todo) = 1
  <2>1. conn' = [conn EXCEPT ![k] = IdleConn]
    BY <1>2 DEF NextTarget
  <2>2. IdleConn \in ConnState /\ Ready(IdleConn)
    <3>1. << >> \in Seq(Target) BY EmptySeq
    <3> QED BY <3>1 DEF IdleConn, ConnState, Ready, Banning, Unbanning
  <2> QED BY <1>1, <2>1, <2>2, HandlerMoves
<1>3. CASE Len(here.todo) # 1
  <2> DEFINE next == [pc |-> pc, todo |-> Tail(here.todo), expires |-> here.expires]
  <2>1. conn' = [conn EXCEPT ![k] = next]
    BY <1>3 DEF NextTarget
  <2>2. next \in ConnState /\ Ready(next)
    <3>2. CASE here.pc \in Banning /\ pc = "banMemory"
      <4>1. here.todo \in Seq(Cidr) /\ here.todo # << >> /\ here.expires \in Expiry
        BY <1>1, <3>2 DEF Ready
      <4>2. Tail(here.todo) \in Seq(Cidr) \ {<< >>}
        BY <1>3, <4>1, HeadTail
      <4> QED BY <1>1, <3>2, <4>1, <4>2, CidrsAreTargets
              DEF ConnState, Ready, Banning, Unbanning
    <3>3. CASE here.pc \in Unbanning /\ pc = "unbanMemory"
      <4>1. here.todo \in Seq(Target) /\ here.todo # << >>
        BY <1>1, <3>3 DEF Ready
      <4>2. Tail(here.todo) \in Seq(Target) \ {<< >>}
        BY <1>3, <4>1, HeadTail
      <4> QED BY <1>1, <3>3, <4>2 DEF ConnState, Ready, Banning, Unbanning
    <3> QED BY <3>2, <3>3
  <2> QED BY <1>1, <2>1, <2>2, HandlerMoves
<1> QED BY <1>2, <1>3

\* What a handler works on.
LEMMA HandlerTarget ==
  ASSUME DaemonInv, NEW k \in Conn
  PROVE  /\ conn[k].pc # "idle" => phase = "up"
         /\ conn[k].pc \in Banning =>
              Head(conn[k].todo) \in Cidr /\ conn[k].expires \in Expiry
         /\ conn[k].pc \in Unbanning => Head(conn[k].todo) \in Target
<1>1. Ready(conn[k]) /\ (phase # "up" => conn[k].pc = "idle")
  BY DEF DaemonInv, HandlersOK
<1>2. CASE conn[k].pc \in Banning
  BY <1>1, <1>2, HeadTail DEF Ready, Banning, Unbanning
<1>3. CASE conn[k].pc \in Unbanning
  BY <1>1, <1>3, HeadTail DEF Ready, Banning, Unbanning
<1> QED BY <1>1, <1>2, <1>3

\* A handler goes from memory to the store and keeps its targets.
LEMMA ToStoreReady ==
  ASSUME DaemonInv, NEW k \in Conn, phase' = phase, NEW pc,
         conn' = [conn EXCEPT ![k].pc = pc],
         \/ conn[k].pc = "banMemory" /\ pc = "banStore"
         \/ conn[k].pc = "unbanMemory" /\ pc = "unbanStore"
         \/ conn[k].pc = "clearMemory" /\ pc = "clearStore"
  PROVE  conn' \in [Conn -> ConnState] /\ HandlersOK'
<1>1. /\ conn[k] \in ConnState /\ Ready(conn[k]) /\ phase' = "up"
      /\ conn \in [Conn -> ConnState]
  BY DEF DaemonInv, TypeOK, HandlersOK
<1> DEFINE next == [pc |-> pc, todo |-> conn[k].todo, expires |-> conn[k].expires]
<1>a. [conn[k] EXCEPT !.pc = pc] = next
  BY <1>1 DEF ConnState
<1>2. conn' = [conn EXCEPT ![k] = next]
  BY <1>a
<1>3. next \in ConnState /\ Ready(next)
  BY <1>1 DEF ConnState, Ready, Banning, Unbanning
<1> HIDE DEF next
<1> QED BY <1>1, <1>2, <1>3, HandlerMoves

-----------------------------------------------------------------------------
(* Types: what the properties observe. *)

LEMMA ObservationTypes ==
  ASSUME TypeOK, NEW S, NEW k \in Conn, NEW ok \in BOOLEAN
  PROVE  /\ NewCause(S) => /\ watch' \in [Conn -> [Cidr -> {"no", "raced", "quiet"}]]
                           /\ freed' \in [Cidr -> {"no", "raced", "quiet"}]
         /\ Watch(k, S) => watch' \in [Conn -> [Cidr -> {"no", "raced", "quiet"}]]
         /\ Free(k, ok) => /\ watch' \in [Conn -> [Cidr -> {"no", "raced", "quiet"}]]
                           /\ freed' \in [Cidr -> {"no", "raced", "quiet"}]
         /\ ForgetPromises(S) => promised' \in [Cidr -> Nat]
         /\ Noted(ok) => faulted' \in BOOLEAN
<1> USE DEF TypeOK
<1>1. ASSUME NewCause(S)
      PROVE  /\ watch' \in [Conn -> [Cidr -> {"no", "raced", "quiet"}]]
             /\ freed' \in [Cidr -> {"no", "raced", "quiet"}]
  BY <1>1 DEF NewCause
<1>2. ASSUME Watch(k, S)
      PROVE  watch' \in [Conn -> [Cidr -> {"no", "raced", "quiet"}]]
  <2> DEFINE w == [c \in Cidr |-> IF c \notin S THEN "no" ELSE IF InFlight(c) THEN "raced" ELSE "quiet"]
  <2>1. w \in [Cidr -> {"no", "raced", "quiet"}]
    OBVIOUS
  <2>2. watch' = [watch EXCEPT ![k] = w]
    BY <1>2 DEF Watch
  <2> HIDE DEF w
  <2> QED BY <2>1, <2>2
<1>3. ASSUME Free(k, ok)
      PROVE  /\ watch' \in [Conn -> [Cidr -> {"no", "raced", "quiet"}]]
             /\ freed' \in [Cidr -> {"no", "raced", "quiet"}]
  BY <1>3 DEF Free
<1>4. ASSUME ForgetPromises(S) PROVE promised' \in [Cidr -> Nat]
  BY <1>4 DEF ForgetPromises
<1>5. ASSUME Noted(ok) PROVE faulted' \in BOOLEAN
  BY <1>5 DEF Noted
<1> QED BY <1>1, <1>2, <1>3, <1>4, <1>5

-----------------------------------------------------------------------------
(* Types and handlers: the steps of the daemon and of its requests. *)

LEMMA LifecycleStep ==
  ASSUME DaemonInv, Tick \/ Lifecycle
  PROVE  DaemonInv' /\ UNCHANGED ledgerVars
<1> USE DEF DaemonInv, TypeOK, LedgerTypeOK, HandlersOK, Ready, flags, observed, ledgerVars
<1>1. CASE Tick
  BY <1>1, DaemonAssumption DEF Tick
<1>2. CASE BootRehydrate
  <2>1. PICK ok \in Outcomes : memory' = Rehydrated(ok) /\ Noted(ok)
    BY <1>2 DEF BootRehydrate
  <2>2. Rehydrated(ok) \in [Cidr -> Nat]
    BY DEF Rehydrated, Row
  <2>3. faulted' \in BOOLEAN
    BY <2>1, DaemonAssumption DEF Noted
  <2> QED BY <1>2, <2>1, <2>2, <2>3 DEF BootRehydrate
<1>3. CASE BootBind
  <2>1. PICK ok \in Outcomes : listening' = ok /\ Noted(ok)
    BY <1>3 DEF BootBind
  <2>2. faulted' \in BOOLEAN /\ listening' \in BOOLEAN
    BY <2>1, DaemonAssumption DEF Noted
  <2> QED BY <1>3, <2>2 DEF BootBind
<1>4. CASE BootFallback
  BY <1>4 DEF BootFallback, Noted
<1>5. CASE Stop
  <2>1. conn' \in [Conn -> ConnState] /\ HandlersOK'
    <3>1. << >> \in Seq(Target) BY EmptySeq
    <3> QED BY <1>5, <3>1 DEF Stop, IdleConn, ConnState, Banning, Unbanning
  <2>2. settled' \in Nat
    <3>1. IsFiniteSet({x \in Task : task[x] # NoRecord})
      BY DaemonAssumption, FS_Subset
    <3>2. Len(queue) \in Nat
      BY LenProperties
    <3> QED BY <1>5, <3>1, <3>2, FS_CardinalityType DEF Stop
  <2>3. queue' \in Seq(BanRecord)
    BY <1>5, EmptySeq DEF Stop
  <2> QED BY <1>5, <2>1, <2>2, <2>3 DEF Stop, NoBans
<1> QED BY <1>1, <1>2, <1>3, <1>4, <1>5 DEF Lifecycle

LEMMA RequestStep ==
  ASSUME DaemonInv, Requests
  PROVE  DaemonInv' /\ UNCHANGED ledgerVars
<1> USE DEF DaemonInv, TypeOK, LedgerTypeOK, HandlersOK, Ready, flags, observed, ledgerVars
<1>1. ASSUME NEW x \in Task, Notify(x) PROVE DaemonInv' /\ UNCHANGED ledgerVars
  <2>1. queue' \in Seq(BanRecord)
    BY <1>1, AppendProperties DEF Notify
  <2> QED BY <1>1, <2>1 DEF Notify
<1>2. ASSUME NEW x \in Task, NEW a \in Addr, Strike(x, a)
      PROVE  DaemonInv' /\ UNCHANGED ledgerVars
  <2>1. HomeNet[a] \in Cidr /\ now + Day \in Expiry
    BY TableAssumption, ExpiryType
  <2>2. memory' \in [Cidr -> Nat]
    BY <1>2, <2>1, MemoryType DEF Strike
  <2>3. task' \in [Task -> BanRecord \cup {NoRecord}]
    <3> DEFINE rec == [cidr |-> HomeNet[a], expires |-> now + Day]
    <3>1. rec \in BanRecord
      BY <2>1 DEF BanRecord
    <3>2. task' = [task EXCEPT ![x] = rec] \/ task' = task
      BY <1>2 DEF Strike
    <3> HIDE DEF rec
    <3> QED BY <3>1, <3>2
  <2>4. NewCause({HomeNet[a]})
    BY <1>2 DEF Strike
  <2>5. /\ watch' \in [Conn -> [Cidr -> {"no", "raced", "quiet"}]]
        /\ freed' \in [Cidr -> {"no", "raced", "quiet"}]
    BY <2>4 DEF NewCause
  <2> QED BY <1>2, <2>2, <2>3, <2>5 DEF Strike
<1>3. ASSUME NEW a \in Addr, PerimeterDeny(a)
      PROVE  DaemonInv' /\ UNCHANGED ledgerVars
  <2>1. HomeNet[a] \in Cidr
    BY TableAssumption
  <2>2. memory' \in [Cidr -> Nat]
    BY <1>3, <2>1, MemoryType DEF PerimeterDeny
  <2>3. NewCause({HomeNet[a]})
    BY <1>3 DEF PerimeterDeny
  <2>4. /\ watch' \in [Conn -> [Cidr -> {"no", "raced", "quiet"}]]
        /\ freed' \in [Cidr -> {"no", "raced", "quiet"}]
    BY <2>3 DEF NewCause
  <2> QED BY <1>3, <2>2, <2>4 DEF PerimeterDeny
<1> QED BY <1>1, <1>2, <1>3 DEF Requests

LEMMA WorkerStep ==
  ASSUME DaemonInv, Worker
  PROVE  DaemonInv' /\ [LedgerNext]_ledgerVars
<1>1. /\ Head(queue) \in BanRecord /\ Tail(queue) \in Seq(BanRecord)
      /\ queue' = Tail(queue)
  BY HeadTail DEF Worker, DaemonInv, TypeOK
<1>2. PICK ok \in Outcomes :
        StoreRecordBan(Head(queue).cidr, Head(queue).expires, ok) /\ Noted(ok)
  BY DEF Worker
<1>3. LedgerTypeOK' /\ [LedgerNext]_ledgerVars
  BY <1>1, <1>2, StoreRecordBanStep, DaemonAssumption DEF BanRecord, DaemonInv, TypeOK
<1>4. faulted' \in BOOLEAN
  BY <1>2, DaemonAssumption DEF Noted, DaemonInv, TypeOK
<1>5. TypeOK'
  BY <1>1, <1>3, <1>4 DEF Worker, DaemonInv, TypeOK, flags
<1>6. HandlersOK'
  BY DEF Worker, DaemonInv, HandlersOK, Ready, flags
<1> QED BY <1>3, <1>5, <1>6 DEF DaemonInv

-----------------------------------------------------------------------------
(* Types and handlers: the steps of the operators' commands. *)

LEMMA OperatorStep ==
  ASSUME DaemonInv, Operators
  PROVE  DaemonInv' /\ UNCHANGED ledgerVars
<1> USE DEF DaemonInv, TypeOK, LedgerTypeOK, flags, ledgerVars
<1>1. ASSUME NEW k \in Conn, NEW pc \in {"banMemory", "unbanMemory", "clearMemory"},
             NEW todo \in Seq(Target), NEW expires \in Nat,
             pc = "banMemory" => todo \in Seq(Cidr) \ {<< >>} /\ expires \in Expiry,
             pc = "unbanMemory" => todo # << >>,
             Receive(k, pc, todo, expires)
      PROVE  /\ conn' \in [Conn -> ConnState] /\ HandlersOK'
             /\ commands' \in Nat
             /\ UNCHANGED <<flags, now, memory, task, queue, ledgerVars, strikes, settled, faulted>>
  <2> DEFINE next == [pc |-> pc, todo |-> todo, expires |-> expires]
  <2>1. next \in ConnState /\ Ready(next)
    BY <1>1 DEF ConnState, Ready, Banning, Unbanning
  <2>2. conn' = [conn EXCEPT ![k] = next] /\ phase' = "up"
    BY <1>1 DEF Receive
  <2> HIDE DEF next
  <2>3. conn' \in [Conn -> ConnState] /\ HandlersOK'
    BY <2>1, <2>2, HandlerMoves
  <2> QED BY <1>1, <2>3 DEF Receive
<1>2. ASSUME NEW k \in Conn, NEW targets \in Batch, ReceiveUnban(k, targets)
      PROVE  DaemonInv' /\ UNCHANGED ledgerVars
  <2>1. targets \in Seq(Target) /\ targets # << >>
    BY BatchType
  <2>2. Receive(k, "unbanMemory", targets, 0)
    BY <1>2 DEF ReceiveUnban
  <2>3. promised' \in [Cidr -> Nat]
    BY <1>2 DEF ReceiveUnban, ForgetPromises
  <2>4. UNCHANGED <<watch, freed>>
    BY <1>2 DEF ReceiveUnban
  <2>5. /\ conn' \in [Conn -> ConnState] /\ HandlersOK'
        /\ commands' \in Nat
        /\ UNCHANGED <<flags, now, memory, task, queue, ledgerVars, strikes, settled, faulted>>
    BY <1>1, <2>1, <2>2
  <2> QED BY <2>3, <2>4, <2>5
<1>3. ASSUME NEW k \in Conn, ReceiveUnbanAll(k)
      PROVE  DaemonInv' /\ UNCHANGED ledgerVars
  <2>1. << >> \in Seq(Target)
    BY EmptySeq
  <2>2. Receive(k, "clearMemory", << >>, 0)
    BY <1>3 DEF ReceiveUnbanAll
  <2>3. promised' \in [Cidr -> Nat]
    BY <1>3 DEF ReceiveUnbanAll, ForgetPromises
  <2>4. UNCHANGED <<watch, freed>>
    BY <1>3 DEF ReceiveUnbanAll
  <2>5. /\ conn' \in [Conn -> ConnState] /\ HandlersOK'
        /\ commands' \in Nat
        /\ UNCHANGED <<flags, now, memory, task, queue, ledgerVars, strikes, settled, faulted>>
    BY <1>1, <2>1, <2>2
  <2> QED BY <2>3, <2>4, <2>5
<1>4. ASSUME NEW k \in Conn, NEW targets \in Batch, NEW exact \in BOOLEAN, NEW life \in Life,
             ReceiveBan(k, targets, exact, life)
      PROVE  DaemonInv' /\ UNCHANGED ledgerVars
  <2> DEFINE nets == [i \in DOMAIN targets |-> Resolve(targets[i], exact)]
  <2>1. nets \in Seq(Cidr) \ {<< >>} /\ nets \in Seq(Target)
    BY BatchType, CidrsAreTargets
  <2>2. /\ Receive(k, "banMemory", nets, now + life)
        /\ NewCause(Range(nets))
        /\ UNCHANGED promised
    BY <1>4 DEF ReceiveBan
  <2> HIDE DEF nets
  <2>3. /\ watch' \in [Conn -> [Cidr -> {"no", "raced", "quiet"}]]
        /\ freed' \in [Cidr -> {"no", "raced", "quiet"}]
    BY <2>2 DEF NewCause
  <2>4. now + life \in Expiry /\ now + life \in Nat
    BY ExpiryType
  <2>5. /\ conn' \in [Conn -> ConnState] /\ HandlersOK'
        /\ commands' \in Nat
        /\ UNCHANGED <<flags, now, memory, task, queue, ledgerVars, strikes, settled, faulted>>
    BY <1>1, <2>1, <2>2, <2>4
  <2> QED BY <2>2, <2>3, <2>5
<1> QED BY <1>2, <1>3, <1>4 DEF Operators

\* The rows an unban SELECTs are active ones.
LEMMA SelectionIsActive ==
  ASSUME NEW target
  PROVE  SelectUnban(table, target) \in SUBSET Active(table)
BY DEF SelectUnban

LEMMA HandlerStep ==
  ASSUME DaemonInv, NEW k \in Conn, Handler(k)
  PROVE  DaemonInv' /\ [LedgerNext]_ledgerVars
<1>0. /\ conn[k].pc \in Banning =>
           Head(conn[k].todo) \in Cidr /\ conn[k].expires \in Expiry
      /\ conn[k].pc \in Unbanning => Head(conn[k].todo) \in Target
  BY HandlerTarget
<1> USE DEF DaemonInv, TypeOK, flags, observed
<1>1. CASE BanMemory(k)
  <2>1. Head(conn[k].todo) \in Cidr /\ conn[k].expires \in Nat
    BY <1>0, <1>1, ExpiryAssumption DEF BanMemory, Banning
  <2>2. memory' \in [Cidr -> Nat]
    BY <1>1, <2>1, MemoryType DEF BanMemory
  <2>3. conn' \in [Conn -> ConnState] /\ HandlersOK'
    BY <1>1, ToStoreReady DEF BanMemory
  <2> QED BY <1>1, <2>2, <2>3 DEF BanMemory, LedgerTypeOK, ledgerVars
<1>2. CASE BanStore(k)
  <2>1. Head(conn[k].todo) \in Cidr /\ conn[k].expires \in Expiry /\ conn[k].expires \in Nat
    BY <1>0, <1>2, ExpiryAssumption DEF BanStore, Banning
  <2>2. PICK ok \in Outcomes :
          /\ StoreRecordBan(Head(conn[k].todo), conn[k].expires, ok)
          /\ promised' = IF ok THEN [promised EXCEPT ![Head(conn[k].todo)] = conn[k].expires]
                               ELSE promised
          /\ Noted(ok)
    BY <1>2 DEF BanStore
  <2>3. LedgerTypeOK' /\ [LedgerNext]_ledgerVars
    BY <2>1, <2>2, StoreRecordBanStep, DaemonAssumption
  <2>4. promised' \in [Cidr -> Nat] /\ faulted' \in BOOLEAN
    BY <2>1, <2>2, DaemonAssumption DEF Noted
  <2>5. conn' \in [Conn -> ConnState] /\ HandlersOK'
    BY <1>2, NextTargetReady DEF BanStore, Banning
  <2> QED BY <1>2, <2>3, <2>4, <2>5 DEF BanStore
<1>3. CASE UnbanMemory(k)
  <2>1. watch' \in [Conn -> [Cidr -> {"no", "raced", "quiet"}]]
    BY <1>3, ObservationTypes DEF UnbanMemory
  <2>2. memory' \in [Cidr -> Nat]
    BY <1>3 DEF UnbanMemory, RemoveBans
  <2>3. conn' \in [Conn -> ConnState] /\ HandlersOK'
    BY <1>3, ToStoreReady DEF UnbanMemory
  <2> QED BY <1>3, <2>1, <2>2, <2>3 DEF UnbanMemory, LedgerTypeOK, ledgerVars
<1>4. CASE UnbanStore(k)
  <2>1. PICK ok \in Outcomes :
          /\ StoreUnban(SelectUnban(table, Head(conn[k].todo)), "unbanned", ok)
          /\ Free(k, ok)
          /\ Noted(ok)
    BY <1>4 DEF UnbanStore
  <2>2. LedgerTypeOK' /\ [LedgerNext]_ledgerVars
    BY <2>1, StoreUnbanStep, SelectionIsActive, DaemonAssumption
  <2>3. /\ watch' \in [Conn -> [Cidr -> {"no", "raced", "quiet"}]]
        /\ freed' \in [Cidr -> {"no", "raced", "quiet"}]
        /\ faulted' \in BOOLEAN
    BY <2>1, ObservationTypes, DaemonAssumption
  <2>4. conn' \in [Conn -> ConnState] /\ HandlersOK'
    BY <1>4, NextTargetReady DEF UnbanStore, Unbanning
  <2> QED BY <1>4, <2>2, <2>3, <2>4 DEF UnbanStore
<1>5. CASE ClearMemory(k)
  <2>1. watch' \in [Conn -> [Cidr -> {"no", "raced", "quiet"}]]
    BY <1>5, ObservationTypes DEF ClearMemory
  <2>2. memory' \in [Cidr -> Nat]
    BY <1>5 DEF ClearMemory, NoBans
  <2>3. conn' \in [Conn -> ConnState] /\ HandlersOK'
    BY <1>5, ToStoreReady DEF ClearMemory
  <2> QED BY <1>5, <2>1, <2>2, <2>3 DEF ClearMemory, LedgerTypeOK, ledgerVars
<1>6. CASE ClearStore(k)
  <2>1. PICK ok \in Outcomes :
          /\ StoreUnban(Active(table), "unbanned_all", ok)
          /\ Free(k, ok)
          /\ Noted(ok)
    BY <1>6 DEF ClearStore
  <2>2. LedgerTypeOK' /\ [LedgerNext]_ledgerVars
    BY <2>1, StoreUnbanStep, DaemonAssumption
  <2>3. /\ watch' \in [Conn -> [Cidr -> {"no", "raced", "quiet"}]]
        /\ freed' \in [Cidr -> {"no", "raced", "quiet"}]
        /\ faulted' \in BOOLEAN
    BY <2>1, ObservationTypes, DaemonAssumption
  <2>4. conn' \in [Conn -> ConnState] /\ HandlersOK'
    <3>1. IdleConn \in ConnState /\ Ready(IdleConn)
      <4>1. << >> \in Seq(Target) BY EmptySeq
      <4> QED BY <4>1 DEF IdleConn, ConnState, Ready, Banning, Unbanning
    <3>2. conn' = [conn EXCEPT ![k] = IdleConn] /\ phase' = "up"
      BY <1>6, HandlerTarget DEF ClearStore
    <3> QED BY <3>1, <3>2, HandlerMoves
  <2> QED BY <1>6, <2>2, <2>3, <2>4 DEF ClearStore
<1> QED BY <1>1, <1>2, <1>3, <1>4, <1>5, <1>6 DEF Handler

-----------------------------------------------------------------------------
(* The daemon's types, and its store as a ledger. *)

\* A step keeps types and handlers, and is a step of the ledger or leaves it be.
LEMMA DaemonInvStep ==
  ASSUME DaemonInv, [Next]_vars
  PROVE  DaemonInv' /\ [LedgerNext]_ledgerVars
<1>1. CASE UNCHANGED vars
  BY <1>1 DEF vars, flags, observed, ledgerVars, DaemonInv, TypeOK, LedgerTypeOK,
              HandlersOK, Ready
<1> QED BY <1>1, LifecycleStep, RequestStep, WorkerStep, OperatorStep, HandlerStep DEF Next

LEMMA DaemonInvInit == ASSUME Init PROVE DaemonInv
<1> USE DEF Init
<1>1. << >> \in Seq(Target) /\ << >> \in Seq(BanRecord) /\ << >> \in Seq(AuditEvent)
  BY EmptySeq
<1>2. IdleConn \in ConnState /\ Ready(IdleConn)
  BY <1>1 DEF IdleConn, ConnState, Ready, Banning, Unbanning
<1>3. conn \in [Conn -> ConnState] /\ HandlersOK
  BY <1>2 DEF HandlersOK, IdleConn
<1>4. LedgerTypeOK
  BY <1>1 DEF LedgerInit, LedgerTypeOK, EmptyTable, EmptyAudit, NoRow, Row
<1>5. /\ memory \in [Cidr -> Nat] /\ promised \in [Cidr -> Nat]
      /\ task \in [Task -> BanRecord \cup {NoRecord}]
      /\ queue \in Seq(BanRecord)
  BY <1>1 DEF NoBans
<1>6. now \in 0 .. MaxTime
  BY DaemonAssumption
<1>7. /\ watch \in [Conn -> [Cidr -> {"no", "raced", "quiet"}]]
      /\ freed \in [Cidr -> {"no", "raced", "quiet"}]
  OBVIOUS
<1> QED BY <1>3, <1>4, <1>5, <1>6, <1>7 DEF DaemonInv, TypeOK

\* The invariant of the daemon: the types, and handlers that have a target.
THEOREM DaemonInvariant == Spec => []DaemonInv
<1>1. Init => DaemonInv
  BY DaemonInvInit
<1>2. DaemonInv /\ [Next]_vars => DaemonInv'
  BY DaemonInvStep
<1> QED BY <1>1, <1>2, PTL DEF Spec

\* Every variable of the daemon keeps its type: no batch, boot, end or failed
\* store call leads a handler to a target that is not there.
THEOREM DaemonTypeCorrect == Spec => []TypeOK
<1>1. DaemonInv => TypeOK
  BY DEF DaemonInv
<1> QED BY <1>1, DaemonInvariant, PTL

\* Whatever tasks, handlers, faults and restarts interleave, the daemon's store
\* goes through steps of the ledger only.
THEOREM DaemonImplementsLedger == Spec => ImplementsLedger
<1>1. Init => LedgerInit
  BY DEF Init
<1>2. DaemonInv /\ [Next]_vars => [LedgerNext]_ledgerVars
  BY DaemonInvStep
<1> QED BY <1>1, <1>2, DaemonInvariant, PTL DEF Spec, LedgerSpec, ImplementsLedger

\* So its audit log explains its table.
THEOREM DaemonAudit == Spec => []AuditExplains
BY DaemonImplementsLedger, AuditExplainsTable, PTL DEF ImplementsLedger

-----------------------------------------------------------------------------
(* What is in flight. *)

\* Elements of the tail and of an extended queue.
LEMMA TailElement ==
  ASSUME NEW S, NEW s \in Seq(S), s # << >>, NEW i \in DOMAIN Tail(s)
  PROVE  \E j \in DOMAIN s : Tail(s)[i] = s[j]
<1>1. /\ Tail(s) \in Seq(S) /\ Len(Tail(s)) = Len(s) - 1
      /\ \A n \in 1 .. Len(Tail(s)) : Tail(s)[n] = s[n + 1]
  BY HeadTailProperties
<1>2. DOMAIN s = 1 .. Len(s) /\ DOMAIN Tail(s) = 1 .. Len(Tail(s)) /\ Len(s) \in Nat
  BY <1>1, LenProperties
<1> QED BY <1>1, <1>2

LEMMA HeadElement ==
  ASSUME NEW S, NEW s \in Seq(S), s # << >>
  PROVE  \E j \in DOMAIN s : Head(s) = s[j]
<1>1. Len(s) \in Nat /\ Len(s) # 0 /\ DOMAIN s = 1 .. Len(s)
  BY EmptySeq, LenProperties
<1> QED BY <1>1

LEMMA AppendElement ==
  ASSUME NEW S, NEW s \in Seq(S), NEW e \in S, NEW i \in DOMAIN Append(s, e)
  PROVE  Append(s, e)[i] = e \/ \E j \in DOMAIN s : Append(s, e)[i] = s[j]
<1>1. /\ Append(s, e) \in Seq(S) /\ Len(Append(s, e)) = Len(s) + 1
      /\ \A n \in 1 .. Len(s) : Append(s, e)[n] = s[n]
      /\ Append(s, e)[Len(s) + 1] = e
  BY AppendProperties
<1>2. /\ DOMAIN s = 1 .. Len(s) /\ DOMAIN Append(s, e) = 1 .. Len(Append(s, e))
      /\ Len(s) \in Nat
  BY <1>1, LenProperties
<1> QED BY <1>1, <1>2

\* What a step leaves in flight was in flight.
LEMMA NothingNewInFlight ==
  ASSUME NEW c \in Cidr,
         \A x \in Task : task'[x] # NoRecord /\ task'[x].cidr = c => InFlight(c),
         \A i \in DOMAIN queue' : queue'[i].cidr = c => InFlight(c),
         \A k \in Conn : \A i \in DOMAIN conn'[k].todo :
           conn'[k].pc \in Banning /\ conn'[k].todo[i] = c => InFlight(c)
  PROVE  InFlight(c)' => InFlight(c)
BY DEF InFlight, Banning

\* A handler puts nothing new in flight if what it has left was left before.
LEMMA ConnInFlight ==
  ASSUME DaemonInv, NEW k \in Conn, NEW next, NEW c \in Cidr,
         conn' = [conn EXCEPT ![k] = next], UNCHANGED <<task, queue>>,
         next.pc \in Banning =>
           /\ conn[k].pc \in Banning
           /\ \A i \in DOMAIN next.todo :
                \E j \in DOMAIN conn[k].todo : next.todo[i] = conn[k].todo[j]
  PROVE  InFlight(c)' => InFlight(c)
<1>1. conn \in [Conn -> ConnState]
  BY DEF DaemonInv, TypeOK
<1>2. \A x \in Task : task'[x] # NoRecord /\ task'[x].cidr = c => InFlight(c)
  BY DEF InFlight
<1>3. \A i \in DOMAIN queue' : queue'[i].cidr = c => InFlight(c)
  BY DEF InFlight
<1>4. ASSUME NEW h \in Conn, NEW i \in DOMAIN conn'[h].todo,
             conn'[h].pc \in Banning, conn'[h].todo[i] = c
      PROVE  InFlight(c)
  <2>1. CASE h = k
    <3>1. conn'[h] = next
      BY <1>1, <2>1
    <3>2. PICK j \in DOMAIN conn[k].todo : conn[k].todo[j] = c
      BY <1>4, <3>1
    <3> QED BY <1>4, <3>1, <3>2 DEF InFlight, Banning
  <2>2. CASE h # k
    <3>1. conn'[h] = conn[h]
      BY <1>1, <2>2
    <3> QED BY <1>4, <3>1 DEF InFlight, Banning
  <2> QED BY <2>1, <2>2
<1> QED BY <1>2, <1>3, <1>4, NothingNewInFlight

\* Going on to the next target leaves less in flight.
LEMMA NextTargetInFlight ==
  ASSUME DaemonInv, NEW k \in Conn, NEW pc, NEW c \in Cidr, UNCHANGED <<task, queue>>,
         \/ conn[k].pc \in Banning /\ pc = "banMemory"
         \/ pc = "unbanMemory",
         NextTarget(k, pc)
  PROVE  InFlight(c)' => InFlight(c)
<1>1. CASE Len(conn[k].todo) = 1
  <2>1. conn' = [conn EXCEPT ![k] = IdleConn] /\ IdleConn.pc \notin Banning
    BY <1>1 DEF NextTarget, IdleConn, Banning
  <2> QED BY <2>1, ConnInFlight
<1>2. CASE Len(conn[k].todo) # 1
  <2> DEFINE next == [pc |-> pc, todo |-> Tail(conn[k].todo), expires |-> conn[k].expires]
  <2>1. conn' = [conn EXCEPT ![k] = next]
    BY <1>2 DEF NextTarget
  <2>2. ASSUME next.pc \in Banning
        PROVE  /\ conn[k].pc \in Banning
               /\ \A i \in DOMAIN next.todo :
                    \E j \in DOMAIN conn[k].todo : next.todo[i] = conn[k].todo[j]
    <3>1. conn[k].pc \in Banning /\ next.todo = Tail(conn[k].todo)
      BY <2>2 DEF Banning
    <3>2. conn[k].todo \in Seq(Cidr) /\ conn[k].todo # << >>
      BY <3>1 DEF DaemonInv, HandlersOK, Ready
    <3> QED BY <3>1, <3>2, TailElement
  <2> HIDE DEF next
  <2> QED BY <2>1, <2>2, ConnInFlight
<1> QED BY <1>1, <1>2

\* Going from memory to the store changes nothing in flight.
LEMMA ToStoreInFlight ==
  ASSUME DaemonInv, NEW k \in Conn, NEW pc, NEW c \in Cidr, UNCHANGED <<task, queue>>,
         conn[k].pc \in Banning \/ pc \notin Banning,
         conn' = [conn EXCEPT ![k].pc = pc]
  PROVE  InFlight(c)' => InFlight(c)
<1>1. conn[k] \in ConnState
  BY DEF DaemonInv, TypeOK
<1> DEFINE next == [conn[k] EXCEPT !.pc = pc]
<1>2. conn' = [conn EXCEPT ![k] = next]
  OBVIOUS
<1>3. next.pc = pc /\ next.todo = conn[k].todo
  BY <1>1 DEF ConnState
<1> HIDE DEF next
<1> QED BY <1>2, <1>3, ConnInFlight

\* Who can be in flight: the CIDR a handler is about to ban, the one a task or
\* the queue will record.
LEMMA HeadsInFlight ==
  ASSUME DaemonInv
  PROVE  /\ \A k \in Conn : conn[k].pc \in Banning => InFlight(Head(conn[k].todo))
         /\ queue # << >> => InFlight(Head(queue).cidr)
<1>1. ASSUME NEW k \in Conn, conn[k].pc \in Banning
      PROVE  InFlight(Head(conn[k].todo))
  <2>1. conn[k].todo \in Seq(Cidr) /\ conn[k].todo # << >>
    BY <1>1 DEF DaemonInv, HandlersOK, Ready
  <2>2. \E j \in DOMAIN conn[k].todo : Head(conn[k].todo) = conn[k].todo[j]
    BY <2>1, HeadElement
  <2> QED BY <1>1, <2>2 DEF InFlight, Banning
<1>2. ASSUME queue # << >> PROVE InFlight(Head(queue).cidr)
  <2>1. \E j \in DOMAIN queue : Head(queue) = queue[j]
    BY <1>2, HeadElement DEF DaemonInv, TypeOK
  <2> QED BY <2>1 DEF InFlight
<1> QED BY <1>1, <1>2

-----------------------------------------------------------------------------
(* An unban that nothing raced is final. *)

UnbanInv == WatchHolds /\ FreedHolds

\* A step makes no promise, and whatever is clear and still promised stays clear.
Keeps ==
  /\ \A c \in Cidr : freed'[c] = "quiet" =>
       /\ freed[c] = "quiet"
       /\ Clear(c) /\ ~table[c].active => Clear(c)' /\ ~table'[c].active
  /\ \A k \in Conn, c \in Cidr : watch'[k][c] = "quiet" =>
       /\ watch[k][c] = "quiet" /\ conn'[k] = conn[k]
       /\ Clear(c) => Clear(c)'

LEMMA KeepsUnbanInv == ASSUME UnbanInv, Keeps PROVE UnbanInv'
BY DEF UnbanInv, Keeps, WatchHolds, FreedHolds

\* What a ban added in memory touches.
LEMMA AddBanEffect ==
  ASSUME TypeOK, NEW c \in Cidr, NEW d \in Cidr, c # d
  PROVE  /\ \A e : \A m \in AddBan(memory, d, e) : m[c] = memory[c]
         /\ \A m \in RecordAndCheck(memory, d, now) : m[c] = memory[c]
BY DEF AddBan, RecordAndCheck, TypeOK

\* Boots, ends and the clock.
LEMMA LifecycleKeeps ==
  ASSUME DaemonInv, UnbanInv, Tick \/ Lifecycle
  PROVE  UnbanInv'
<1> USE DEF flags, observed, ledgerVars
<1>1. CASE Tick
  BY <1>1, KeepsUnbanInv DEF Tick, Keeps, Clear, InFlight
<1>2. CASE BootRehydrate
  <2>1. PICK ok \in Outcomes : memory' = Rehydrated(ok)
    BY <1>2 DEF BootRehydrate
  <2>2. UNCHANGED <<task, queue, conn, table, watch, freed>>
    BY <1>2 DEF BootRehydrate
  <2>3. \A k \in Conn, c \in Cidr : watch[k][c] # "quiet"
    BY <1>2 DEF BootRehydrate, DaemonInv, HandlersOK, UnbanInv, WatchHolds
  <2>4. \A c \in Cidr : ~table[c].active => memory'[c] = 0
    BY <2>1 DEF Rehydrated, ActiveBans, Active
  <2>5. Keeps
    BY <2>2, <2>3, <2>4 DEF Keeps, Clear, InFlight
  <2> QED BY <2>5, KeepsUnbanInv
<1>3. CASE BootBind
  BY <1>3, KeepsUnbanInv DEF BootBind, Keeps, Clear, InFlight
<1>4. CASE BootFallback
  BY <1>4, KeepsUnbanInv DEF BootFallback, Keeps, Clear, InFlight
<1>5. CASE Stop
  <2>1. \A c \in Cidr : memory'[c] = 0
    BY <1>5 DEF Stop, NoBans
  <2>2. \A c \in Cidr : ~InFlight(c)'
    <3>1. /\ task' = [x \in Task |-> NoRecord] /\ queue' = << >>
          /\ conn' = [k \in Conn |-> IdleConn]
      BY <1>5 DEF Stop
    <3> QED BY <3>1 DEF InFlight, IdleConn
  <2>3. Keeps
    BY <1>5, <2>1, <2>2 DEF Keeps, Clear, Stop
  <2> QED BY <2>3, KeepsUnbanInv
<1> QED BY <1>1, <1>2, <1>3, <1>4, <1>5 DEF Lifecycle

\* A new infraction voids what was promised of its CIDR and touches no other.
LEMMA RequestKeeps ==
  ASSUME DaemonInv, UnbanInv, Requests
  PROVE  UnbanInv'
<1> USE DEF flags, observed, ledgerVars
<1>1. ASSUME NEW x \in Task, Notify(x) PROVE UnbanInv'
  <2>1. UNCHANGED <<memory, conn, table, watch, freed>>
    BY <1>1 DEF Notify
  <2>2. ASSUME NEW c \in Cidr PROVE InFlight(c)' => InFlight(c)
    <3>1. /\ task[x] \in BanRecord /\ queue \in Seq(BanRecord)
          /\ task' = [task EXCEPT ![x] = NoRecord] /\ queue' = Append(queue, task[x])
          /\ task \in [Task -> BanRecord \cup {NoRecord}]
      BY <1>1 DEF Notify, DaemonInv, TypeOK
    <3>2. ASSUME NEW i \in DOMAIN queue', queue'[i].cidr = c PROVE InFlight(c)
      <4>1. queue'[i] = task[x] \/ \E j \in DOMAIN queue : queue'[i] = queue[j]
        BY <3>1, AppendElement
      <4>2. task[x] # NoRecord
        BY <1>1 DEF Notify
      <4> QED BY <3>2, <4>1, <4>2 DEF InFlight
    <3>3. \A y \in Task : task'[y] # NoRecord /\ task'[y].cidr = c => InFlight(c)
      BY <3>1 DEF InFlight
    <3>4. \A k \in Conn : \A i \in DOMAIN conn'[k].todo :
            conn'[k].pc \in Banning /\ conn'[k].todo[i] = c => InFlight(c)
      BY <2>1 DEF InFlight, Banning
    <3> QED BY <3>2, <3>3, <3>4, NothingNewInFlight
  <2>3. Keeps
    BY <2>1, <2>2 DEF Keeps, Clear
  <2> QED BY <2>3, KeepsUnbanInv
<1>2. ASSUME NEW x \in Task, NEW a \in Addr, Strike(x, a) PROVE UnbanInv'
  <2>1. /\ HomeNet[a] \in Cidr /\ NewCause({HomeNet[a]})
        /\ UNCHANGED <<queue, conn, table>>
        /\ memory' \in RecordAndCheck(memory, HomeNet[a], now)
    BY <1>2, TableAssumption DEF Strike
  <2>2. ASSUME NEW c \in Cidr, c # HomeNet[a] PROVE Clear(c) => Clear(c)'
    <3>1. memory'[c] = memory[c]
      BY <2>1, <2>2, AddBanEffect DEF DaemonInv
    <3>2. \A y \in Task : task'[y] # NoRecord /\ task'[y].cidr = c => InFlight(c)
      <4>1. \/ task' = task
            \/ task' = [task EXCEPT ![x] = [cidr |-> HomeNet[a], expires |-> now + Day]]
        BY <1>2 DEF Strike
      <4>2. CASE task' = task
        BY <4>2 DEF InFlight
      <4>3. CASE task' = [task EXCEPT ![x] = [cidr |-> HomeNet[a], expires |-> now + Day]]
        BY <2>2, <4>3 DEF InFlight, DaemonInv, TypeOK
      <4> QED BY <4>1, <4>2, <4>3
    <3>3. InFlight(c)' => InFlight(c)
      BY <2>1, <3>2, NothingNewInFlight DEF InFlight, Banning
    <3> QED BY <3>1, <3>3 DEF Clear
  <2>3. Keeps
    BY <2>1, <2>2 DEF Keeps, NewCause
  <2> QED BY <2>3, KeepsUnbanInv
<1>3. ASSUME NEW a \in Addr, PerimeterDeny(a) PROVE UnbanInv'
  <2>1. /\ HomeNet[a] \in Cidr /\ NewCause({HomeNet[a]})
        /\ UNCHANGED <<task, queue, conn, table>>
        /\ memory' \in RecordAndCheck(memory, HomeNet[a], now)
    BY <1>3, TableAssumption DEF PerimeterDeny
  <2>2. ASSUME NEW c \in Cidr, c # HomeNet[a] PROVE Clear(c) => Clear(c)'
    <3>1. memory'[c] = memory[c]
      BY <2>1, <2>2, AddBanEffect DEF DaemonInv
    <3> QED BY <2>1, <3>1 DEF Clear, InFlight
  <2>3. Keeps
    BY <2>1, <2>2 DEF Keeps, NewCause
  <2> QED BY <2>3, KeepsUnbanInv
<1> QED BY <1>1, <1>2, <1>3 DEF Requests

\* The worker writes what was in flight, which nothing was promised of.
LEMMA WorkerKeeps ==
  ASSUME DaemonInv, UnbanInv, Worker
  PROVE  UnbanInv'
<1>1. /\ UNCHANGED <<memory, task, conn, watch, freed>>
      /\ queue \in Seq(BanRecord) /\ queue # << >> /\ queue' = Tail(queue)
  BY DEF Worker, DaemonInv, TypeOK
<1>2. Head(queue) \in BanRecord /\ InFlight(Head(queue).cidr)
  BY <1>1, HeadTail, HeadsInFlight
<1>3. ASSUME NEW c \in Cidr PROVE InFlight(c)' => InFlight(c)
  <2>1. ASSUME NEW i \in DOMAIN queue', queue'[i].cidr = c PROVE InFlight(c)
    <3>1. \E j \in DOMAIN queue : queue'[i] = queue[j]
      BY <1>1, <2>1, TailElement
    <3> QED BY <2>1, <3>1 DEF InFlight
  <2>2. \A x \in Task : task'[x] # NoRecord /\ task'[x].cidr = c => InFlight(c)
    BY <1>1 DEF InFlight
  <2>3. \A k \in Conn : \A i \in DOMAIN conn'[k].todo :
          conn'[k].pc \in Banning /\ conn'[k].todo[i] = c => InFlight(c)
    BY <1>1 DEF InFlight, Banning
  <2> QED BY <2>1, <2>2, <2>3, NothingNewInFlight
<1>4. ASSUME NEW c \in Cidr, Clear(c) PROVE table'[c] = table[c]
  <2>1. c # Head(queue).cidr
    BY <1>2, <1>4 DEF Clear
  <2>2. PICK ok \in Outcomes : StoreRecordBan(Head(queue).cidr, Head(queue).expires, ok)
    BY DEF Worker
  <2>3. table' = table \/ table' = Upsert(table, Head(queue).cidr, Head(queue).expires)
    BY <2>2 DEF StoreRecordBan, ledgerVars
  <2>4. Head(queue).cidr \in Cidr /\ table \in [Cidr -> Row]
    BY <1>2 DEF BanRecord, DaemonInv, TypeOK, LedgerTypeOK
  <2> QED BY <2>1, <2>3, <2>4, UpsertEffect
<1>5. Keeps
  BY <1>1, <1>3, <1>4 DEF Keeps, Clear
<1> QED BY <1>5, KeepsUnbanInv

\* A new command: a ban voids what was promised of its CIDRs, an unban begins
\* without a promise.
LEMMA OperatorKeeps ==
  ASSUME DaemonInv, UnbanInv, Operators
  PROVE  UnbanInv'
<1>1. ASSUME NEW k \in Conn, NEW pc, NEW todo, NEW expires, Receive(k, pc, todo, expires)
      PROVE  /\ UNCHANGED <<memory, task, queue, table>>
             /\ conn' = [conn EXCEPT ![k] = [pc |-> pc, todo |-> todo, expires |-> expires]]
             /\ \A j \in Conn, c \in Cidr : watch[j][c] = "quiet" => conn'[j] = conn[j]
  <2>1. /\ UNCHANGED <<memory, task, queue, table>>
        /\ conn' = [conn EXCEPT ![k] = [pc |-> pc, todo |-> todo, expires |-> expires]]
        /\ conn[k].pc = "idle"
    BY <1>1 DEF Receive, ledgerVars
  <2>2. ASSUME NEW j \in Conn, NEW c \in Cidr, watch[j][c] = "quiet"
        PROVE  conn'[j] = conn[j]
    <3>1. conn[j].pc # "idle"
      BY <2>2 DEF UnbanInv, WatchHolds
    <3>2. j # k
      BY <2>1, <3>1
    <3> QED BY <2>1, <3>2 DEF DaemonInv, TypeOK
  <2> QED BY <2>1, <2>2
<1>2. ASSUME NEW k \in Conn, NEW pc, pc \notin Banning, NEW todo, NEW expires,
             Receive(k, pc, todo, expires), UNCHANGED <<watch, freed>>
      PROVE  UnbanInv'
  <2> DEFINE next == [pc |-> pc, todo |-> todo, expires |-> expires]
  <2>1. /\ UNCHANGED <<memory, task, queue, table>>
        /\ conn' = [conn EXCEPT ![k] = next]
        /\ \A j \in Conn, c \in Cidr : watch[j][c] = "quiet" => conn'[j] = conn[j]
    BY <1>1, <1>2
  <2>2. next.pc \notin Banning
    BY <1>2
  <2> HIDE DEF next
  <2>3. \A c \in Cidr : InFlight(c)' => InFlight(c)
    BY <2>1, <2>2, ConnInFlight
  <2>4. Keeps
    BY <1>2, <2>1, <2>3 DEF Keeps, Clear
  <2> QED BY <2>4, KeepsUnbanInv
<1>3. ASSUME NEW k \in Conn, NEW targets \in Batch, ReceiveUnban(k, targets)
      PROVE  UnbanInv'
  <2>1. Receive(k, "unbanMemory", targets, 0) /\ UNCHANGED <<watch, freed>>
    BY <1>3 DEF ReceiveUnban
  <2> QED BY <1>2, <2>1 DEF Banning
<1>4. ASSUME NEW k \in Conn, ReceiveUnbanAll(k) PROVE UnbanInv'
  <2>1. Receive(k, "clearMemory", << >>, 0) /\ UNCHANGED <<watch, freed>>
    BY <1>4 DEF ReceiveUnbanAll
  <2> QED BY <1>2, <2>1 DEF Banning
<1>5. ASSUME NEW k \in Conn, NEW targets \in Batch, NEW exact \in BOOLEAN, NEW life \in Life,
             ReceiveBan(k, targets, exact, life)
      PROVE  UnbanInv'
  <2> DEFINE nets == [i \in DOMAIN targets |-> Resolve(targets[i], exact)]
             next == [pc |-> "banMemory", todo |-> nets, expires |-> now + life]
  <2>1. Receive(k, "banMemory", nets, now + life) /\ NewCause(Range(nets))
    BY <1>5 DEF ReceiveBan
  <2>2. /\ UNCHANGED <<memory, task, queue, table>>
        /\ conn' = [conn EXCEPT ![k] = next]
        /\ \A j \in Conn, c \in Cidr : watch[j][c] = "quiet" => conn'[j] = conn[j]
    BY <1>1, <2>1
  <2>3. next.todo = nets
    OBVIOUS
  <2> HIDE DEF next, nets
  <2>4. ASSUME NEW c \in Cidr, c \notin Range(nets) PROVE InFlight(c)' => InFlight(c)
    <3>1. \A x \in Task : task'[x] # NoRecord /\ task'[x].cidr = c => InFlight(c)
      BY <2>2 DEF InFlight
    <3>2. \A i \in DOMAIN queue' : queue'[i].cidr = c => InFlight(c)
      BY <2>2 DEF InFlight
    <3>3. ASSUME NEW h \in Conn, NEW i \in DOMAIN conn'[h].todo,
                 conn'[h].pc \in Banning, conn'[h].todo[i] = c
          PROVE  InFlight(c)
      <4>1. CASE h = k
        <5>1. conn'[h] = next
          BY <2>2, <4>1 DEF DaemonInv, TypeOK
        <5>2. c \in Range(nets)
          BY <2>3, <3>3, <5>1 DEF Range
        <5> QED BY <2>4, <5>2
      <4>2. CASE h # k
        <5>1. conn'[h] = conn[h]
          BY <2>2, <4>2 DEF DaemonInv, TypeOK
        <5> QED BY <3>3, <5>1 DEF InFlight, Banning
      <4> QED BY <4>1, <4>2
    <3> QED BY <3>1, <3>2, <3>3, NothingNewInFlight
  <2>5. Keeps
    BY <2>1, <2>2, <2>4 DEF Keeps, Clear, NewCause
  <2> QED BY <2>5, KeepsUnbanInv
<1> QED BY <1>3, <1>4, <1>5 DEF Operators

\* A ban under way is in flight, so nothing was promised of its CIDR.
LEMMA BanningKeeps ==
  ASSUME DaemonInv, UnbanInv, NEW k \in Conn, BanMemory(k) \/ BanStore(k)
  PROVE  UnbanInv'
<1> DEFINE d == Head(conn[k].todo)
<1>1. d \in Cidr /\ InFlight(d) /\ conn[k].pc \in Banning
  BY HandlerTarget, HeadsInFlight DEF BanMemory, BanStore, Banning
<1>2. UNCHANGED <<task, queue, watch, freed>>
  BY DEF BanMemory, BanStore, observed
<1>3. ASSUME NEW c \in Cidr PROVE InFlight(c)' => InFlight(c)
  <2>1. CASE BanMemory(k)
    BY <1>1, <1>2, <2>1, ToStoreInFlight DEF BanMemory
  <2>2. CASE BanStore(k)
    BY <1>1, <1>2, <2>2, NextTargetInFlight DEF BanStore
  <2> QED BY <2>1, <2>2
<1>4. ASSUME NEW c \in Cidr, Clear(c)
      PROVE  memory'[c] = memory[c] /\ table'[c] = table[c]
  <2>1. c # d
    BY <1>1, <1>4 DEF Clear
  <2>2. CASE BanMemory(k)
    BY <1>1, <2>1, <2>2, AddBanEffect DEF BanMemory, ledgerVars, DaemonInv
  <2>3. CASE BanStore(k)
    <3>1. table' = table \/ table' = Upsert(table, d, conn[k].expires)
      BY <2>3 DEF BanStore, StoreRecordBan, ledgerVars
    <3>2. table \in [Cidr -> Row] /\ memory' = memory
      BY <2>3 DEF DaemonInv, TypeOK, LedgerTypeOK, BanStore
    <3> QED BY <1>1, <2>1, <3>1, <3>2, UpsertEffect
  <2> QED BY <2>2, <2>3
<1>5. ASSUME NEW j \in Conn, NEW c \in Cidr, watch[j][c] = "quiet"
      PROVE  conn'[j] = conn[j]
  <2>1. conn[j].pc \notin Banning
    BY <1>5 DEF UnbanInv, WatchHolds, Banning
  <2>2. j # k
    BY <1>1, <2>1
  <2> QED BY <2>2 DEF BanMemory, BanStore, NextTarget, DaemonInv, TypeOK
<1>6. Keeps
  BY <1>2, <1>3, <1>4, <1>5 DEF Keeps, Clear
<1> QED BY <1>6, KeepsUnbanInv

\* The first step of an unban: memory of S is cleared, and what is promised of S
\* is promised of CIDRs with nothing in flight.
LEMMA WatchingKeeps ==
  ASSUME DaemonInv, UnbanInv, NEW k \in Conn, NEW S, NEW pc,
         Watch(k, S), UNCHANGED <<task, queue, table, freed>>,
         memory' = RemoveBans(memory, S),
         conn' = [conn EXCEPT ![k].pc = pc],
         \/ pc = "unbanStore" /\ S \subseteq Matches(Head(conn[k].todo))
         \/ pc = "clearStore"
  PROVE  UnbanInv'
<1>0. /\ conn \in [Conn -> ConnState] /\ memory \in [Cidr -> Nat]
      /\ watch \in [Conn -> [Cidr -> {"no", "raced", "quiet"}]]
  BY DEF DaemonInv, TypeOK
<1>1. conn'[k].pc = pc /\ conn'[k].todo = conn[k].todo
  BY <1>0 DEF ConnState
<1>2. ASSUME NEW c \in Cidr PROVE InFlight(c)' => InFlight(c)
  BY ToStoreInFlight DEF Banning
<1>3. \A c \in Cidr : memory'[c] = IF c \in S THEN 0 ELSE memory[c]
  BY DEF RemoveBans
<1>4. \A c \in Cidr : Clear(c) => Clear(c)'
  BY <1>2, <1>3 DEF Clear
<1>5. ASSUME NEW c \in Cidr, watch'[k][c] = "quiet" PROVE c \in S /\ ~InFlight(c)
  BY <1>0, <1>5 DEF Watch
<1>6. ASSUME NEW j \in Conn, j # k
      PROVE  conn'[j] = conn[j] /\ watch'[j] = watch[j]
  BY <1>0, <1>6 DEF Watch
<1>7. WatchHolds'
  <2> SUFFICES ASSUME NEW j \in Conn, NEW c \in Cidr, watch'[j][c] = "quiet"
               PROVE  /\ Clear(c)'
                      /\ \/ conn'[j].pc = "unbanStore" /\ c \in Matches(Head(conn'[j].todo))
                         \/ conn'[j].pc = "clearStore"
    BY DEF WatchHolds
  <2>1. CASE j = k
    <3>1. c \in S /\ ~InFlight(c)
      BY <1>5, <2>1
    <3>2. Clear(c)'
      BY <1>2, <1>3, <3>1 DEF Clear
    <3> QED BY <1>1, <2>1, <3>1, <3>2
  <2>2. CASE j # k
    BY <1>4, <1>6, <2>2 DEF UnbanInv, WatchHolds
  <2> QED BY <2>1, <2>2
<1>8. FreedHolds'
  BY <1>4 DEF UnbanInv, FreedHolds
<1> QED BY <1>7, <1>8 DEF UnbanInv

\* The second step of an unban: S, the active rows of what was cleared, is set
\* inactive, and the promise is given.
LEMMA FreeingKeeps ==
  ASSUME DaemonInv, UnbanInv, NEW k \in Conn, NEW S, NEW event, NEW ok \in BOOLEAN,
         Free(k, ok), StoreUnban(S, event, ok), UNCHANGED <<memory, task, queue>>,
         \A c \in Cidr : watch[k][c] = "quiet" /\ table[c].active => c \in S,
         \A c \in Cidr : InFlight(c)' => InFlight(c),
         \A j \in Conn : j # k => conn'[j] = conn[j]
  PROVE  UnbanInv'
<1>0. /\ table \in [Cidr -> Row]
      /\ watch \in [Conn -> [Cidr -> {"no", "raced", "quiet"}]]
      /\ freed \in [Cidr -> {"no", "raced", "quiet"}]
  BY DEF DaemonInv, TypeOK, LedgerTypeOK
<1>1. \A c \in Cidr : Clear(c) => Clear(c)'
  BY DEF Clear
<1>2. ASSUME NEW c \in Cidr, ~table[c].active PROVE ~table'[c].active
  <2>1. table' = table \/ table' = Deactivate(table, S)
    BY DEF StoreUnban, ledgerVars
  <2>2. CASE table' = table
    BY <1>2, <2>2
  <2>3. CASE table' = Deactivate(table, S)
    BY <1>0, <1>2, <2>3, DeactivateEffect
  <2> QED BY <2>1, <2>2, <2>3
<1>3. ASSUME ok, NEW c \in Cidr, watch[k][c] = "quiet" PROVE ~table'[c].active
  <2>1. table' = Deactivate(table, S)
    BY <1>3 DEF StoreUnban
  <2>2. CASE table[c].active
    BY <1>0, <1>3, <2>1, <2>2, DeactivateEffect
  <2>3. CASE ~table[c].active
    BY <1>2, <2>3
  <2> QED BY <2>2, <2>3
<1>4. WatchHolds'
  <2> SUFFICES ASSUME NEW j \in Conn, NEW c \in Cidr, watch'[j][c] = "quiet"
               PROVE  /\ Clear(c)'
                      /\ \/ conn'[j].pc = "unbanStore" /\ c \in Matches(Head(conn'[j].todo))
                         \/ conn'[j].pc = "clearStore"
    BY DEF WatchHolds
  <2>1. j # k
    BY <1>0 DEF Free
  <2>2. watch'[j] = watch[j] /\ conn'[j] = conn[j]
    BY <1>0, <2>1 DEF Free
  <2> QED BY <1>1, <2>2 DEF UnbanInv, WatchHolds
<1>5. FreedHolds'
  <2> SUFFICES ASSUME NEW c \in Cidr, freed'[c] = "quiet"
               PROVE  Clear(c)' /\ ~table'[c].active
    BY DEF FreedHolds
  <2>1. (ok /\ watch[k][c] = "quiet") \/ freed[c] = "quiet"
    BY DEF Free
  <2>2. CASE ok /\ watch[k][c] = "quiet"
    BY <1>1, <1>3, <2>2 DEF UnbanInv, WatchHolds
  <2>3. CASE freed[c] = "quiet"
    BY <1>1, <1>2, <2>3 DEF UnbanInv, FreedHolds
  <2> QED BY <2>1, <2>2, <2>3
<1> QED BY <1>4, <1>5 DEF UnbanInv

LEMMA HandlerKeeps ==
  ASSUME DaemonInv, UnbanInv, NEW k \in Conn, Handler(k)
  PROVE  UnbanInv'
<1>0. conn \in [Conn -> ConnState] /\ memory \in [Cidr -> Nat]
  BY DEF DaemonInv, TypeOK
<1>1. CASE BanMemory(k) \/ BanStore(k)
  BY <1>1, BanningKeeps
<1>2. CASE UnbanMemory(k)
  <2>1. /\ Watch(k, Matches(Head(conn[k].todo)))
        /\ memory' = RemoveBans(memory, Matches(Head(conn[k].todo)))
        /\ conn' = [conn EXCEPT ![k].pc = "unbanStore"]
        /\ UNCHANGED <<task, queue, table, freed>>
    BY <1>2 DEF UnbanMemory, ledgerVars
  <2> QED BY <2>1, WatchingKeeps
<1>3. CASE ClearMemory(k)
  <2>1. /\ Watch(k, Cidr)
        /\ conn' = [conn EXCEPT ![k].pc = "clearStore"]
        /\ UNCHANGED <<task, queue, table, freed>>
    BY <1>3 DEF ClearMemory, ledgerVars
  <2>2. memory' = RemoveBans(memory, Cidr)
    BY <1>3 DEF ClearMemory, RemoveBans, NoBans
  <2> QED BY <2>1, <2>2, WatchingKeeps
<1>4. CASE UnbanStore(k)
  <2> DEFINE S == SelectUnban(table, Head(conn[k].todo))
  <2>1. PICK ok \in Outcomes : StoreUnban(S, "unbanned", ok) /\ Free(k, ok)
    BY <1>4 DEF UnbanStore
  <2>2. ok \in BOOLEAN
    BY DaemonAssumption
  <2>3. conn[k].pc = "unbanStore" /\ NextTarget(k, "unbanMemory")
        /\ UNCHANGED <<memory, task, queue>>
    BY <1>4 DEF UnbanStore
  <2>4. \A c \in Cidr : watch[k][c] = "quiet" /\ table[c].active => c \in S
    BY <2>3 DEF UnbanInv, WatchHolds, SelectUnban, Active
  <2>5. \A c \in Cidr : InFlight(c)' => InFlight(c)
    BY <2>3, NextTargetInFlight
  <2>6. \A j \in Conn : j # k => conn'[j] = conn[j]
    BY <1>0, <2>3 DEF NextTarget
  <2> HIDE DEF S
  <2> QED BY <2>1, <2>2, <2>3, <2>4, <2>5, <2>6, FreeingKeeps
<1>5. CASE ClearStore(k)
  <2>1. PICK ok \in Outcomes : StoreUnban(Active(table), "unbanned_all", ok) /\ Free(k, ok)
    BY <1>5 DEF ClearStore
  <2>2. ok \in BOOLEAN
    BY DaemonAssumption
  <2>3. conn' = [conn EXCEPT ![k] = IdleConn] /\ UNCHANGED <<memory, task, queue>>
    BY <1>5 DEF ClearStore
  <2>4. \A c \in Cidr : table[c].active => c \in Active(table)
    BY DEF Active
  <2>5. IdleConn.pc \notin Banning
    BY DEF IdleConn, Banning
  <2>6. \A c \in Cidr : InFlight(c)' => InFlight(c)
    BY <2>3, <2>5, ConnInFlight
  <2>7. \A j \in Conn : j # k => conn'[j] = conn[j]
    BY <1>0, <2>3
  <2> QED BY <2>1, <2>2, <2>3, <2>4, <2>6, <2>7, FreeingKeeps
<1> QED BY <1>1, <1>2, <1>3, <1>4, <1>5 DEF Handler

\* An unban that ran while nothing about a CIDR was in flight is final, whatever
\* other commands, infractions of other CIDRs, faults, ends and boots follow,
\* until a new infraction or ban names the CIDR.
THEOREM QuietUnban == Spec => []QuietUnbanIsFinal
<1>1. Init => UnbanInv
  BY DEF Init, UnbanInv, WatchHolds, FreedHolds
<1>2. DaemonInv /\ UnbanInv /\ [Next]_vars => UnbanInv'
  <2> SUFFICES ASSUME DaemonInv, UnbanInv, [Next]_vars PROVE UnbanInv'
    OBVIOUS
  <2>1. CASE UNCHANGED vars
    BY <2>1 DEF vars, flags, observed, ledgerVars, UnbanInv, WatchHolds, FreedHolds,
                Clear, InFlight
  <2> QED BY <2>1, LifecycleKeeps, RequestKeeps, WorkerKeeps, OperatorKeeps, HandlerKeeps
          DEF Next
<1>3. UnbanInv => QuietUnbanIsFinal
  BY DEF UnbanInv, FreedHolds, Clear, QuietUnbanIsFinal
<1> QED BY <1>1, <1>2, <1>3, DaemonInvariant, PTL DEF Spec
=============================================================================
