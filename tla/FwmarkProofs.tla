---------------------------- MODULE FwmarkProofs ----------------------------
(***************************************************************************)
(* Theorems about the socket marker and the life cycle of the daemon       *)
(* (Fwmark and Daemon), for any number of processes, descriptors, marks,   *)
(* changes and kills.                                                      *)
(***************************************************************************)
EXTENDS Fwmark, FiniteSetTheorems, TLAPS

-----------------------------------------------------------------------------
(* The inductive invariant *)

(* Who detaches what: an event goroutine exists exactly when Run succeeded,  *)
(* it closes everything before it sends on done, and Stop waits for that.    *)
DaemonInv ==
    /\ loop = "off" <=> run # "ran"
    /\ run = "idle" => links = {}
    /\ loop \in {"sending", "over"} => links = {} /\ objs = "closed"
    /\ done => loop = "over"
    /\ stop \in {"replay", "returned"} => done

\* main wires the manager before Run and closes it after Stop.
ManagerInv ==
    /\ mgr = "attaching" => hooks \in {{}, {"sock_create"}, {"sock_create", "connect4"}}
    /\ mgr \in {"attached", "wired"} => hooks = Hook
    /\ stop # "no" => mgr \in {"wired", "closing"}
    /\ replay # {} => mgr = "wired"
    /\ stop = "returned" => replay = {} /\ scan.stage = "none"
    /\ mgr = "closing" => stop = "returned"

\* A PID has one process at a time; a process that has ended holds nothing.
ProcessInv ==
    /\ \A j, k \in Key : Alive(j) /\ Alive(k) /\ PidOf[j] = PidOf[k] => j = k
    /\ \A k \in Key : ~Alive(k) => fds[k] = NoSockets /\ call[k].op = "none"
    /\ \A k \in Key : call[k].op = "connect" => fds[k][call[k].fd] \in Socket

\* The leader has exited, with or without the other threads.
Ended(k) == life[k] \in {"leaderless", "gone"}

(* Map and mirror differ only where consumers have yet to be told, or will   *)
(* not be; tombstones are of leaders that exited; what is replayed is known. *)
MapInv ==
    \A k \in Key :
        /\ ~Behind(k) => mirror[k] = processes[k]
        /\ Dead \in {processes[k], mirror[k]} => Ended(k)
        /\ k \in replay => mirror[k] # Absent

\* Values of the map are to be applied, rather than cleared.
Serving == stop \in {"no", "waiting"}
Wired == mgr \in {"wired", "closing"}

(* The scan applies what the map says, or nothing once Stop replays.         *)
ScanInv ==
    scan.stage # "none" =>
        /\ scan.key \in Key /\ mirror[scan.key] # Absent
        /\ scan.value = Dead => Ended(scan.key)
        /\ Serving /\ ~Behind(scan.key) => scan.value = processes[scan.key]
        /\ stop = "replay" => scan.value \notin Mark
        /\ scan.stage # "match" => life[scan.key] # "unborn"
        /\ scan.stage \in {"list", "open"} /\ ~scan.swapped =>
             Holder(PidOf[scan.key]) \subseteq {scan.key}
        /\ scan.stage = "set" /\ scan.target # scan.key => life[scan.key] = "gone"
        /\ scan.stage = "set" /\ ~scan.swapped => scan.target = scan.key

\* The fwmark that a process ought to have now.
Due(k) == IF Serving THEN KernelFwmark(processes[k]) ELSE 0

\* A call that nothing has overtaken, and a socket that it is safe to trust.
CallOK(k) ==
    call[k].op # "none" /\ ~call[k].stale =>
        /\ processes[k] = Absent => call[k].mark = 0
        /\ Wired => call[k].mark = Due(k)

CallInv == \A k \in Key : CallOK(k)

\* Neither map nor mirror has an entry for k.
Unheard(k) == processes[k] = Absent /\ mirror[k] = Absent

\* The replay, or the scan, will still see to descriptor f of process k.
Queued(k, f) ==
    \/ k \in replay
    \/ scan.key = k /\ scan.stage \in {"match", "list"}
    \/ scan.key = k /\ scan.stage \in {"open", "set"} /\ f \in scan.todo

\* The properties do not speak of process k now.
Excused(k) == IF Serving THEN Behind(k) ELSE Unknown(k)

SocketOK(k, f) ==
    /\ Unheard(k) => fds[k][f].mark = 0
    /\ Wired => fds[k][f].mark = Due(k) \/ Queued(k, f) \/ Excused(k)

SocketInv ==
    \A k \in Key : life[k] = "running" => \A f \in Vouched(k) : SocketOK(k, f)

Inv == /\ DaemonInv /\ ManagerInv /\ ProcessInv /\ MapInv /\ ScanInv
       /\ CallInv /\ SocketInv

-----------------------------------------------------------------------------
(* Types *)

(* The upper half of a mark is a 32-bit number, for both translations.       *)
LEMMA FwmarkType ==
    /\ \A v \in Value : KernelFwmark(v) \in FwmarkValue
    /\ \A v : ScanFwmark(v) = KernelFwmark(v)
    /\ 0 \in FwmarkValue
  <1>1. ASSUME NEW m \in Mark PROVE m \div Half \in 0..Half - 1
    <2>1. Half \in Nat /\ Half > 0 /\ m \in Nat /\ m < Half * Half
      BY FwmarkAssumption
    <2> QED BY <2>1
  <1>2. 0 \in FwmarkValue
    BY FwmarkAssumption DEF FwmarkValue
  <1> QED BY <1>1, <1>2 DEF KernelFwmark, ScanFwmark, FromMark, FwmarkValue, Value

(* The other map values are not marks.                                       *)
LEMMA MarksAreNumbers ==
    Absent \notin Mark /\ Dead \notin Mark /\ Plain \notin Mark
  <1>1. Half * Half - 1 \in Int /\ Mark \subseteq 0..Half * Half - 1
    BY FwmarkAssumption
  <1>2. Mark \subseteq Nat
    BY <1>1
  <1> QED BY <1>2, FwmarkAssumption

(* The idle call, the idle scan and the empty descriptor table.              *)
LEMMA IdleTypes ==
    /\ NoCall \in Call /\ NoCall.op = "none"
    /\ NoScan \in Scan /\ NoScan.stage = "none" /\ NoScan.target \notin Key /\ NoScan.key = NoKey
    /\ NoScan.todo = {} /\ NoScan.swapped = FALSE
    /\ NoSockets \in [Fd -> Socket \cup {NoSocket}]
  <1>1. (CHOOSE f \in Fd : TRUE) \in Fd
    BY FwmarkAssumption
  <1> QED BY <1>1, FwmarkType, FwmarkAssumption DEF NoCall, Call, NoScan, Scan, NoSockets, Value

(* Overtaking calls changes no more than whether they are stale.             *)
LEMMA Overtaken ==
    ASSUME call \in [Key -> Call], NEW K, Overtake(K)
    PROVE  /\ call' \in [Key -> Call]
           /\ \A k \in Key :
                 /\ call'[k].op = call[k].op /\ call'[k].fd = call[k].fd
                 /\ call'[k].mark = call[k].mark
                 /\ k \in K /\ call[k].op # "none" => call'[k].stale
                 /\ ~call'[k].stale => ~call[k].stale
  <1>1. \A k \in Key : [call[k] EXCEPT !.stale = TRUE] \in Call
    BY DEF Call
  <1>2. call' \in [Key -> Call]
    BY <1>1 DEF Overtake
  <1>3. ASSUME NEW k \in Key
        PROVE  /\ call'[k].op = call[k].op /\ call'[k].fd = call[k].fd
               /\ call'[k].mark = call[k].mark
               /\ k \in K /\ call[k].op # "none" => call'[k].stale
               /\ ~call'[k].stale => ~call[k].stale
    <2>1. call[k] \in Call
      OBVIOUS
    <2>2. CASE k \in K /\ call[k].op # "none"
      <3>1. call'[k] = [call[k] EXCEPT !.stale = TRUE]
        BY <2>2 DEF Overtake
      <3> QED BY <2>1, <2>2, <3>1 DEF Call
    <2>3. CASE ~(k \in K /\ call[k].op # "none")
      <3>1. call'[k] = call[k]
        BY <2>3 DEF Overtake
      <3> QED BY <2>3, <3>1
    <2> QED BY <2>2, <2>3
  <1> QED BY <1>2, <1>3

(* The callback starts a scan, or does nothing.                              *)
LEMMA UpdateType ==
    ASSUME scan \in Scan, scan.stage = "set" <=> scan.target \in Key,
           NEW k \in Key, NEW v \in Value, ProcessUpdate(k, v)
    PROVE  scan' \in Scan /\ (scan'.stage = "set" <=> scan'.target \in Key)
  <1> DEFINE s == [NoScan EXCEPT !.stage = "match", !.key = k, !.value = v]
  <1>1. s \in Scan /\ s.stage = "match" /\ s.target = NoScan.target
    BY IdleTypes DEF Scan
  <1> QED BY <1>1, IdleTypes DEF ProcessUpdate

(* A step of the daemon keeps its types and what DaemonInv says.             *)
LEMMA DaemonSteps ==
    ASSUME DaemonTypeOK, DaemonInv,
           \/ RunStep \/ LoopStep \/ CallStep \/ StopReceives \/ StopReturn \/ Restart
           \/ UNCHANGED dvars
    PROVE  DaemonTypeOK' /\ DaemonInv'
  <1> USE DEF DaemonTypeOK, DaemonInv, Link, After
  <1>1. CASE RunStep
    BY <1>1 DEF RunStep, AttachLink, RunFails, OpenReader
  <1>2. CASE LoopStep
    <2>1. CASE LoopEnds
      BY <2>1 DEF LoopEnds
    <2>2. CASE LoopCloses
      BY <2>2 DEF LoopCloses, CloseAll, CloseReader
    <2>3. CASE LoopSends
      BY <2>3 DEF LoopSends
    <2> QED BY <1>2, <2>1, <2>2, <2>3 DEF LoopStep
  <1>3. CASE CallStep
    BY <1>3 DEF CallStep, CallRun, CallClose, CallStop, CallerFree, CloseAll, CloseReader
  <1>4. CASE StopReceives \/ StopReturn
    BY <1>4 DEF StopReceives, StopReturn
  <1>5. CASE Restart
    BY <1>5 DEF Restart
  <1>6. CASE UNCHANGED dvars
    BY <1>6 DEF dvars
  <1> QED BY <1>1, <1>2, <1>3, <1>4, <1>5, <1>6

-----------------------------------------------------------------------------
(* The type invariant is inductive relative to Inv *)

(* The fwmark that a hook finds is a 32-bit number.                          *)
LEMMA LookupType ==
    ASSUME processes \in [Key -> Value], NEW k \in Key, NEW h
    PROVE  Lookup(k, h) \in FwmarkValue
  BY FwmarkType DEF Lookup

(* A system call, from its hook to its effect, keeps the types.              *)
LEMMA CallTypes ==
    ASSUME TypeOK, ProcessInv, NEW k \in Key,
           \/ \E f \in Fd : \/ EnterSocket(k, f) \/ CloseSocket(k, f)
                            \/ \E h \in {"connect4", "connect6"} : EnterConnect(k, f, h)
                            \/ \E v \in Value : Accept(k, f, KernelFwmark(v))
           \/ SocketInstalled(k) \/ ConnectDone(k)
    PROVE  fds' \in [Key -> [Fd -> Socket \cup {NoSocket}]] /\ call' \in [Key -> Call]
  <1> USE DEF TypeOK
  <1>0. /\ fds[k] \in [Fd -> Socket \cup {NoSocket}] /\ call[k] \in Call
        /\ call[k].fd \in Fd /\ call[k].mark \in FwmarkValue
        /\ call[k].stale \in BOOLEAN
    BY DEF Call
  <1>1. ASSUME NEW op \in {"socket", "connect"}, NEW f \in Fd, NEW h, Enter(k, op, f, h)
        PROVE  fds' = fds /\ call' \in [Key -> Call]
    <2>1. [op |-> op, fd |-> f, mark |-> Lookup(k, h), stale |-> Outdated(h)] \in Call
      BY LookupType DEF Call, Outdated
    <2> QED BY <1>1, <2>1 DEF Enter
  <1>2. ASSUME NEW socket \in Socket \cup {NoSocket}, Leave(k, socket)
        PROVE  /\ fds' \in [Key -> [Fd -> Socket \cup {NoSocket}]]
               /\ call' \in [Key -> Call]
    BY <1>0, <1>2, IdleTypes DEF Leave
  <1>3. [mark |-> call[k].mark, sure |-> ~call[k].stale] \in Socket
    BY <1>0 DEF Socket
  <1>4. CASE SocketInstalled(k)
    BY <1>2, <1>3, <1>4 DEF SocketInstalled
  <1>5. CASE ConnectDone(k)
    <2>1. fds[k][call[k].fd] \in Socket
      BY <1>5 DEF ConnectDone, ProcessInv
    <2> QED BY <1>2, <1>3, <1>5, <2>1 DEF ConnectDone, Remarked
  <1>6. ASSUME NEW f \in Fd, NEW v \in Value, Accept(k, f, KernelFwmark(v))
        PROVE  /\ fds' \in [Key -> [Fd -> Socket \cup {NoSocket}]]
               /\ call' \in [Key -> Call]
    <2>1. [mark |-> KernelFwmark(v), sure |-> FALSE] \in Socket
      BY FwmarkType DEF Socket
    <2> QED BY <1>0, <1>6, <2>1 DEF Accept
  <1>7. ASSUME NEW f \in Fd, CloseSocket(k, f)
        PROVE  /\ fds' \in [Key -> [Fd -> Socket \cup {NoSocket}]]
               /\ call' \in [Key -> Call]
    BY <1>0, <1>7 DEF CloseSocket
  <1> QED BY <1>1, <1>4, <1>5, <1>6, <1>7 DEF EnterSocket, EnterConnect

(* Giving sockets up takes the confidence in them, and nothing else of them. *)
LEMMA GivenUp ==
    ASSUME TypeOK, NEW K, GiveUp(K)
    PROVE  /\ fds' \in [Key -> [Fd -> Socket \cup {NoSocket}]]
           /\ \A k \in Key : \A f \in Fd :
                 /\ k \notin K => fds'[k][f] = fds[k][f]
                 /\ fds[k][f] = NoSocket => fds'[k][f] = NoSocket
                 /\ fds[k][f] \in Socket => fds'[k][f] \in Socket
                 /\ fds[k][f] # NoSocket /\ k \in K => ~fds'[k][f].sure
  <1> DEFINE new(k, f) == IF k \in K /\ fds[k][f] # NoSocket
                          THEN [fds[k][f] EXCEPT !.sure = FALSE] ELSE fds[k][f]
  <1>1. ASSUME NEW k \in Key, NEW f \in Fd
        PROVE  /\ new(k, f) \in Socket \cup {NoSocket}
               /\ k \notin K => new(k, f) = fds[k][f]
               /\ fds[k][f] = NoSocket => new(k, f) = NoSocket
               /\ fds[k][f] \in Socket => new(k, f) \in Socket
               /\ fds[k][f] # NoSocket /\ k \in K => ~new(k, f).sure
    <2>1. fds[k][f] \in Socket \cup {NoSocket}
      BY DEF TypeOK
    <2> QED BY <2>1 DEF Socket
  <1>2. fds' = [k \in Key |-> [f \in Fd |-> new(k, f)]]
    BY DEF GiveUp
  <1> HIDE DEF new
  <1> QED BY <1>1, <1>2

(* A step of the scan keeps the types.                                       *)
LEMMA ScanTypes ==
    ASSUME TypeOK, ScanStep
    PROVE  /\ scan' \in Scan /\ (scan'.stage = "set" <=> scan'.target \in Key)
           /\ fds' \in [Key -> [Fd -> Socket \cup {NoSocket}]]
  <1> USE DEF TypeOK
  <1>1. CASE ScanMatch
    <2>1. [scan EXCEPT !.stage = "list"] \in Scan
      BY DEF Scan
    <2> QED BY <1>1, <2>1, IdleTypes DEF ScanMatch, Scan
  <1>2. CASE ScanList
    <2> DEFINE t == UNION {Open(k) : k \in Holder(PidOf[scan.key])}
    <2>1. t \subseteq Fd
      BY DEF Open
    <2>2. [scan EXCEPT !.stage = "open", !.todo = t] \in Scan
      BY <2>1 DEF Scan
    <2> QED BY <1>2, <2>2, IdleTypes DEF ScanList, Scan
  <1>3. CASE ScanOpen
    <2>1. ASSUME NEW k \in Key PROVE [scan EXCEPT !.stage = "set", !.target = k] \in Scan
      BY DEF Scan
    <2> QED BY <1>3, <2>1, IdleTypes DEF ScanOpen, Scan, Holder
  <1>4. CASE ScanDone
    BY <1>4, IdleTypes DEF ScanDone
  <1>5. CASE ScanRefused
    BY <1>5, GivenUp, IdleTypes DEF ScanRefused
  <1>6. ASSUME NEW f \in Fd, ScanSet(f) \/ ScanSkip(f)
        PROVE  /\ scan' \in Scan /\ (scan'.stage = "set" <=> scan'.target \in Key)
               /\ fds' \in [Key -> [Fd -> Socket \cup {NoSocket}]]
    <2>1. scan.target \in Key /\ fds[scan.target] \in [Fd -> Socket \cup {NoSocket}]
      BY <1>6 DEF ScanSet, ScanSkip
    <2>2. scan' \in Scan /\ scan'.stage = "set" /\ scan'.target = scan.target
      <3>1. scan' = [scan EXCEPT !.todo = @ \ {f}] /\ scan.stage = "set" /\ scan \in Scan
        BY <1>6 DEF ScanSet, ScanSkip
      <3> QED BY <3>1 DEF Scan
    <2>3. f \in Open(scan.target) => fds[scan.target][f] \in Socket
      BY <2>1 DEF Open
    <2>4. ScanFwmark(scan.value) \in FwmarkValue
      BY FwmarkType DEF Scan
    <2>5. ASSUME f \in Open(scan.target), NEW m \in FwmarkValue, NEW b \in BOOLEAN
          PROVE  [fds EXCEPT ![scan.target][f].mark = m, ![scan.target][f].sure = b]
                    \in [Key -> [Fd -> Socket \cup {NoSocket}]]
      BY <2>1, <2>3, <2>5 DEF Socket
    <2>6. f \in Open(scan.target) => [fds EXCEPT ![scan.target][f].sure = FALSE]
                    \in [Key -> [Fd -> Socket \cup {NoSocket}]]
      BY <2>1, <2>3 DEF Socket
    <2>7. fds' \in [Key -> [Fd -> Socket \cup {NoSocket}]]
      <3>1. CASE ScanSet(f)
        <4>1. (scan.target = scan.key) \in BOOLEAN
          OBVIOUS
        <4>2. [fds EXCEPT ![scan.target][f].mark = ScanFwmark(scan.value),
                          ![scan.target][f].sure = (scan.target = scan.key)]
                 \in [Key -> [Fd -> Socket \cup {NoSocket}]]
          BY <2>4, <2>5, <3>1, <4>1 DEF ScanSet
        <4> QED BY <3>1, <4>2 DEF ScanSet
      <3>2. CASE ScanSkip(f)
        BY <2>6, <3>2 DEF ScanSkip
      <3> QED BY <1>6, <3>1, <3>2
    <2> QED BY <2>1, <2>2, <2>7
  <1> QED BY <1>1, <1>2, <1>3, <1>4, <1>5, <1>6 DEF ScanStep

(* The programs queue or drop an event; a decision changes map and mirror to *)
(* values, or not at all.                                                    *)
LEMMA EventTypes ==
    ASSUME TypeOK, NEW k \in Key
    PROVE  /\ Submit(k) => owed' \in [Key -> Nat] /\ untold' \subseteq Key
           /\ ExitProgram(k) => /\ processes' \in [Key -> Value]
                                /\ owed' \in [Key -> Nat] /\ untold' \subseteq Key
  <1>1. Submit(k) => owed' \in [Key -> Nat] /\ untold' \subseteq Key
    <2>1. owed \in [Key -> Nat] /\ untold \subseteq Key
      BY DEF TypeOK
    <2>2. [owed EXCEPT ![k] = @ + 1] \in [Key -> Nat]
      BY <2>1
    <2> QED BY <2>1, <2>2 DEF Submit
  <1> QED BY <1>1 DEF TypeOK, ExitProgram, Value

(* An upsert, told or silent, keeps the types.                               *)
LEMMA UpsertTypes ==
    ASSUME TypeOK, NEW k \in Key, NEW v \in Value, Upsert(k, v) \/ UpsertSilently(k, v)
    PROVE  /\ processes' \in [Key -> Value] /\ mirror' \in [Key -> Value]
           /\ untold' \subseteq Key
           /\ scan' \in Scan /\ (scan'.stage = "set" <=> scan'.target \in Key)
  <1>1. scan' \in Scan /\ (scan'.stage = "set" <=> scan'.target \in Key)
    BY UpdateType DEF Upsert, UpsertSilently, TypeOK
  <1> QED BY <1>1 DEF Upsert, UpsertSilently, Put, PutFails, TypeOK

(* A change of the map, by the daemon or by a program, keeps the types.      *)
LEMMA DecisionTypes ==
    ASSUME TypeOK, DecisionStep
    PROVE  /\ processes' \in [Key -> Value] /\ mirror' \in [Key -> Value]
           /\ owed' \in [Key -> Nat] /\ untold' \subseteq Key /\ call' \in [Key -> Call]
           /\ scan' \in Scan /\ (scan'.stage = "set" <=> scan'.target \in Key)
           /\ changes' \in 0..MaxChanges
  <1> DEFINE Goal == /\ processes' \in [Key -> Value] /\ mirror' \in [Key -> Value]
                     /\ owed' \in [Key -> Nat] /\ untold' \subseteq Key
                     /\ call' \in [Key -> Call]
                     /\ scan' \in Scan /\ (scan'.stage = "set" <=> scan'.target \in Key)
                     /\ changes' \in 0..MaxChanges
  <1>0. \A v \in Mark \cup {Plain, Dead} : v \in Value
    BY DEF Value
  <1>1. ASSUME NEW K, Overtake(K) PROVE call' \in [Key -> Call]
    BY <1>1, Overtaken DEF TypeOK
  <1>2. Count => changes' \in 0..MaxChanges
    BY FwmarkAssumption DEF Count, TypeOK
  <1>3. ASSUME NEW k \in Key, NEW v \in Mark \cup {Plain, Dead}, Decide(k, v) PROVE Goal
    BY <1>0, <1>1, <1>2, <1>3, UpsertTypes DEF Decide, TypeOK
  <1>4. ASSUME NEW k \in Key, NEW v \in Mark \cup {Plain, Dead}, HandleEvent(k, v) PROVE Goal
    <2>1. owed' \in [Key -> Nat]
      BY <1>4 DEF HandleEvent, TypeOK
    <2> QED BY <1>0, <1>1, <1>4, <2>1, UpsertTypes DEF HandleEvent, TypeOK
  <1>5. ASSUME NEW k \in Key, NEW v \in Mark \cup {Plain}, ProgramWrites(k, v) PROVE Goal
    <2>1. processes' \in [Key -> Value]
      BY <1>0, <1>5 DEF ProgramWrites, TypeOK
    <2> QED BY <1>1, <1>2, <1>5, <2>1, EventTypes DEF ProgramWrites, TypeOK
  <1>6. ASSUME NEW k \in Key, Refresh(k) PROVE Goal
    <2>1. processes' \in [Key -> Value] /\ mirror' \in [Key -> Value]
      BY <1>6 DEF Refresh, TypeOK
    <2> QED BY <1>1, <1>6, <2>1 DEF Refresh, TypeOK
  <1> QED BY <1>3, <1>4, <1>5, <1>6 DEF DecisionStep, ForkWrites, ExecWrites

(* NewManager attaches in order and stops when all three are attached.       *)
LEMMA AttachOrder ==
    ASSUME ManagerInv, AttachHook
    PROVE  /\ hooks' \in {{"sock_create"}, {"sock_create", "connect4"}, Hook}
           /\ hooks' = Hook <=> hooks = {"sock_create", "connect4"}
  <1>1. CASE hooks = {}
    <2>1. Cardinality(hooks) = 0
      BY <1>1, FS_EmptySet
    <2> QED BY <1>1, <2>1 DEF AttachHook, Hooks, Hook
  <1>2. CASE hooks = {"sock_create"}
    <2>1. Cardinality(hooks) = 1
      BY <1>2, FS_Singleton
    <2> QED BY <1>2, <2>1 DEF AttachHook, Hooks, Hook
  <1>3. CASE hooks = {"sock_create", "connect4"}
    <2>1. IsFiniteSet({"sock_create"}) /\ Cardinality({"sock_create"}) = 1
      BY FS_Singleton
    <2>2. Cardinality({"sock_create"} \cup {"connect4"}) = 2
      BY <2>1, FS_AddElement
    <2>3. Cardinality(hooks) = 2
      <3>1. hooks = {"sock_create"} \cup {"connect4"}
        BY <1>3
      <3> QED BY <2>2, <3>1
    <2> QED BY <1>3, <2>3 DEF AttachHook, Hooks, Hook
  <1> QED BY <1>1, <1>2, <1>3 DEF AttachHook, ManagerInv

(* Setting up, replaying and taking down keep the types.                     *)
LEMMA ManagerTypes ==
    ASSUME TypeOK, ManagerInv, ManagerStep \/ ReplayStep \/ StopReplays
    PROVE  /\ call' \in [Key -> Call] /\ hooks' \subseteq Hook
           /\ mgr' \in {"attaching", "attached", "wired", "closing"}
           /\ replay' \subseteq Key
           /\ scan' \in Scan /\ (scan'.stage = "set" <=> scan'.target \in Key)
  <1> USE DEF TypeOK
  <1>1. CASE AttachHook
    BY <1>1, AttachOrder DEF AttachHook, Hook
  <1>2. CASE AttachHookFails
    BY <1>2 DEF AttachHookFails
  <1>3. CASE Wire
    BY <1>3, Overtaken DEF Wire
  <1>4. CASE CloseHook
    BY <1>4 DEF CloseHook
  <1>5. ASSUME NEW k \in Key, ReplayNext(k)
        PROVE  /\ call' \in [Key -> Call] /\ hooks' \subseteq Hook
               /\ mgr' \in {"attaching", "attached", "wired", "closing"}
               /\ replay' \subseteq Key
               /\ scan' \in Scan /\ (scan'.stage = "set" <=> scan'.target \in Key)
    <2>1. Replayed(mirror[k]) \in Value
      BY DEF Replayed, Value
    <2>2. scan' \in Scan /\ (scan'.stage = "set" <=> scan'.target \in Key)
      BY <1>5, <2>1, UpdateType DEF ReplayNext
    <2> QED BY <1>5, <2>2 DEF ReplayNext
  <1>6. CASE StopReplays
    BY <1>6, Overtaken DEF StopReplays
  <1> QED BY <1>1, <1>2, <1>3, <1>4, <1>5, <1>6 DEF ManagerStep, ReplayStep

(* Every step keeps the types.                                               *)
LEMMA TypeStep ==
    ASSUME TypeOK, Inv, [Next]_vars
    PROVE  TypeOK'
  <1> USE DEF TypeOK
  <1>1. ASSUME NEW k \in Key, Start(k) PROVE TypeOK'
    <2>1. [scan EXCEPT !.swapped = TRUE] \in Scan
      BY DEF Scan
    <2>2. scan' \in Scan /\ scan'.stage = scan.stage /\ scan'.target = scan.target
      BY <1>1, <2>1 DEF Start, Scan
    <2> QED BY <1>1, <2>2, DaemonSteps DEF Start, Inv, maps
  <1>2. ASSUME NEW k \in Key, Exit(k) \/ LeaderExit(k) PROVE TypeOK'
    <2>1. processes' \in [Key -> Value] /\ owed' \in [Key -> Nat] /\ untold' \subseteq Key
      BY <1>2, EventTypes DEF Exit, LeaderExit
    <2>2. call' \in [Key -> Call]
      <3>1. CASE Exit(k)
        BY <3>1, IdleTypes DEF Exit
      <3>2. CASE LeaderExit(k)
        BY <3>2, Overtaken DEF LeaderExit
      <3> QED BY <1>2, <3>1, <3>2
    <2>3. fds' \in [Key -> [Fd -> Socket \cup {NoSocket}]]
      <3>1. CASE Exit(k)
        BY <3>1, IdleTypes DEF Exit
      <3>2. CASE LeaderExit(k)
        BY <3>2 DEF LeaderExit
      <3> QED BY <1>2, <3>1, <3>2
    <2>4. life' \in [Key -> {"unborn", "running", "leaderless", "gone"}]
      BY <1>2 DEF Exit, LeaderExit
    <2>5. UNCHANGED <<dvars, mirror, hooks, mgr, replay, scan, changes>>
      BY <1>2 DEF Exit, LeaderExit
    <2> QED BY <2>1, <2>2, <2>3, <2>4, <2>5, DaemonSteps DEF Inv
  <1>3. ASSUME NEW k \in Key,
               \/ \E f \in Fd : \/ EnterSocket(k, f) \/ CloseSocket(k, f)
                                \/ \E h \in {"connect4", "connect6"} : EnterConnect(k, f, h)
                                \/ \E v \in Value : Accept(k, f, KernelFwmark(v))
               \/ SocketInstalled(k) \/ ConnectDone(k)
        PROVE  TypeOK'
    <2>1. fds' \in [Key -> [Fd -> Socket \cup {NoSocket}]] /\ call' \in [Key -> Call]
      BY <1>3, CallTypes DEF Inv
    <2>2. UNCHANGED <<dvars, life, maps, hooks, mgr, replay, scan, changes>>
      BY <1>3 DEF EnterSocket, EnterConnect, Enter, CloseSocket, SocketInstalled,
                  ConnectDone, Leave, Accept
    <2> QED BY <2>1, <2>2, DaemonSteps DEF Inv, maps
  <1>4. CASE ScanStep
    <2>1. UNCHANGED <<dvars, life, maps, call, hooks, mgr, replay, changes>>
      BY <1>4 DEF ScanStep, ScanMatch, ScanList, ScanOpen, ScanRefused, ScanSet, ScanSkip, ScanDone,
                  ScanFrame
    <2> QED BY <1>4, <2>1, ScanTypes, DaemonSteps DEF Inv, maps
  <1>5. CASE DecisionStep
    <2>1. UNCHANGED <<dvars, life, fds, hooks, mgr, replay>>
      BY <1>5 DEF DecisionStep, HandleEvent, Decide, ForkWrites, ExecWrites, ProgramWrites, Refresh
    <2> QED BY <1>5, <2>1, DecisionTypes, DaemonSteps DEF Inv
  <1>6. CASE ManagerStep \/ ReplayStep \/ StopReplays
    <2>1. UNCHANGED <<life, maps, fds, changes>>
      BY <1>6 DEF ManagerStep, AttachHook, AttachHookFails, Wire, CloseHook, ReplayStep,
                  ReplayNext, StopReplays, ManagerFrame
    <2>2. StopReceives \/ UNCHANGED dvars
      BY <1>6 DEF ManagerStep, AttachHook, AttachHookFails, Wire, CloseHook, ReplayStep,
                  ReplayNext, StopReplays, ManagerFrame
    <2> QED BY <1>6, <2>1, <2>2, ManagerTypes, DaemonSteps DEF Inv, maps
  <1>7. CASE DaemonStep
    BY <1>7, DaemonSteps DEF DaemonStep, fvars, maps, Inv
  <1>8. CASE Crash
    <2>1. call' \in [Key -> Call]
      BY <1>8, Overtaken DEF Crash
    <2>2. fds' \in [Key -> [Fd -> Socket \cup {NoSocket}]]
      BY <1>8, GivenUp DEF Crash
    <2>3. changes' \in 0..MaxChanges
      BY <1>8, FwmarkAssumption DEF Crash, Count, Inv, TypeOK
    <2>4. DaemonTypeOK'
      BY <1>8, DaemonSteps DEF Crash, Inv
    <2>5. scan' \in Scan /\ (scan'.stage = "set" <=> scan'.target \in Key)
      BY <1>8, IdleTypes DEF Crash
    <2> QED BY <1>8, <2>1, <2>2, <2>3, <2>4, <2>5 DEF Crash, Value
  <1>9. CASE UNCHANGED vars
    BY <1>9, DaemonSteps DEF vars, fvars, maps, Inv
  <1> QED BY <1>1, <1>2, <1>3, <1>4, <1>5, <1>6, <1>7, <1>8, <1>9 DEF Next, ProcessStep

-----------------------------------------------------------------------------
(* The daemon, the manager and the processes *)

(* All that a step may do to the daemon.                                     *)
LEMMA DaemonView ==
    ASSUME [Next]_vars
    PROVE  \/ RunStep \/ LoopStep \/ CallStep \/ StopReceives \/ StopReturn \/ Restart
           \/ UNCHANGED dvars
  <1>1. CASE ProcessStep
    BY <1>1 DEF ProcessStep, Start, LeaderExit, Exit, EnterSocket, EnterConnect, Enter, Accept, CloseSocket,
                SocketInstalled, ConnectDone, Leave
  <1>2. CASE ScanStep
    BY <1>2 DEF ScanStep, ScanMatch, ScanList, ScanOpen, ScanRefused, ScanSet, ScanSkip, ScanDone,
                ScanFrame
  <1>3. CASE DecisionStep
    BY <1>3 DEF DecisionStep, HandleEvent, Decide, ForkWrites, ExecWrites, ProgramWrites,
                Refresh
  <1>4. CASE ManagerStep \/ ReplayStep
    BY <1>4 DEF ManagerStep, AttachHook, AttachHookFails, Wire, CloseHook, ReplayStep,
                ReplayNext, ManagerFrame
  <1> QED BY <1>1, <1>2, <1>3, <1>4 DEF Next, StopReplays, DaemonStep, Crash, vars

(* Once Stop replays, the event goroutine is over and everything closed, so  *)
(* neither map nor mirror changes any more.                                  *)
LEMMA StopFreezes ==
    ASSUME DaemonTypeOK, DaemonInv, loop = "reading" \/ links # {} \/ objs = "open"
    PROVE  Serving
  BY DEF DaemonTypeOK, DaemonInv, Serving

(* Decisions are made while the daemon serves, and the manager is not closed *)
(* then.                                                                     *)
LEMMA DecisionServes ==
    ASSUME TypeOK, Inv, DecisionStep
    PROVE  Serving /\ mgr # "closing" /\ UNCHANGED <<dvars, life, fds, hooks, mgr, replay>>
  <1>1. Serving
    BY StopFreezes DEF TypeOK, Inv, DecisionStep, Decide, HandleEvent, ForkWrites, ExecWrites,
                       Refresh, Serving
  <1>2. UNCHANGED <<dvars, life, fds, hooks, mgr, replay>>
    BY DEF DecisionStep, Decide, HandleEvent, ForkWrites, ExecWrites, ProgramWrites, Refresh
  <1> QED BY <1>1, <1>2 DEF Inv, ManagerInv, Serving

(* Every step keeps the order of main: attach, wire, run, stop, close.       *)
LEMMA ManagerOrder ==
    ASSUME TypeOK, Inv, [Next]_vars
    PROVE  ManagerInv'
  <1> USE DEF ManagerInv, Inv
  <1>1. CASE ProcessStep
    <2>1. scan'.stage = scan.stage /\ UNCHANGED <<hooks, mgr, replay, stop>>
      BY <1>1 DEF ProcessStep, Start, LeaderExit, Exit, EnterSocket, EnterConnect, Enter, Accept, CloseSocket,
                  SocketInstalled, ConnectDone, Leave, dvars, TypeOK, Scan
    <2> QED BY <2>1
  <1>2. CASE ScanStep
    <2>1. scan.stage # "none" /\ UNCHANGED <<hooks, mgr, replay, stop>>
      BY <1>2 DEF ScanStep, ScanMatch, ScanList, ScanOpen, ScanRefused, ScanSet, ScanSkip, ScanDone,
                ScanFrame,
                  dvars
    <2> QED BY <2>1
  <1>3. CASE DecisionStep
    BY <1>3, DecisionServes DEF Serving, dvars
  <1>4. CASE AttachHook
    BY <1>4, AttachOrder DEF AttachHook, ManagerFrame, dvars
  <1>5. CASE AttachHookFails \/ Wire \/ CloseHook
    BY <1>5 DEF AttachHookFails, Wire, CloseHook, MutexFree, ManagerFrame, dvars
  <1>6. ASSUME NEW k \in Key, ReplayNext(k) PROVE ManagerInv'
    BY <1>6 DEF ReplayNext, ManagerFrame, dvars
  <1>7. CASE StopReplays
    BY <1>7 DEF StopReplays, StopReceives
  <1>8. CASE DaemonStep
    BY <1>8 DEF DaemonStep, fvars, RunStep, AttachLink, RunFails, OpenReader, LoopStep, LoopEnds,
                LoopCloses, LoopSends, CallStep, CallRun, CallClose, CallStop, StopReturn, MutexFree
  <1>9. CASE Crash
    BY <1>9, IdleTypes DEF Crash, Restart
  <1>10. CASE UNCHANGED vars
    BY <1>10 DEF vars, dvars, fvars
  <1> QED BY <1>1, <1>2, <1>3, <1>4, <1>5, <1>6, <1>7, <1>8, <1>9, <1>10
          DEF Next, ManagerStep, ReplayStep

(* What a scan does to one descriptor of the process that it has open.       *)
LEMMA ScanSetEffect ==
    ASSUME TypeOK, NEW f \in Fd, ScanSet(f)
    PROVE  /\ scan.target \in Key /\ fds[scan.target][f] # NoSocket
           /\ \A k \in Key : \A g \in Fd : k # scan.target \/ g # f => fds'[k][g] = fds[k][g]
           /\ fds'[scan.target][f] \in Socket
           /\ fds'[scan.target][f].mark = KernelFwmark(scan.value)
           /\ fds'[scan.target][f].sure = (scan.target = scan.key)
  <1>1. /\ scan.target \in Key /\ fds[scan.target][f] \in Socket
        /\ fds[scan.target][f] # NoSocket
    BY DEF ScanSet, Open, TypeOK
  <1>2. /\ ScanFwmark(scan.value) \in FwmarkValue
        /\ ScanFwmark(scan.value) = KernelFwmark(scan.value)
    BY FwmarkType DEF Scan, TypeOK
  <1>3. PICK t \in Key : t = scan.target
    BY <1>1
  <1>4. PICK m \in FwmarkValue : m = ScanFwmark(scan.value)
    BY <1>2
  <1>5. PICK b \in BOOLEAN : b = (t = scan.key)
    OBVIOUS
  <1>6. fds' = [fds EXCEPT ![t][f].mark = m, ![t][f].sure = b]
    <2>1. fds' = [fds EXCEPT ![t][f].mark = m, ![t][f].sure = (t = scan.key)]
      BY <1>3, <1>4, Zenon DEF ScanSet
    <2>2. CASE t = scan.key
      <3>1. b = TRUE /\ (t = scan.key) = TRUE
        BY <1>5, <2>2
      <3> QED BY <2>1, <3>1, Zenon
    <2>3. CASE t # scan.key
      <3>1. b = FALSE /\ (t = scan.key) = FALSE
        BY <1>5, <2>3
      <3> QED BY <2>1, <3>1, Zenon
    <2> QED BY <2>2, <2>3
  <1>7. /\ \A k \in Key : \A g \in Fd : k # t \/ g # f => fds'[k][g] = fds[k][g]
        /\ fds'[t][f] \in Socket /\ fds'[t][f].mark = m /\ fds'[t][f].sure = b
    <2>1. fds \in [Key -> [Fd -> Socket \cup {NoSocket}]]
      BY DEF TypeOK
    <2>2. fds[t][f] \in Socket
      BY <1>1, <1>3
    <2> QED BY <1>6, <2>1, <2>2 DEF Socket
  <1> QED BY <1>1, <1>2, <1>3, <1>4, <1>5, <1>7

(* A scan that fails on a descriptor leaves its mark alone and gives it up.  *)
LEMMA ScanSkipEffect ==
    ASSUME TypeOK, NEW f \in Fd, ScanSkip(f)
    PROVE  /\ scan.target \in Key
           /\ \A k \in Key : \A g \in Fd : k # scan.target \/ g # f => fds'[k][g] = fds[k][g]
           /\ fds[scan.target][f] = NoSocket => fds'[scan.target][f] = NoSocket
           /\ fds[scan.target][f] # NoSocket =>
                 fds'[scan.target][f] \in Socket /\ ~fds'[scan.target][f].sure
  <1> USE DEF TypeOK
  <1> DEFINE t == scan.target
             old == fds[t][f]
             new == [old EXCEPT !.sure = FALSE]
  <1>1. t \in Key /\ old \in Socket \cup {NoSocket}
    BY DEF ScanSkip
  <1>2. CASE old # NoSocket
    <2>1. new \in Socket /\ ~new.sure
      BY <1>1, <1>2 DEF Socket
    <2>2. fds' = [fds EXCEPT ![t] = [fds[t] EXCEPT ![f] = new]]
      BY <1>1, <1>2 DEF ScanSkip, Open
    <2>3. \A k \in Key : \A g \in Fd : k # t \/ g # f => fds'[k][g] = fds[k][g]
      BY <1>1, <2>2
    <2>4. fds'[t][f] = new
      BY <1>1, <2>2
    <2> QED BY <1>1, <1>2, <2>1, <2>3, <2>4
  <1>3. CASE old = NoSocket
    BY <1>1, <1>3 DEF ScanSkip, Open
  <1> QED BY <1>2, <1>3

(* Every step keeps PIDs unique and the dead without sockets.                *)
LEMMA ProcessOrder ==
    ASSUME TypeOK, TypeOK', Inv, [Next]_vars
    PROVE  ProcessInv'
  <1> USE DEF ProcessInv, Inv
  <1>0. ASSUME UNCHANGED fds, \A k \in Key : Alive(k)' = Alive(k),
               \A k \in Key : call'[k].op = call[k].op /\ call'[k].fd = call[k].fd
        PROVE  ProcessInv'
    BY <1>0
  <1>a. UNCHANGED life => \A k \in Key : Alive(k)' = Alive(k)
    BY DEF Alive
  <1>1. ASSUME NEW k \in Key, Start(k) PROVE ProcessInv'
    BY <1>1 DEF Start, Holder, Alive, TypeOK
  <1>2. ASSUME NEW k \in Key, Exit(k) PROVE ProcessInv'
    BY <1>2, IdleTypes DEF Exit, Alive, TypeOK
  <1>b. ASSUME NEW k \in Key, LeaderExit(k) PROVE ProcessInv'
    <2>1. \A j \in Key : Alive(j)' = Alive(j)
      BY <1>b DEF LeaderExit, Alive, TypeOK
    <2>2. call \in [Key -> Call] /\ Overtake({k}) /\ UNCHANGED fds
      BY <1>b DEF LeaderExit, TypeOK
    <2> QED BY <1>0, <2>1, <2>2, Overtaken
  <1>3. ASSUME NEW k \in Key, NEW f \in Fd, NEW op, NEW h, Enter(k, op, f, h),
               op = "connect" => fds[k][f] # NoSocket
        PROVE  ProcessInv'
    BY <1>3, <1>a DEF Enter, TypeOK
  <1>4. ASSUME NEW k \in Key, NEW socket, Leave(k, socket), call[k].op # "none"
        PROVE  ProcessInv'
    BY <1>4, <1>a, IdleTypes DEF Leave, TypeOK
  <1>5. ASSUME NEW k \in Key, NEW f \in Fd, CloseSocket(k, f) PROVE ProcessInv'
    <2>1. \A g \in Fd : NoSockets[g] = NoSocket
      BY DEF NoSockets
    <2>2. Alive(k)
      BY <1>5, <2>1 DEF CloseSocket, TypeOK
    <2> QED BY <1>5, <1>a, <2>2 DEF CloseSocket, TypeOK
  <1>c. ASSUME NEW k \in Key, NEW f \in Fd, NEW m, Accept(k, f, m) PROVE ProcessInv'
    BY <1>a, <1>c DEF Accept, TypeOK
  <1>6. CASE ProcessStep
    BY <1>1, <1>2, <1>3, <1>4, <1>5, <1>6, <1>b, <1>c
       DEF ProcessStep, EnterSocket, EnterConnect, SocketInstalled, ConnectDone
  <1>7. CASE ScanStep
    <2>0. UNCHANGED <<life, call>>
      BY <1>7 DEF ScanStep, ScanMatch, ScanList, ScanOpen, ScanRefused, ScanSet, ScanSkip, ScanDone,
                  ScanFrame
    <2>1. CASE fds' = fds
      BY <1>0, <1>a, <2>0, <2>1
    <2>2. ASSUME \A k \in Key : \A g \in Fd :
                    /\ fds[k][g] = NoSocket => fds'[k][g] = NoSocket
                    /\ fds[k][g] \in Socket => fds'[k][g] \in Socket
          PROVE  ProcessInv'
      <3>1. ASSUME NEW k \in Key, fds[k] = NoSockets PROVE fds'[k] = NoSockets
        BY <2>2, <3>1 DEF NoSockets, TypeOK
      <3>2. \A k \in Key : call[k].fd \in Fd
        BY DEF TypeOK, Call
      <3> QED BY <1>a, <2>0, <2>2, <3>1, <3>2
    <2>3. ASSUME NEW f \in Fd, ScanSet(f) \/ ScanSkip(f) PROVE ProcessInv'
      BY <2>2, <2>3, ScanSetEffect, ScanSkipEffect
    <2>4. CASE ScanRefused
      BY <2>2, <2>4, GivenUp DEF ScanRefused
    <2> QED BY <1>7, <2>1, <2>3, <2>4 DEF ScanStep, ScanMatch, ScanList, ScanOpen, ScanDone
  <1>8. CASE DecisionStep
    <2>1. UNCHANGED <<life, fds>>
      BY <1>8, DecisionServes
    <2>2. \E K : Overtake(K)
      BY <1>8 DEF DecisionStep, HandleEvent, Decide, ForkWrites, ExecWrites, ProgramWrites, Refresh
    <2>3. call \in [Key -> Call]
      BY DEF TypeOK
    <2>4. \A k \in Key : call'[k].op = call[k].op /\ call'[k].fd = call[k].fd
      BY <2>2, <2>3, Overtaken
    <2> QED BY <1>0, <1>a, <2>1, <2>4
  <1>9. CASE ManagerStep \/ ReplayStep \/ StopReplays
    <2>1. UNCHANGED <<life, fds>>
      BY <1>9 DEF ManagerStep, AttachHook, AttachHookFails, Wire, CloseHook, ReplayStep,
                  ReplayNext, StopReplays, ManagerFrame
    <2>2. UNCHANGED call \/ Overtake(Key)
      BY <1>9 DEF ManagerStep, AttachHook, AttachHookFails, Wire, CloseHook, ReplayStep,
                  ReplayNext, StopReplays
    <2>3. call \in [Key -> Call]
      BY DEF TypeOK
    <2>4. \A k \in Key : call'[k].op = call[k].op /\ call'[k].fd = call[k].fd
      BY <2>2, <2>3, Overtaken
    <2> QED BY <1>0, <1>a, <2>1, <2>4
  <1>10. CASE DaemonStep \/ UNCHANGED vars
    BY <1>0, <1>a, <1>10 DEF DaemonStep, fvars, vars
  <1>11. CASE Crash
    <2>1. \A k \in Key : call'[k].op = call[k].op /\ call'[k].fd = call[k].fd
      <3>1. call \in [Key -> Call]
        BY DEF TypeOK
      <3> QED BY <1>11, <3>1, Overtaken DEF Crash
    <2>2. ASSUME NEW k \in Key, fds[k] = NoSockets PROVE fds'[k] = NoSockets
      BY <1>11, <2>2, GivenUp DEF Crash, NoSockets, TypeOK
    <2>3. \A k \in Key : call[k].fd \in Fd
      BY DEF TypeOK, Call
    <2>4. ASSUME NEW k \in Key, call[k].op = "connect" PROVE fds'[k][call[k].fd] \in Socket
      BY <1>11, <2>3, <2>4, GivenUp DEF Crash
    <2>5. UNCHANGED life
      BY <1>11 DEF Crash
    <2> QED BY <1>a, <2>1, <2>2, <2>3, <2>4, <2>5
  <1> QED BY <1>6, <1>7, <1>8, <1>9, <1>10, <1>11 DEF Next

(* An event, queued or dropped, leaves its key behind and no other.          *)
LEMMA SubmitEffect ==
    ASSUME TypeOK, NEW k \in Key, Submit(k)
    PROVE  Behind(k)' /\ \A j \in Key : j # k => Behind(j)' = Behind(j)
  <1>1. CASE owed' = [owed EXCEPT ![k] = @ + 1] /\ UNCHANGED untold
    BY <1>1 DEF Behind, TypeOK
  <1>2. CASE untold' = untold \cup {k} /\ UNCHANGED owed
    BY <1>2 DEF Behind
  <1> QED BY <1>1, <1>2 DEF Submit

(* The exit program touches one key, and leaves it behind if it changes it.  *)
LEMMA ExitEffect ==
    ASSUME TypeOK, NEW k \in Key, ExitProgram(k)
    PROVE  /\ \A j \in Key : j # k => processes'[j] = processes[j] /\ Behind(j)' = Behind(j)
           /\ processes'[k] \in {processes[k], Dead}
           /\ processes[k] = Absent <=> processes'[k] = Absent
           /\ Behind(k)' \/ UNCHANGED <<processes, owed, untold>>
  <1>1. CASE UNCHANGED <<processes, owed, untold>>
    BY <1>1 DEF Behind
  <1>2. CASE Submit(k) /\ processes' = [processes EXCEPT ![k] = IF @ = Absent THEN Absent ELSE Dead]
    BY <1>2, SubmitEffect, FwmarkAssumption DEF TypeOK
  <1> QED BY <1>1, <1>2 DEF ExitProgram

(* An upsert brings the mirror to the value, and the map too unless the key  *)
(* stays behind; a silent one leaves it behind.                              *)
LEMMA UpsertEffect ==
    ASSUME TypeOK, NEW k \in Key, NEW v \in Value, Upsert(k, v) \/ UpsertSilently(k, v),
           \A j \in Key : j # k => owed'[j] = owed[j]
    PROVE  /\ \A j \in Key : j # k => /\ processes'[j] = processes[j] /\ mirror'[j] = mirror[j]
                                      /\ Behind(j)' = Behind(j)
           /\ mirror'[k] = v /\ processes'[k] \in {processes[k], v}
           /\ ~Behind(k)' => processes'[k] = v
           /\ ProcessUpdate(k, v) \/ (scan' = scan /\ Behind(k)')
  <1> USE DEF TypeOK
  <1>1. /\ mirror' = [mirror EXCEPT ![k] = v]
        /\ processes' = [processes EXCEPT ![k] = v] \/ processes' = processes
        /\ untold' = untold \cup {k} \/ untold' = untold \ {k}
        /\ processes' = [processes EXCEPT ![k] = v] \/ untold' = untold \cup {k}
        /\ ProcessUpdate(k, v) \/ (scan' = scan /\ untold' = untold \cup {k})
    BY DEF Upsert, UpsertSilently, Put, PutFails
  <1> QED BY <1>1 DEF Behind

\* What a step may do to key k: leave it behind, or start a scan of it.
Decided(k) ==
    /\ Overtake({k})
    /\ \A j \in Key : j # k => /\ processes'[j] = processes[j] /\ mirror'[j] = mirror[j]
                               /\ Behind(j)' = Behind(j)
    /\ mirror'[k] # Absent \/ mirror'[k] = mirror[k]
    /\ ~Unheard(k)'
    /\ ~Behind(k)' => mirror'[k] = processes'[k]
    /\ Dead \in {processes'[k], mirror'[k]} => Ended(k)
    /\ \/ scan' = scan /\ Behind(k)'
       \/ \E v \in Value \ {Absent} : ProcessUpdate(k, v) /\ MutexFree /\ mirror'[k] = v

(* Every decision, of the daemon or of a program, is of that kind.           *)
LEMMA DecisionEffect ==
    ASSUME TypeOK, Inv, DecisionStep
    PROVE  \E k \in Key : Decided(k)
  <1>0. \A v \in Mark \cup {Plain, Dead} : v \in Value /\ v # Absent
    BY MarksAreNumbers, FwmarkAssumption DEF Value
  <1>m. \A k \in Key : /\ Dead \in {processes[k], mirror[k]} => Ended(k)
                       /\ ~Behind(k) => mirror[k] = processes[k]
    BY DEF Inv, MapInv
  <1>1. ASSUME NEW k \in Key, NEW v \in Mark \cup {Plain, Dead},
               MayBecome(k, v), Upsert(k, v) \/ UpsertSilently(k, v), Overtake({k}), MutexFree,
               \A j \in Key : j # k => owed'[j] = owed[j]
        PROVE  Decided(k)
    <2>1. v \in Value /\ v # Absent
      BY <1>0
    <2>2. v = Dead => Ended(k)
      BY <1>1 DEF MayBecome, Ended
    <2> QED BY <1>1, <1>m, <2>1, <2>2, UpsertEffect DEF Decided, Unheard
  <1>2. ASSUME NEW k \in Key, NEW v \in Mark \cup {Plain, Dead}, Decide(k, v) \/ HandleEvent(k, v)
        PROVE  Decided(k)
    <2>1. \A j \in Key : j # k => owed'[j] = owed[j]
      BY <1>2 DEF Decide, HandleEvent, TypeOK
    <2> QED BY <1>1, <1>2, <2>1 DEF Decide, HandleEvent
  <1>3. ASSUME NEW k \in Key, NEW v \in Mark \cup {Plain}, ForkWrites(k, v) \/ ExecWrites(k, v)
        PROVE  Decided(k)
    <2>1. v # Absent /\ v # Dead
      BY MarksAreNumbers, FwmarkAssumption
    <2>2. /\ processes' = [processes EXCEPT ![k] = v] /\ Submit(k) /\ Overtake({k})
          /\ UNCHANGED <<mirror, scan>>
      BY <1>3 DEF ForkWrites, ExecWrites, ProgramWrites
    <2>3. processes'[k] = v /\ \A j \in Key : j # k => processes'[j] = processes[j]
      BY <2>2 DEF TypeOK
    <2> QED BY <1>m, <2>1, <2>2, <2>3, SubmitEffect DEF Decided, Unheard
  <1>4. ASSUME NEW k \in Key, Refresh(k) PROVE Decided(k)
    <2>1. /\ processes[k] \notin {Absent, mirror[k]} /\ Overtake({k})
          /\ UNCHANGED <<owed, untold, scan>>
          /\ \/ mirror' = [mirror EXCEPT ![k] = processes[k]] /\ UNCHANGED processes
             \/ /\ mirror[k] # Absent /\ UNCHANGED mirror
                /\ processes' = [processes EXCEPT ![k] = mirror[k]]
      BY <1>4 DEF Refresh
    <2>2. Behind(k) /\ \A j \in Key : Behind(j)' = Behind(j)
      BY <1>m, <2>1 DEF Behind
    <2>3. \A j \in Key : j # k => processes'[j] = processes[j] /\ mirror'[j] = mirror[j]
      BY <2>1 DEF TypeOK
    <2>4. /\ {processes'[k], mirror'[k]} \subseteq {processes[k], mirror[k]}
          /\ processes'[k] # Absent
          /\ mirror'[k] # Absent \/ mirror'[k] = mirror[k]
      BY <2>1 DEF TypeOK
    <2> QED BY <1>m, <2>1, <2>2, <2>3, <2>4 DEF Decided, Unheard
  <1> QED BY <1>2, <1>3, <1>4 DEF DecisionStep

(* Every step keeps the mirror in line with the map.                         *)
LEMMA MapOrder ==
    ASSUME TypeOK, Inv, [Next]_vars
    PROVE  MapInv'
  <1> USE DEF MapInv, Inv
  <1>1. ASSUME UNCHANGED maps, replay' \subseteq replay, \A k \in Key : Ended(k) => Ended(k)'
        PROVE  MapInv'
    BY <1>1 DEF maps, Behind
  <1>a. UNCHANGED life => \A k \in Key : Ended(k)' = Ended(k)
    BY DEF Ended
  <1>2. ASSUME NEW k \in Key, Exit(k) \/ LeaderExit(k) PROVE MapInv'
    <2>1. Ended(k)' /\ \A j \in Key : j # k => Ended(j)' = Ended(j)
      BY <1>2 DEF Exit, LeaderExit, Ended, TypeOK
    <2>2. ExitProgram(k) \/ UNCHANGED <<processes, owed, untold>>
      BY <1>2 DEF Exit, LeaderExit
    <2>3. UNCHANGED <<mirror, replay>>
      BY <1>2 DEF Exit, LeaderExit
    <2>4. CASE UNCHANGED <<processes, owed, untold>>
      BY <2>1, <2>3, <2>4 DEF Behind
    <2>5. CASE ExitProgram(k)
      <3>1. \A j \in Key : j # k => processes'[j] = processes[j] /\ Behind(j)' = Behind(j)
        BY <2>5, ExitEffect
      <3>2. Behind(k)' \/ UNCHANGED <<processes, owed, untold>>
        BY <2>5, ExitEffect
      <3> QED BY <2>1, <2>3, <2>4, <3>1, <3>2
    <2> QED BY <2>2, <2>4, <2>5
  <1>3. CASE ProcessStep
    <2>1. ASSUME NEW k \in Key, Start(k) PROVE MapInv'
      <3>1. \A j \in Key : Ended(j) => Ended(j)'
        BY <2>1 DEF Start, Ended, TypeOK
      <3> QED BY <1>1, <2>1, <3>1 DEF Start
    <2> QED BY <1>1, <1>2, <1>3, <1>a, <2>1 DEF ProcessStep, EnterSocket, EnterConnect, Enter,
                  Accept, CloseSocket, SocketInstalled, ConnectDone, Leave
  <1>4. CASE ScanStep
    BY <1>1, <1>4, <1>a DEF ScanStep, ScanMatch, ScanList, ScanOpen, ScanRefused, ScanSet, ScanSkip,
                ScanDone, ScanFrame
  <1>5. CASE DecisionStep
    <2>1. PICK k \in Key : Decided(k)
      BY <1>5, DecisionEffect
    <2>2. UNCHANGED <<life, replay>>
      BY <1>5, DecisionServes
    <2> QED BY <1>a, <2>1, <2>2 DEF Decided
  <1>6. CASE Wire
    BY <1>6, <1>a, MarksAreNumbers, FwmarkAssumption
       DEF Wire, ManagerFrame, maps, Behind, Live
  <1>7. CASE StopReplays
    BY <1>7, <1>a DEF StopReplays, maps, Behind
  <1>8. CASE AttachHook \/ AttachHookFails \/ CloseHook \/ ReplayStep
    BY <1>1, <1>8, <1>a DEF AttachHook, AttachHookFails, CloseHook, ReplayStep, ReplayNext,
                ManagerFrame
  <1>9. CASE DaemonStep \/ UNCHANGED vars
    BY <1>1, <1>9, <1>a DEF DaemonStep, fvars, vars
  <1>10. CASE Crash
    BY <1>10, FwmarkAssumption DEF Crash
  <1> QED BY <1>3, <1>4, <1>5, <1>6, <1>7, <1>8, <1>9, <1>10 DEF Next, ManagerStep

-----------------------------------------------------------------------------
(* The scan, the calls and the sockets *)

(* A callback that starts a scan: of this key, with this value.              *)
LEMMA UpdateEffect ==
    ASSUME NEW k \in Key, NEW v \in Value, ProcessUpdate(k, v)
    PROVE  /\ mgr = "wired" => /\ scan'.stage = "match" /\ scan'.key = k
                               /\ scan'.value = v /\ scan'.todo = {}
           /\ mgr # "wired" => scan' = scan
  <1>1. NoScan \in Scan
    BY IdleTypes
  <1> QED BY <1>1 DEF ProcessUpdate, Scan, NoScan

(* Every step of the scan keeps it on the track of its key.                  *)
LEMMA ScanStepTrack ==
    ASSUME TypeOK, Inv, ScanStep
    PROVE  ScanInv'
  <1> USE DEF ScanInv, Inv
  <1>0. UNCHANGED <<stop, life, maps>> /\ scan \in Scan
    BY DEF ScanStep, ScanMatch, ScanList, ScanOpen, ScanRefused, ScanSet, ScanSkip, ScanDone, ScanFrame,
           dvars, TypeOK
  <1>a. /\ UNCHANGED <<processes, mirror>> /\ Serving' = Serving
        /\ \A k \in Key : /\ Behind(k)' = Behind(k) /\ Ended(k)' = Ended(k)
                          /\ Alive(k)' = Alive(k) /\ life'[k] = life[k]
        /\ \A q : Holder(q)' = Holder(q)
    BY <1>0 DEF maps, Serving, Behind, Ended, Alive, Holder
  <1>1. scan' = NoScan => ScanInv'
    BY IdleTypes
  <1>2. CASE ScanMatch
    <2>1. CASE scan' = [scan EXCEPT !.stage = "list"] /\ MatchesKey(scan.key)
      <3>1. /\ scan'.stage = "list" /\ scan'.key = scan.key /\ scan'.value = scan.value
            /\ scan.stage = "match" /\ Alive(scan.key)
        BY <1>0, <1>2, <2>1 DEF ScanMatch, Scan, MatchesKey, Holder
      <3>2. Holder(PidOf[scan.key]) \subseteq {scan.key} /\ life[scan.key] # "unborn"
        BY <1>0, <3>1 DEF Holder, Alive, ProcessInv
      <3> QED BY <1>0, <1>a, <3>1, <3>2
    <2> QED BY <1>1, <1>2, <2>1 DEF ScanMatch
  <1>3. CASE ScanList
    <2>1. CASE scan' # NoScan
      <3>1. /\ scan'.stage = "open" /\ scan'.key = scan.key /\ scan'.value = scan.value
            /\ scan'.swapped = scan.swapped /\ scan.stage = "list"
        BY <1>0, <1>3, <2>1 DEF ScanList, Scan
      <3> QED BY <1>0, <1>a, <3>1
    <2> QED BY <1>1, <2>1
  <1>4. CASE ScanOpen
    <2>1. ASSUME NEW k \in Holder(PidOf[scan.key]),
                 scan' = [scan EXCEPT !.stage = "set", !.target = k]
          PROVE  ScanInv'
      <3>1. /\ scan'.stage = "set" /\ scan'.key = scan.key /\ scan'.value = scan.value
            /\ scan'.swapped = scan.swapped /\ scan'.target = k /\ scan.stage = "open"
        BY <1>0, <1>4, <2>1 DEF ScanOpen, Scan
      <3>2. k # scan.key => life[scan.key] = "gone"
        BY <3>1 DEF Holder, Alive, ProcessInv, TypeOK
      <3> QED BY <1>0, <1>a, <2>1, <3>1, <3>2
    <2> QED BY <1>1, <1>4, <2>1 DEF ScanOpen
  <1>5. ASSUME NEW f \in Fd, ScanSet(f) \/ ScanSkip(f) PROVE ScanInv'
    <2>1. /\ scan'.stage = "set" /\ scan'.key = scan.key /\ scan'.value = scan.value
          /\ scan'.swapped = scan.swapped /\ scan'.target = scan.target /\ scan.stage = "set"
      BY <1>0, <1>5 DEF ScanSet, ScanSkip, Scan
    <2> QED BY <1>0, <1>a, <2>1
  <1> QED BY <1>1, <1>2, <1>3, <1>4, <1>5 DEF ScanStep, ScanDone, ScanRefused

(* Every other step keeps the scan in line with the map and with Stop.       *)
LEMMA ScanTrack ==
    ASSUME TypeOK, Inv, [Next]_vars
    PROVE  ScanInv'
  <1> USE DEF ScanInv, Inv
  <1>0. scan \in Scan
    BY DEF TypeOK
  <1>a. UNCHANGED life => /\ \A k \in Key : Ended(k)' = Ended(k)
                          /\ \A q : Holder(q)' = Holder(q)
    BY DEF Ended, Holder, Alive
  <1>b. UNCHANGED stop => Serving' = Serving
    BY DEF Serving
  <1>c. UNCHANGED maps => UNCHANGED <<processes, mirror>> /\ \A k \in Key : Behind(k)' = Behind(k)
    BY DEF maps, Behind
  <1>1. ASSUME NEW k \in Key, Start(k) PROVE ScanInv'
    <2>1. /\ scan'.stage = scan.stage /\ scan'.key = scan.key /\ scan'.value = scan.value
          /\ scan'.target = scan.target
          /\ scan.stage \in {"list", "open"} /\ PidOf[scan.key] = PidOf[k] => scan'.swapped
          /\ ~scan'.swapped => ~scan.swapped
          /\ UNCHANGED <<stop, maps>>
      BY <1>0, <1>1 DEF Start, Scan, dvars
    <2>2. \A j \in Key : /\ life[j] = "gone" => life'[j] = "gone"
                         /\ Ended(j) => Ended(j)'
                         /\ life[j] # "unborn" => life'[j] # "unborn"
                         /\ j # k => life'[j] = life[j]
      BY <1>1 DEF Start, Ended, TypeOK
    <2>3. scan.stage \in {"list", "open"} /\ ~scan'.swapped =>
             Holder(PidOf[scan.key])' = Holder(PidOf[scan.key])
      BY <2>1, <2>2 DEF Holder, Alive
    <2> QED BY <1>b, <1>c, <2>1, <2>2, <2>3
  <1>2. ASSUME NEW k \in Key, Exit(k) \/ LeaderExit(k) PROVE ScanInv'
    <2>1. UNCHANGED <<scan, stop, mirror>>
      BY <1>2 DEF Exit, LeaderExit, dvars
    <2>2. /\ Holder(PidOf[scan.key])' \subseteq Holder(PidOf[scan.key])
          /\ \A j \in Key : /\ life[j] = "gone" => life'[j] = "gone"
                            /\ Ended(j) => Ended(j)'
                            /\ life[j] # "unborn" => life'[j] # "unborn"
      BY <1>2 DEF Exit, LeaderExit, Holder, Alive, Ended, TypeOK
    <2>3. ExitProgram(k) \/ UNCHANGED <<processes, owed, untold>>
      BY <1>2 DEF Exit, LeaderExit
    <2>4. \A j \in Key : ~Behind(j)' => ~Behind(j) /\ processes'[j] = processes[j]
      <3>1. CASE UNCHANGED <<processes, owed, untold>>
        BY <3>1 DEF Behind
      <3>2. CASE ExitProgram(k)
        BY <3>1, <3>2, ExitEffect
      <3> QED BY <2>3, <3>1, <3>2
    <2> QED BY <1>b, <2>1, <2>2, <2>4
  <1>3. ASSUME UNCHANGED <<stop, life, maps, scan>> PROVE ScanInv'
    BY <1>3, <1>a, <1>b, <1>c
  <1>4. CASE ProcessStep
    BY <1>1, <1>2, <1>3, <1>4
       DEF ProcessStep, EnterSocket, EnterConnect, Enter, Accept, CloseSocket, SocketInstalled,
           ConnectDone, Leave, dvars
  <1>5. ASSUME NEW k \in Key, NEW v \in Value, ProcessUpdate(k, v), scan.stage = "none",
               UNCHANGED <<stop, life>>, mirror'[k] # Absent,
               v = Dead => Ended(k),
               Serving /\ ~Behind(k)' => v = processes'[k],
               stop = "replay" => v \notin Mark
        PROVE  ScanInv'
    BY <1>5, <1>a, <1>b, UpdateEffect
  <1>6. CASE DecisionStep
    <2>1. PICK k \in Key : Decided(k)
      BY <1>6, DecisionEffect
    <2>2. Serving /\ UNCHANGED <<stop, life>>
      BY <1>6, DecisionServes DEF dvars
    <2>3. CASE scan' = scan /\ Behind(k)'
      BY <1>a, <1>b, <2>1, <2>2, <2>3 DEF Decided
    <2>4. ASSUME NEW v \in Value \ {Absent}, ProcessUpdate(k, v), MutexFree, mirror'[k] = v
          PROVE  ScanInv'
      <3>1. scan.stage = "none" /\ stop # "replay"
        BY <2>2, <2>4 DEF MutexFree, Serving
      <3>2. v = Dead => Ended(k)
        BY <2>1, <2>4 DEF Decided
      <3>3. ~Behind(k)' => v = processes'[k]
        BY <2>1, <2>4 DEF Decided
      <3> QED BY <1>5, <2>2, <2>4, <3>1, <3>2, <3>3
    <2> QED BY <2>1, <2>3, <2>4 DEF Decided
  <1>7. ASSUME NEW k \in Key, ReplayNext(k) PROVE ScanInv'
    <2>1. Replayed(mirror[k]) \in Value
      BY DEF Replayed, Value, TypeOK
    <2>2. UNCHANGED <<stop, life, maps>> /\ scan.stage = "none"
      BY <1>7 DEF ReplayNext, ManagerFrame, dvars
    <2>3. mirror[k] # Absent
      BY <1>7 DEF ReplayNext, MapInv
    <2>4. Replayed(mirror[k]) = Dead => Ended(k)
      BY FwmarkAssumption DEF Replayed, MapInv
    <2>5. Serving /\ ~Behind(k) => Replayed(mirror[k]) = processes[k]
      BY DEF Replayed, MapInv, Serving
    <2>6. stop = "replay" => Replayed(mirror[k]) \notin Mark
      BY MarksAreNumbers DEF Replayed, Live
    <2> QED BY <1>5, <1>7, <1>c, <2>1, <2>2, <2>3, <2>4, <2>5, <2>6 DEF ReplayNext
  <1>8. CASE ManagerStep
    BY <1>3, <1>8 DEF ManagerStep, AttachHook, AttachHookFails, Wire, CloseHook, ManagerFrame, dvars
  <1>9. CASE StopReplays
    BY <1>9 DEF StopReplays, MutexFree
  <1>10. CASE DaemonStep
    <2>1. CASE scan.stage = "none"
      BY <1>10, <2>1 DEF DaemonStep, fvars
    <2>2. CASE scan.stage # "none"
      <3>1. stop' = stop \/ (stop = "no" /\ stop' = "waiting")
        BY <1>10, <2>2 DEF DaemonStep, RunStep, AttachLink, RunFails, OpenReader, LoopStep, LoopEnds,
             LoopCloses, LoopSends, CallStep, CallRun, CallClose, CallStop, StopReturn, MutexFree
      <3>2. UNCHANGED <<life, maps, scan>>
        BY <1>10 DEF DaemonStep, fvars
      <3>3. Serving' = Serving
        BY <3>1 DEF Serving
      <3> QED BY <1>a, <1>c, <3>1, <3>2, <3>3
    <2> QED BY <2>1, <2>2
  <1>11. CASE Crash
    BY <1>11, IdleTypes DEF Crash
  <1>12. CASE UNCHANGED vars
    BY <1>3, <1>12 DEF vars, dvars, fvars
  <1> QED BY ScanStepTrack, <1>4, <1>6, <1>7, <1>8, <1>9, <1>10, <1>11, <1>12 DEF Next, ReplayStep

(* Every step leaves Serving and Wired alone, except where it says so.       *)
LEMMA Serves ==
    ASSUME Inv, [Next]_vars
    PROVE  /\ Serving' = Serving \/ StopReplays \/ Crash
           /\ Wired' => Wired \/ Wire
  <1> USE DEF Serving, Wired
  <1>1. CASE ProcessStep
    BY <1>1 DEF ProcessStep, Start, LeaderExit, Exit, EnterSocket, EnterConnect, Enter, Accept, CloseSocket,
                SocketInstalled, ConnectDone, Leave, dvars
  <1>2. CASE ScanStep
    BY <1>2 DEF ScanStep, ScanMatch, ScanList, ScanOpen, ScanRefused, ScanSet, ScanSkip, ScanDone,
                ScanFrame,
                dvars
  <1>3. CASE DecisionStep
    BY <1>3 DEF DecisionStep, HandleEvent, Decide, ForkWrites, ExecWrites, ProgramWrites,
                Refresh, dvars
  <1>4. CASE ManagerStep \/ ReplayStep
    BY <1>4 DEF ManagerStep, AttachHook, AttachHookFails, Wire, CloseHook, ReplayStep,
                ReplayNext, ManagerFrame, dvars
  <1>5. CASE StopReplays
    BY <1>5 DEF StopReplays
  <1>6. CASE DaemonStep
    BY <1>6 DEF DaemonStep, fvars, RunStep, AttachLink, RunFails, OpenReader, LoopStep, LoopEnds,
                LoopCloses, LoopSends, CallStep, CallRun, CallClose, CallStop, StopReturn
  <1>7. CASE Crash
    BY <1>7 DEF Crash
  <1>8. CASE UNCHANGED vars
    BY <1>8 DEF vars, dvars, fvars
  <1> QED BY <1>1, <1>2, <1>3, <1>4, <1>5, <1>6, <1>7, <1>8 DEF Next

(* A call stays as good as it was if neither it nor its key's entry changes. *)
LEMMA CallFrame ==
    ASSUME NEW k \in Key, CallOK(k),
           call'[k].op # "none" /\ ~call'[k].stale =>
               /\ call[k].op # "none" /\ ~call[k].stale /\ call'[k].mark = call[k].mark
               /\ processes'[k] = processes[k] /\ Serving' = Serving /\ (Wired' => Wired)
    PROVE  CallOK(k)'
  BY DEF CallOK, Due, Serving, Wired

(* A hook that is not overtaken finds what is due.                           *)
LEMMA EnterTrusted ==
    ASSUME TypeOK, Inv, NEW k \in Key, NEW f \in Fd, NEW op, NEW h \in Hook, Enter(k, op, f, h)
    PROVE  CallOK(k)'
  <1>1. /\ call'[k].mark = Lookup(k, h) /\ call'[k].stale = Outdated(h)
        /\ processes' = processes /\ stop' = stop /\ mgr' = mgr
    BY DEF Enter, TypeOK, dvars, maps
  <1>2. processes[k] = Absent => Lookup(k, h) = 0
    BY MarksAreNumbers DEF Lookup, KernelFwmark
  <1>3. ASSUME Wired, ~Outdated(h) PROVE Lookup(k, h) = Due(k)
    <2>1. CASE Serving
      <3>1. hooks = Hook
        BY <1>3, <2>1 DEF Inv, ManagerInv, Serving, Wired
      <3> QED BY <2>1, <3>1 DEF Lookup, Due
    <2>2. CASE ~Serving
      <3>1. h \notin hooks
        BY <1>3, <2>2 DEF Outdated, Serving, TypeOK, DaemonTypeOK
      <3> QED BY <2>2, <3>1 DEF Lookup, Due
    <2> QED BY <2>1, <2>2
  <1>4. Due(k)' = Due(k) /\ Wired' = Wired
    BY <1>1 DEF Due, Serving, Wired
  <1> QED BY <1>1, <1>2, <1>3, <1>4 DEF CallOK

(* Every step keeps what a call that was not overtaken has found.            *)
LEMMA CallTrust ==
    ASSUME TypeOK, Inv, [Next]_vars
    PROVE  CallInv'
  <1>0. (\A k \in Key : CallOK(k)) /\ call \in [Key -> Call]
    BY DEF Inv, CallInv, TypeOK
  <1>1. ASSUME NEW k \in Key,
               Start(k) \/ \E f \in Fd : CloseSocket(k, f) \/ \E m \in FwmarkValue : Accept(k, f, m)
        PROVE  CallInv'
    <2>1. UNCHANGED <<call, processes, stop, mgr>>
      BY <1>1 DEF Start, CloseSocket, Accept, dvars, maps
    <2> QED BY <1>0, <2>1, CallFrame DEF CallInv, Serving, Wired
  <1>2. ASSUME NEW k \in Key, Exit(k) \/ SocketInstalled(k) \/ ConnectDone(k) PROVE CallInv'
    <2>1. call'[k].op = "none" /\ \A j \in Key : j # k => call'[j] = call[j]
      BY <1>2, IdleTypes DEF Exit, SocketInstalled, ConnectDone, Leave, TypeOK
    <2>2. UNCHANGED <<stop, mgr>> /\ (UNCHANGED processes \/ ExitProgram(k))
      BY <1>2 DEF Exit, SocketInstalled, ConnectDone, Leave, dvars, maps
    <2>3. \A j \in Key : j # k => processes'[j] = processes[j]
      BY <2>2, ExitEffect
    <2> QED BY <1>0, <2>1, <2>2, <2>3, CallFrame DEF CallInv, Serving, Wired
  <1>3. ASSUME NEW k \in Key, NEW f \in Fd, NEW op, NEW h \in Hook, Enter(k, op, f, h)
        PROVE  CallInv'
    <2>1. /\ UNCHANGED <<stop, mgr, processes>>
          /\ \A j \in Key : j # k => call'[j] = call[j]
      BY <1>3 DEF Enter, TypeOK, dvars, maps
    <2>2. CallOK(k)'
      BY <1>3, EnterTrusted
    <2> QED BY <1>0, <2>1, <2>2, CallFrame DEF CallInv, Serving, Wired
  <1>4. ASSUME NEW k \in Key, Overtake({k}), UNCHANGED <<stop, mgr>>,
               \A j \in Key : j # k => processes'[j] = processes[j]
        PROVE  CallInv'
    BY <1>0, <1>4, Overtaken, CallFrame DEF CallInv, Serving, Wired
  <1>5. CASE ProcessStep
    <2>1. ASSUME NEW k \in Key, LeaderExit(k) PROVE CallInv'
      BY <1>4, <2>1, ExitEffect DEF LeaderExit, dvars
    <2> QED BY <1>1, <1>2, <1>3, <1>5, <2>1, FwmarkType
            DEF ProcessStep, EnterSocket, EnterConnect, Hook
  <1>6. CASE DecisionStep
    <2>1. UNCHANGED <<stop, mgr>>
      BY <1>6, DecisionServes DEF dvars
    <2> QED BY <1>4, <1>6, <2>1, DecisionEffect DEF Decided
  <1>7. CASE /\ ~(Wire \/ StopReplays \/ Crash)
             /\ \/ ScanStep \/ AttachHook \/ AttachHookFails \/ CloseHook \/ ReplayStep
                \/ DaemonStep \/ UNCHANGED vars
    <2>1. UNCHANGED <<call, processes>>
      BY <1>7 DEF ScanStep, ScanMatch, ScanList, ScanOpen, ScanRefused, ScanSet, ScanSkip, ScanDone,
           ScanFrame, AttachHook, AttachHookFails, CloseHook, ReplayStep, ReplayNext, ManagerFrame,
           DaemonStep, fvars, vars, maps
    <2>2. Serving' = Serving /\ (Wired' => Wired)
      BY <1>7, Serves
    <2> QED BY <1>0, <2>1, <2>2, CallFrame DEF CallInv
  <1>8. CASE Wire \/ StopReplays \/ Crash
    <2>1. Overtake(Key)
      BY <1>8 DEF Wire, StopReplays, Crash
    <2>2. \A k \in Key : ~(call'[k].op # "none" /\ ~call'[k].stale)
      BY <1>0, <2>1, Overtaken
    <2> QED BY <2>2 DEF CallInv, CallOK
  <1> QED BY <1>5, <1>6, <1>7, <1>8 DEF Next, ManagerStep

(* A socket stays as good as it was if nothing about it changes and nobody   *)
(* who was to see to it forgets it.                                          *)
LEMMA SocketFrame ==
    ASSUME NEW k \in Key, NEW f \in Fd, SocketOK(k, f), fds'[k][f].mark = fds[k][f].mark,
           processes'[k] = processes[k], mirror'[k] = mirror[k], Behind(k) => Behind(k)',
           Serving' = Serving, Wired' => Wired, Queued(k, f) => Queued(k, f)'
    PROVE  SocketOK(k, f)'
  BY DEF SocketOK, Due, Unheard, Excused, Unknown

(* A process that has ended has no socket.                                   *)
LEMMA DeadHasNone ==
    ASSUME ProcessInv, NEW k \in Key, ~Alive(k)
    PROVE  Vouched(k) = {}
  BY DEF ProcessInv, Vouched, Open, NoSockets

(* A system call leaves its sockets in order.                                *)
LEMMA CallSockets ==
    ASSUME TypeOK, Inv, NEW k \in Key, SocketInstalled(k) \/ ConnectDone(k)
    PROVE  SocketInv'
  <1>f. PICK f \in Fd : f = call[k].fd
    BY DEF TypeOK, Call
  <1>0. /\ \A j \in Key : life[j] = "running" => \A g \in Vouched(j) : SocketOK(j, g)
        /\ fds[k] \in [Fd -> Socket \cup {NoSocket}] /\ CallOK(k)
        /\ call[k].stale \in BOOLEAN
    BY DEF Inv, SocketInv, CallInv, TypeOK, Call
  <1>1. /\ UNCHANGED <<stop, life, maps, mgr, replay, scan>>
        /\ \A j \in Key : \A g \in Fd : j # k \/ g # f => fds'[j][g] = fds[j][g]
    BY <1>0, <1>f DEF SocketInstalled, ConnectDone, Leave, TypeOK, dvars
  <1>2. /\ Serving' = Serving /\ Wired' = Wired /\ UNCHANGED <<processes, mirror>>
        /\ \A j \in Key : Behind(j)' = Behind(j)
        /\ \A j \in Key : \A g \in Fd : Queued(j, g)' = Queued(j, g)
    BY <1>1 DEF Serving, Wired, maps, Behind, Queued
  <1>3. ASSUME NEW j \in Key, life[j] = "running", NEW g \in Vouched(j)', j # k \/ g # f
        PROVE  SocketOK(j, g)'
    <2>1. g \in Fd /\ g \in Vouched(j)
      BY <1>1, <1>3 DEF Vouched, Open
    <2> QED BY <1>0, <1>1, <1>2, <1>3, <2>1, SocketFrame
  <1>4. ASSUME life[k] = "running", f \in Vouched(k)' PROVE SocketOK(k, f)'
    <2>1. CASE /\ fds'[k][f].mark = call[k].mark /\ fds'[k][f].sure = ~call[k].stale
               /\ call[k].op # "none"
      <3>1. ~call[k].stale
        BY <1>0, <1>4, <2>1 DEF Vouched
      <3> QED BY <1>0, <1>2, <2>1, <3>1 DEF CallOK, SocketOK, Due, Unheard
    <2>2. CASE fds[k][f] # NoSocket /\ fds'[k][f] = fds[k][f]
      <3>1. f \in Vouched(k)
        BY <1>0, <1>4, <2>2 DEF Vouched, Open
      <3> QED BY <1>0, <1>2, <1>4, <2>2, <3>1, SocketFrame
    <2>3. CASE fds'[k][f] = [mark |-> call[k].mark, sure |-> ~call[k].stale] /\ call[k].op # "none"
      BY <2>1, <2>3
    <2>4. CASE SocketInstalled(k)
      BY <1>0, <1>f, <2>3, <2>4 DEF SocketInstalled, Leave, TypeOK
    <2>5. CASE ConnectDone(k)
      <3>1. fds[k][f] \in Socket /\ fds[k][f] # NoSocket /\ call[k].op # "none"
        BY <1>f, <2>5, SocketAssumption DEF ConnectDone, Inv, ProcessInv
      <3>2. fds'[k][f] = fds[k][f] \/ fds'[k][f] = Remarked(k)
        BY <1>0, <1>f, <2>5 DEF ConnectDone, Leave, TypeOK
      <3> QED BY <2>2, <2>3, <3>1, <3>2 DEF Remarked
    <2> QED BY <2>4, <2>5
  <1> QED BY <1>1, <1>3, <1>4 DEF SocketInv

(* A step of the scan puts right what it takes off its list, or gives it up. *)
LEMMA ScanSockets ==
    ASSUME TypeOK, Inv, ScanStep
    PROVE  SocketInv'
  <1>0. /\ \A j \in Key : life[j] = "running" => \A g \in Vouched(j) : SocketOK(j, g)
        /\ scan \in Scan
    BY DEF Inv, SocketInv, TypeOK
  <1>1. UNCHANGED <<stop, life, maps, mgr, replay>>
    BY DEF ScanStep, ScanMatch, ScanList, ScanOpen, ScanRefused, ScanSet, ScanSkip, ScanDone, ScanFrame,
           dvars
  <1>2. /\ Serving' = Serving /\ Wired' = Wired /\ UNCHANGED <<processes, mirror>>
        /\ \A j \in Key : Behind(j)' = Behind(j)
    BY <1>1 DEF Serving, Wired, maps, Behind
  <1>3. ASSUME \A j \in Key : \A g \in Fd : fds'[j][g] = fds[j][g] \/ g \notin Vouched(j)',
               \A j \in Key : \A g \in Vouched(j)' :
                  life[j] = "running" /\ Queued(j, g) => Queued(j, g)'
        PROVE  SocketInv'
    <2>1. ASSUME NEW j \in Key, life[j] = "running", NEW g \in Vouched(j)' PROVE SocketOK(j, g)'
      <3>1. g \in Fd /\ g \in Vouched(j) /\ fds'[j][g] = fds[j][g]
        BY <1>3, <2>1 DEF Vouched, Open
      <3> QED BY <1>0, <1>1, <1>2, <1>3, <2>1, <3>1, SocketFrame
    <2> QED BY <1>1, <2>1 DEF SocketInv
  <1>a. ASSUME fds' = fds, \A j \in Key : \A g \in Vouched(j) :
                              life[j] = "running" /\ Queued(j, g) => Queued(j, g)'
        PROVE  SocketInv'
    BY <1>3, <1>a DEF Vouched, Open
  <1>4. ASSUME fds' = fds, scan' = NoScan,
               scan.key \in Key => life[scan.key] # "running" \/ Vouched(scan.key) = {}
        PROVE  SocketInv'
    BY <1>0, <1>1, <1>a, <1>4 DEF Queued
  <1>5. ASSUME scan.stage # "none", scan.key \notin Holder(PidOf[scan.key])
        PROVE  Vouched(scan.key) = {}
    <2>1. scan.key \in Key /\ ~Alive(scan.key)
      BY <1>5 DEF Inv, ScanInv, Holder
    <2> QED BY <2>1, DeadHasNone DEF Inv
  <1>6. CASE ScanMatch
    <2>1. CASE scan' = [scan EXCEPT !.stage = "list"]
      <3>1. scan.stage = "match" /\ scan'.stage = "list" /\ scan'.key = scan.key /\ fds' = fds
        BY <1>0, <1>6, <2>1 DEF ScanMatch, Scan
      <3> QED BY <1>1, <1>a, <3>1 DEF Queued
    <2>2. CASE scan.value = Dead \/ ~MatchesKey(scan.key)
      <3>1. scan.stage # "none" /\ fds' = fds /\ scan' = NoScan
        BY <1>6, <2>2 DEF ScanMatch
      <3>2. life[scan.key] # "running" \/ Vouched(scan.key) = {}
        BY <1>5, <2>2, <3>1 DEF Inv, ScanInv, Ended, MatchesKey
      <3> QED BY <1>4, <3>1, <3>2
    <2> QED BY <1>6, <2>1, <2>2 DEF ScanMatch
  <1>7. CASE ScanList
    <2>1. CASE Holder(PidOf[scan.key]) = {}
      BY <1>4, <1>5, <1>7, <2>1 DEF ScanList
    <2>2. CASE Holder(PidOf[scan.key]) # {}
      <3>1. /\ scan.stage = "list" /\ scan'.stage = "open" /\ scan'.key = scan.key /\ fds' = fds
            /\ scan'.todo = UNION {Open(k) : k \in Holder(PidOf[scan.key])}
        BY <1>0, <1>7, <2>2 DEF ScanList, Scan
      <3>2. ASSUME NEW g \in Vouched(scan.key) PROVE g \in scan'.todo
        <4>1. scan.key \in Holder(PidOf[scan.key])
          BY <1>5, <3>1, <3>2
        <4>2. g \in Open(scan.key)
          BY <3>2 DEF Vouched
        <4> QED BY <3>1, <4>1, <4>2
      <3> QED BY <1>1, <1>a, <3>1, <3>2 DEF Queued
    <2> QED BY <2>1, <2>2
  <1>8. CASE ScanOpen
    <2>1. CASE Holder(PidOf[scan.key]) = {} /\ scan' = NoScan
      BY <1>4, <1>5, <1>8, <2>1 DEF ScanOpen
    <2>2. ASSUME NEW k \in Key, scan' = [scan EXCEPT !.stage = "set", !.target = k]
          PROVE  SocketInv'
      <3>1. /\ scan.stage = "open" /\ scan'.stage = "set" /\ scan'.key = scan.key
            /\ scan'.todo = scan.todo /\ fds' = fds
        BY <1>0, <1>8, <2>2 DEF ScanOpen, Scan
      <3> QED BY <1>1, <1>a, <3>1 DEF Queued
    <2> QED BY <1>8, <2>1, <2>2 DEF ScanOpen, Holder
  <1>9. CASE ScanDone
    <2>1. fds' = fds /\ scan' = NoScan /\ scan.todo = {} /\ scan.stage = "set"
      BY <1>9 DEF ScanDone
    <2> QED BY <1>1, <1>a, <2>1 DEF Queued
  <1>10. CASE ScanRefused
    <2>1. PICK k \in Holder(PidOf[scan.key]) : GiveUp({k})
      BY <1>10 DEF ScanRefused
    <2>2. k \in Key /\ scan.stage # "none" /\ scan.key \in Key
      BY <1>10 DEF ScanRefused, Holder, Inv, ScanInv
    <2>3. life[scan.key] = "running" => k = scan.key
      BY <2>1, <2>2 DEF Holder, Alive, Inv, ProcessInv
    <2>4. Vouched(k)' = {}
      BY <2>1, <2>2, GivenUp DEF Vouched, Open
    <2>5. \A j \in Key : \A g \in Fd : j # k => fds'[j][g] = fds[j][g]
      BY <2>1, GivenUp
    <2>6. ASSUME NEW j \in Key, NEW g \in Vouched(j)', life[j] = "running", Queued(j, g)
          PROVE  Queued(j, g)'
      BY <1>1, <2>3, <2>4, <2>6 DEF Queued
    <2> QED BY <1>3, <2>4, <2>5, <2>6
  <1>11. ASSUME NEW f \in Fd, ScanSet(f) \/ ScanSkip(f) PROVE SocketInv'
    <2>1. /\ scan.stage = "set" /\ scan'.stage = "set" /\ scan'.key = scan.key
          /\ scan'.todo = scan.todo \ {f}
      BY <1>0, <1>11 DEF ScanSet, ScanSkip, Scan
    <2>2. /\ scan.target \in Key
          /\ \A k \in Key : \A g \in Fd : k # scan.target \/ g # f => fds'[k][g] = fds[k][g]
      BY <1>11, ScanSetEffect, ScanSkipEffect
    <2>3. scan.target # scan.key => life[scan.key] # "running"
      BY <2>1 DEF Inv, ScanInv
    <2>4. ASSUME NEW j \in Key, life[j] = "running", NEW g \in Vouched(j)', j # scan.target \/ g # f
          PROVE  SocketOK(j, g)'
      <3>1. g \in Fd /\ g \in Vouched(j) /\ fds'[j][g] = fds[j][g]
        BY <2>2, <2>4 DEF Vouched, Open
      <3>2. Queued(j, g) => Queued(j, g)'
        BY <1>1, <2>1, <2>3, <2>4, <3>1 DEF Queued
      <3> QED BY <1>0, <1>2, <2>4, <3>1, <3>2, SocketFrame
    <2>5. PICK t \in Key : t = scan.target
      BY <2>2
    <2>6. ASSUME f \in Vouched(t)' PROVE SocketOK(t, f)'
      <3>1. CASE ScanSkip(f)
        BY <2>5, <2>6, <3>1, ScanSkipEffect DEF Vouched, Open
      <3>2. CASE ScanSet(f)
        <4>1. t = scan.key /\ fds'[t][f].mark = KernelFwmark(scan.value)
          BY <2>5, <2>6, <3>2, ScanSetEffect DEF Vouched
        <4>2. ~Unheard(t)'
          BY <1>2, <2>1, <4>1 DEF Inv, ScanInv, Unheard
        <4>3. CASE Serving /\ ~Behind(t)
          <5>1. scan.value = processes[t]
            BY <2>1, <4>1, <4>3 DEF Inv, ScanInv
          <5>2. fds'[t][f].mark = Due(t)'
            BY <1>2, <4>1, <4>3, <5>1 DEF Due
          <5> QED BY <4>2, <5>2 DEF SocketOK
        <4>4. CASE Serving /\ Behind(t)
          BY <1>2, <4>2, <4>4 DEF SocketOK, Excused
        <4>5. CASE ~Serving
          <5>1. scan.value \notin Mark
            BY <2>1, <4>5 DEF Inv, ScanInv, ManagerInv, Serving, TypeOK, DaemonTypeOK
          <5>2. fds'[t][f].mark = 0 /\ Due(t)' = 0
            BY <1>2, <4>1, <4>5, <5>1 DEF Due, KernelFwmark
          <5> QED BY <4>2, <5>2 DEF SocketOK
        <4> QED BY <4>3, <4>4, <4>5
      <3> QED BY <1>11, <3>1, <3>2
    <2> QED BY <1>1, <2>4, <2>5, <2>6 DEF SocketInv
  <1> QED BY <1>6, <1>7, <1>8, <1>9, <1>10, <1>11 DEF ScanStep

(* The callback takes a key up, and forgets none.                            *)
LEMMA UpdateSockets ==
    ASSUME TypeOK, Inv, NEW k \in Key, NEW v \in Value, ProcessUpdate(k, v), scan.stage = "none",
           UNCHANGED <<stop, life, mgr, fds>>, mgr # "closing",
           ~Unheard(k)' \/ (processes'[k] = processes[k] /\ mirror'[k] = mirror[k]),
           \A j \in Key : j # k => /\ processes'[j] = processes[j] /\ mirror'[j] = mirror[j]
                                   /\ Behind(j)' = Behind(j)
                                   /\ j \in replay => j \in replay'
    PROVE  SocketInv'
  <1>0. \A j \in Key : life[j] = "running" => \A g \in Vouched(j) : SocketOK(j, g)
    BY DEF Inv, SocketInv
  <1>1. Serving' = Serving /\ Wired' = Wired
    BY DEF Serving, Wired
  <1>2. ASSUME NEW j \in Key, life[j] = "running", NEW g \in Vouched(j)', j # k PROVE SocketOK(j, g)'
    <2>1. g \in Fd /\ g \in Vouched(j)
      BY <1>2 DEF Vouched, Open
    <2>2. Queued(j, g) => Queued(j, g)'
      BY <1>2 DEF Queued
    <2> QED BY <1>0, <1>1, <1>2, <2>1, <2>2, SocketFrame
  <1>3. ASSUME life[k] = "running", NEW g \in Vouched(k)' PROVE SocketOK(k, g)'
    <2>1. g \in Fd /\ g \in Vouched(k)
      BY <1>3 DEF Vouched, Open
    <2>2. mgr = "wired" => Queued(k, g)'
      BY UpdateEffect DEF Queued
    <2>3. Unheard(k)' => fds'[k][g].mark = 0
      BY <1>0, <1>3, <2>1 DEF SocketOK, Unheard
    <2>4. Wired' => mgr = "wired"
      BY DEF Wired
    <2> QED BY <2>2, <2>3, <2>4 DEF SocketOK
  <1> QED BY <1>2, <1>3 DEF SocketInv

(* Wiring, and Stop, take up all sockets that may carry a wrong mark.        *)
LEMMA ReplayTakesAll ==
    ASSUME TypeOK, Inv, Wire \/ StopReplays
    PROVE  SocketInv'
  <1>1. UNCHANGED <<life, maps, fds>>
    BY DEF Wire, StopReplays, ManagerFrame
  <1>2. UNCHANGED <<processes, mirror>> /\ \A k \in Key : Behind(k)' = Behind(k)
    BY <1>1 DEF maps, Behind
  <1>3. ASSUME NEW k \in Key, life[k] = "running", NEW f \in Vouched(k)' PROVE SocketOK(k, f)'
    <2>1. f \in Vouched(k) /\ SocketOK(k, f)
      BY <1>1, <1>3 DEF Vouched, Open, Inv, SocketInv
    <2>2. Unheard(k)' => fds'[k][f].mark = 0
      BY <1>1, <1>2, <2>1 DEF SocketOK, Unheard
    <2>3. CASE mirror[k] # Absent
      <3>1. mirror[k] # Dead
        BY <1>3 DEF Inv, MapInv, Ended
      <3>2. k \in replay'
        <4>1. CASE Wire
          BY <2>3, <3>1, <4>1 DEF Wire, Live, TypeOK, Value
        <4>2. CASE StopReplays
          <5>1. mgr = "wired"
            BY <4>2 DEF StopReplays, StopReceives, Inv, ManagerInv
          <5> QED BY <2>3, <4>2, <5>1 DEF StopReplays
        <4> QED BY <4>1, <4>2
      <3> QED BY <2>2, <3>2 DEF SocketOK, Queued
    <2>4. CASE mirror[k] = Absent /\ processes[k] # Absent
      <3>1. Behind(k)' /\ Unknown(k)'
        BY <1>2, <2>4 DEF Inv, MapInv, Unknown
      <3> QED BY <2>2, <3>1 DEF SocketOK, Excused
    <2>5. CASE mirror[k] = Absent /\ processes[k] = Absent
      <3>1. Due(k)' = 0 /\ Unheard(k)'
        BY <1>2, <2>5, MarksAreNumbers DEF Due, KernelFwmark, Unheard
      <3> QED BY <2>2, <3>1 DEF SocketOK
    <2> QED BY <2>3, <2>4, <2>5
  <1> QED BY <1>1, <1>3 DEF SocketInv

(* Every step keeps the sockets right, or somebody on the way to them.       *)
LEMMA SocketTrust ==
    ASSUME TypeOK, Inv, [Next]_vars
    PROVE  SocketInv'
  <1>0. \A j \in Key : life[j] = "running" => \A g \in Vouched(j) : SocketOK(j, g)
    BY DEF Inv, SocketInv
  <1>1. ASSUME \A j \in Key : life'[j] = "running" /\ Vouched(j)' # {} =>
                  /\ life[j] = "running" /\ processes'[j] = processes[j] /\ mirror'[j] = mirror[j]
                  /\ Behind(j)' = Behind(j),
               \A j \in Key : \A g \in Fd : fds'[j][g] = fds[j][g] \/ g \notin Vouched(j)',
               UNCHANGED replay,
               scan'.stage = scan.stage, scan'.key = scan.key, scan'.todo = scan.todo,
               ~(Wire \/ StopReplays \/ Crash)
        PROVE  SocketInv'
    <2>1. Serving' = Serving /\ (Wired' => Wired)
      BY <1>1, Serves
    <2>2. ASSUME NEW j \in Key, life'[j] = "running", NEW g \in Vouched(j)' PROVE SocketOK(j, g)'
      <3>1. g \in Fd /\ g \in Vouched(j) /\ fds'[j][g] = fds[j][g]
        BY <1>1, <2>2 DEF Vouched, Open
      <3>2. Queued(j, g) => Queued(j, g)'
        BY <1>1 DEF Queued
      <3> QED BY <1>0, <1>1, <2>1, <2>2, <3>1, <3>2, SocketFrame
    <2> QED BY <2>2 DEF SocketInv
  <1>a. UNCHANGED maps => UNCHANGED <<processes, mirror>> /\ \A j \in Key : Behind(j)' = Behind(j)
    BY DEF maps, Behind
  <1>2. ASSUME NEW k \in Key, Exit(k) \/ LeaderExit(k), ~(Wire \/ StopReplays \/ Crash)
        PROVE  SocketInv'
    <2>1. /\ UNCHANGED <<mirror, replay, scan>>
          /\ life'[k] # "running" /\ \A j \in Key : j # k => life'[j] = life[j]
          /\ \A j \in Key : \A g \in Fd : fds'[j][g] = fds[j][g] \/ fds'[j][g] = NoSocket
      BY <1>2 DEF Exit, LeaderExit, NoSockets, TypeOK
    <2>2. \A j \in Key : j # k => processes'[j] = processes[j] /\ Behind(j)' = Behind(j)
      <3>1. CASE ExitProgram(k)
        BY <3>1, ExitEffect
      <3>2. CASE UNCHANGED <<processes, owed, untold>>
        BY <3>2 DEF Behind
      <3> QED BY <1>2, <3>1, <3>2 DEF Exit, LeaderExit
    <2>3. \A j \in Key : \A g \in Fd : fds'[j][g] = fds[j][g] \/ g \notin Vouched(j)'
      BY <2>1 DEF Vouched, Open
    <2> QED BY <1>1, <1>2, <2>1, <2>2, <2>3
  <1>3. ASSUME NEW k \in Key, NEW f \in Fd, ~(Wire \/ StopReplays \/ Crash),
               CloseSocket(k, f) \/ \E m \in FwmarkValue : Accept(k, f, m)
        PROVE  SocketInv'
    <2>1. UNCHANGED <<life, maps, replay, scan>>
      BY <1>3 DEF CloseSocket, Accept
    <2>2. \A j \in Key : \A g \in Fd :
             fds'[j][g] = fds[j][g] \/ fds'[j][g] = NoSocket \/ ~fds'[j][g].sure
      BY <1>3 DEF CloseSocket, Accept, TypeOK
    <2>3. \A j \in Key : \A g \in Fd : fds'[j][g] = fds[j][g] \/ g \notin Vouched(j)'
      BY <2>2 DEF Vouched, Open
    <2> QED BY <1>1, <1>3, <1>a, <2>1, <2>3
  <1>4. ASSUME NEW k \in Key, Start(k), ~(Wire \/ StopReplays \/ Crash) PROVE SocketInv'
    <2>1. /\ UNCHANGED <<maps, fds, replay>>
          /\ scan'.stage = scan.stage /\ scan'.key = scan.key /\ scan'.todo = scan.todo
          /\ \A j \in Key : j # k => life'[j] = life[j]
      BY <1>4 DEF Start, TypeOK, Scan
    <2>2. Vouched(k)' = {}
      <3>1. ~Alive(k)
        BY <1>4 DEF Start, Alive
      <3>2. Vouched(k)' = Vouched(k)
        BY <2>1 DEF Vouched, Open
      <3> QED BY <3>1, <3>2, DeadHasNone DEF Inv
    <2> QED BY <1>1, <1>4, <1>a, <2>1, <2>2
  <1>5. ASSUME NEW k \in Key, NEW f, NEW op, NEW h, Enter(k, op, f, h),
               ~(Wire \/ StopReplays \/ Crash)
        PROVE  SocketInv'
    <2>1. UNCHANGED <<life, maps, fds, replay, scan>>
      BY <1>5 DEF Enter
    <2> QED BY <1>1, <1>5, <1>a, <2>1
  <1>6. CASE DecisionStep /\ ~(Wire \/ StopReplays \/ Crash)
    <2>1. PICK k \in Key : Decided(k)
      BY <1>6, DecisionEffect
    <2>2. Serving /\ mgr # "closing" /\ UNCHANGED <<stop, life, fds, mgr, replay>>
      BY <1>6, DecisionServes DEF dvars
    <2>3. CASE scan' = scan /\ Behind(k)'
      <3>1. Serving' = Serving /\ (Wired' => Wired)
        BY <2>2 DEF Serving, Wired
      <3>2. ASSUME NEW j \in Key, life[j] = "running", NEW g \in Vouched(j)' PROVE SocketOK(j, g)'
        <4>1. g \in Fd /\ g \in Vouched(j) /\ fds'[j][g] = fds[j][g]
          BY <2>2, <3>2 DEF Vouched, Open
        <4>2. CASE j = k
          BY <2>1, <2>2, <2>3, <3>1, <4>2 DEF Decided, SocketOK, Excused
        <4>3. CASE j # k
          <5>1. Queued(j, g) => Queued(j, g)'
            BY <2>2, <2>3 DEF Queued
          <5> QED BY <1>0, <2>1, <3>1, <3>2, <4>1, <4>3, <5>1, SocketFrame DEF Decided
        <4> QED BY <4>2, <4>3
      <3> QED BY <2>2, <3>2 DEF SocketInv
    <2>4. ASSUME NEW v \in Value \ {Absent}, ProcessUpdate(k, v), MutexFree, mirror'[k] = v
          PROVE  SocketInv'
      BY <2>1, <2>2, <2>4, UpdateSockets DEF Decided, MutexFree
    <2> QED BY <2>1, <2>3, <2>4 DEF Decided
  <1>7. ASSUME NEW k \in Key, ReplayNext(k) PROVE SocketInv'
    <2>1. mgr # "closing"
      BY <1>7 DEF ReplayNext, Inv, ManagerInv
    <2>2. Replayed(mirror[k]) \in Value
      BY DEF Replayed, Value, TypeOK
    <2>3. /\ ProcessUpdate(k, Replayed(mirror[k])) /\ scan.stage = "none" /\ replay' = replay \ {k}
          /\ UNCHANGED <<stop, life, mgr, fds, maps>>
      BY <1>7 DEF ReplayNext, ManagerFrame, dvars
    <2> QED BY <1>a, <2>1, <2>2, <2>3, UpdateSockets
  <1>8. CASE Crash
    <2>1. \A j \in Key : Vouched(j)' = {}
      BY <1>8, GivenUp DEF Crash, Vouched, Open
    <2> QED BY <2>1 DEF SocketInv
  <1>9. CASE /\ ~(Wire \/ StopReplays \/ Crash)
             /\ AttachHook \/ AttachHookFails \/ CloseHook \/ DaemonStep \/ UNCHANGED vars
    <2>1. UNCHANGED <<life, maps, fds, replay, scan>>
      BY <1>9 DEF AttachHook, AttachHookFails, CloseHook, ManagerFrame, DaemonStep, fvars, vars
    <2> QED BY <1>1, <1>9, <1>a, <2>1
  <1>10. CASE ProcessStep /\ ~(Wire \/ StopReplays \/ Crash)
    BY <1>2, <1>3, <1>4, <1>5, <1>10, CallSockets, FwmarkType
       DEF ProcessStep, EnterSocket, EnterConnect
  <1> QED BY <1>6, <1>7, <1>8, <1>9, <1>10, ScanSockets, ReplayTakesAll
          DEF Next, ManagerStep, ReplayStep

-----------------------------------------------------------------------------
(* The theorems *)

(* The invariant holds at the start.                                         *)
LEMMA InitInv ==
    Init => TypeOK /\ Inv
  <1> SUFFICES ASSUME Init PROVE TypeOK /\ Inv
    OBVIOUS
  <1>1. TypeOK
    <2>1. DaemonTypeOK
      BY DEF Init, DaemonInit, DaemonTypeOK
    <2>2. 0 \in 0..MaxChanges
      BY FwmarkAssumption
    <2> QED BY <2>1, <2>2, IdleTypes DEF Init, TypeOK, Value
  <1>2. DaemonInv /\ ManagerInv
    BY IdleTypes DEF Init, DaemonInit, DaemonInv, ManagerInv
  <1>3. ProcessInv /\ CallInv
    BY IdleTypes DEF Init, ProcessInv, Alive, CallInv, CallOK
  <1>4. MapInv /\ ScanInv
    BY IdleTypes, FwmarkAssumption DEF Init, MapInv, ScanInv, Behind
  <1>5. SocketInv
    BY DEF Init, SocketInv, Vouched, Open, NoSockets
  <1> QED BY <1>1, <1>2, <1>3, <1>4, <1>5 DEF Inv

(* The invariant is inductive.                                               *)
LEMMA Inductive ==
    Spec => [](TypeOK /\ Inv)
  <1>1. TypeOK /\ Inv /\ [Next]_vars => (TypeOK /\ Inv)'
    <2> SUFFICES ASSUME TypeOK, Inv, [Next]_vars PROVE TypeOK' /\ Inv'
      OBVIOUS
    <2>1. TypeOK'
      BY TypeStep
    <2>2. DaemonInv'
      BY DaemonView, DaemonSteps DEF TypeOK, Inv
    <2> QED BY <2>1, <2>2, ManagerOrder, ProcessOrder, MapOrder, ScanTrack, CallTrust, SocketTrust
            DEF Inv
  <1> QED BY <1>1, InitInv, PTL DEF Spec

(* Type correctness of the socket marker and of the daemon's life cycle, for *)
(* every number of processes and descriptors.                                *)
THEOREM TypeCorrect == Spec => []TypeOK
  BY Inductive, PTL

(* No tracepoint program stays attached that nobody will detach, whichever   *)
(* attach fails, whoever closes first and wherever the daemon is killed.     *)
THEOREM LinksDetached == Spec => []NoDanglingLinks
  <1>1. TypeOK /\ Inv => NoDanglingLinks
    BY DEF TypeOK, DaemonTypeOK, Inv, DaemonInv, NoDanglingLinks
  <1> QED BY <1>1, Inductive, PTL

(* A scan is of the process it was asked about, unless the PID changed hands *)
(* between processMatchesKey and pidfd_open.                                 *)
THEOREM ScanIsOfItsProcess == Spec => []ScanOwnProcess
  <1>1. TypeOK /\ Inv => ScanOwnProcess
    BY DEF Inv, ScanInv, ScanOwnProcess
  <1> QED BY <1>1, Inductive, PTL

(* Whatever hooks and scans raced with, and whichever Puts failed and events *)
(* were dropped, the sockets of a running process about which nothing is     *)
(* under way carry the fwmark of its map entry, with the exceptions that     *)
(* SocketsFollow names.                                                      *)
THEOREM SocketsAreMarked == Spec => []SocketsFollow
  <1>1. ASSUME TypeOK, Inv PROVE SocketsFollow
    <2>1. ASSUME NEW k \in Key, mgr = "wired", Serving, life[k] = "running", Quiet(k),
                 NEW f \in Vouched(k)
          PROVE  fds[k][f].mark = KernelFwmark(processes[k])
      <3>1. fds[k][f].mark = Due(k) \/ Queued(k, f) \/ Excused(k)
        BY <1>1, <2>1 DEF Inv, SocketInv, SocketOK, Wired
      <3>2. ~Queued(k, f) /\ ~Excused(k)
        BY <2>1 DEF Quiet, MutexFree, Queued, Excused
      <3> QED BY <2>1, <3>1, <3>2 DEF Due
    <2> QED BY <2>1 DEF SocketsFollow, Serving
  <1> QED BY <1>1, Inductive, PTL

(* After Stop no socket of a running process that the mirror knows carries a *)
(* fwmark any more, with the exceptions that StopClears names.               *)
THEOREM StopLeavesNoMark == Spec => []StopClears
  <1>1. ASSUME TypeOK, Inv PROVE StopClears
    <2>1. ASSUME NEW k \in Key, Wired, stop = "returned", life[k] = "running", ~Unknown(k),
                 NEW f \in Vouched(k)
          PROVE  fds[k][f].mark = 0
      <3>1. fds[k][f].mark = Due(k) \/ Queued(k, f) \/ Excused(k)
        BY <1>1, <2>1 DEF Inv, SocketInv, SocketOK
      <3>2. ~Queued(k, f) /\ ~Excused(k) /\ Due(k) = 0
        BY <1>1, <2>1 DEF Inv, ManagerInv, Queued, Excused, Serving, Due
      <3> QED BY <3>1, <3>2
    <2> QED BY <2>1 DEF StopClears, Wired
  <1> QED BY <1>1, Inductive, PTL
=============================================================================
