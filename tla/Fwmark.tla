------------------------------- MODULE Fwmark -------------------------------
(***************************************************************************)
(* The socket marker (package fwmark) beside a Daemon: the cgroup programs *)
(* of fwmark.c, which read the process map when a process creates or       *)
(* connects a socket; the descriptor scan of fwmark.go, which ProcessUpdate*)
(* starts under marker.mu; and main, which attaches the programs, wires    *)
(* the callback with UpdateHooks and takes everything down after Stop.     *)
(*                                                                         *)
(* What the daemon decides is in PMark.  Here a decision is any value that *)
(* the map may hold: the daemon puts it into its mirror, writes it to the  *)
(* map, which may fail, and calls ProcessUpdate; or a tracepoint program   *)
(* writes it, and the callback comes with the event, unless that is        *)
(* dropped or handled without one.                                         *)
(***************************************************************************)
EXTENDS Daemon, FiniteSets

CONSTANTS
    Key, Pid, PidOf,     \* process lifetimes and the PID of each
    Fd,                  \* descriptor numbers
    Mark, Half,          \* marks, and 2^32: the fwmark is the upper half
    Absent, Dead, Plain, \* map values: no entry, a tombstone, no mark
    NoKey, NoSocket,
    MaxChanges           \* bound on changes of the process map, a fresh one included

ASSUME FwmarkAssumption ==
    /\ PidOf \in [Key -> Pid] /\ NoKey \notin Key
    /\ Half \in Nat \ {0} /\ Mark \subseteq 0..Half * Half - 1
    /\ \A v \in {Absent, Dead, Plain} : v \notin Nat
    /\ Absent # Dead /\ Absent # Plain /\ Dead # Plain
    /\ Fd # {}
    /\ MaxChanges \in Nat

Hooks == <<"sock_create", "connect4", "connect6">>
Hook == {"sock_create", "connect4", "connect6"}
Value == Mark \cup {Absent, Dead, Plain}

FromMark(m) == m \div Half

FwmarkValue == 0..Half - 1

\* current_process_fwmark: what the programs make of a map value; 0 is none.
KernelFwmark(v) == IF v \in Mark THEN v \div Half ELSE 0

\* applyProcessUpdate: what a scan makes of it.
ScanFwmark(v) == IF v \in Mark THEN FromMark(v) ELSE 0

VARIABLES
    life,        \* [Key -> unborn, running, leaderless or gone]
    processes,   \* [Key -> Value]: the pinned map
    mirror,      \* [Key -> Value]: the daemon's copy
    owed,        \* [Key -> Nat]: events about it in the ring
    untold,      \* keys changed since ProcessUpdate last told what map and
                 \* mirror both say: an event was dropped, handled without
                 \* a callback, or a Put failed (history)
    fds,         \* [Key -> [Fd -> socket]]: the descriptor tables
    call,        \* [Key -> the socket or connect call it is in]
    hooks,       \* cgroup programs that are attached
    mgr,         \* the Manager: attaching, attached, wired, closing
    replay,      \* keys that UpdateHooks or Stop still has to replay
    scan,        \* the ProcessUpdate that is being applied
    changes

maps == <<processes, mirror, owed, untold>>
fvars == <<life, maps, fds, call, hooks, mgr, replay, scan, changes>>
vars == <<dvars, fvars>>

(* A socket, and whether its mark is vouched for (history): the last thing  *)
(* that set it, a hook or a scan, did not overlap with a change of the      *)
(* process's mark.                                                          *)
Socket == [mark : FwmarkValue, sure : BOOLEAN]

ASSUME SocketAssumption == NoSocket \notin Socket

\* A system call: the fwmark its hook found, and whether that was overtaken.
Call == [op : {"none", "socket", "connect"}, fd : Fd, mark : FwmarkValue, stale : BOOLEAN]
NoCall == [op |-> "none", fd |-> CHOOSE f \in Fd : TRUE, mark |-> 0, stale |-> FALSE]

Scan == [stage : {"none", "match", "list", "open", "set"}, key : Key \cup {NoKey},
         value : Value, target : Key \cup {NoKey}, todo : SUBSET Fd,
         swapped : BOOLEAN]   \* history: the PID changed hands before pidfd_open
NoScan == [stage |-> "none", key |-> NoKey, value |-> Absent, target |-> NoKey,
           todo |-> {}, swapped |-> FALSE]

TypeOK ==
    /\ DaemonTypeOK
    /\ life \in [Key -> {"unborn", "running", "leaderless", "gone"}]
    /\ processes \in [Key -> Value] /\ mirror \in [Key -> Value]
    /\ owed \in [Key -> Nat] /\ untold \subseteq Key
    /\ fds \in [Key -> [Fd -> Socket \cup {NoSocket}]]
    /\ call \in [Key -> Call]
    /\ hooks \subseteq Hook
    /\ mgr \in {"attaching", "attached", "wired", "closing"}
    /\ replay \subseteq Key
    /\ scan \in Scan /\ (scan.stage = "set" <=> scan.target \in Key)
    /\ changes \in 0..MaxChanges

NoSockets == [f \in Fd |-> NoSocket]

Init ==
    /\ DaemonInit
    /\ life = [k \in Key |-> "unborn"]
    /\ processes = [k \in Key |-> Absent] /\ mirror = processes
    /\ owed = [k \in Key |-> 0] /\ untold = {}
    /\ fds = [k \in Key |-> NoSockets]
    /\ call = [k \in Key |-> NoCall]
    /\ hooks = {} /\ mgr = "attaching"
    /\ replay = {} /\ scan = NoScan
    /\ changes = 0

\* A process lives as long as one of its threads, and keeps its PID.
Alive(k) == life[k] \in {"running", "leaderless"}

\* The process that has PID p, if any.
Holder(p) == {k \in Key : PidOf[k] = p /\ Alive(k)}

\* The calls of the keys in K that are under way have been overtaken.
Overtake(K) ==
    call' = [k \in Key |-> IF k \in K /\ call[k].op # "none" THEN [call[k] EXCEPT !.stale = TRUE]
                           ELSE call[k]]

-----------------------------------------------------------------------------
(* Processes.  A system call first runs its cgroup program and then takes   *)
(* effect: a new socket enters the descriptor table, a connection is made.  *)

Start(k) ==
    /\ life[k] = "unborn" /\ Holder(PidOf[k]) = {}
    /\ life' = [life EXCEPT ![k] = "running"]
    /\ scan' = IF scan.stage \in {"list", "open"} /\ PidOf[scan.key] = PidOf[k]
               THEN [scan EXCEPT !.swapped = TRUE] ELSE scan
    /\ UNCHANGED <<dvars, maps, fds, call, hooks, mgr, replay, changes>>

\* bpf_ringbuf_reserve: if the ring is full the event is dropped.
Submit(k) ==
    \/ owed' = [owed EXCEPT ![k] = @ + 1] /\ UNCHANGED untold
    \/ untold' = untold \cup {k} /\ UNCHANGED owed

\* The exit program, when a leader exits.  The event of a process that nobody
\* knows is ignored.
ExitProgram(k) ==
    IF "exit" \in links /\ {processes[k], mirror[k]} # {Absent}
    THEN /\ processes' = [processes EXCEPT ![k] = IF @ = Absent THEN Absent ELSE Dead]
         /\ Submit(k)
    ELSE UNCHANGED <<processes, owed, untold>>

\* The leader exits, and other threads go on with the sockets.  (It stays
\* leaderless here if one of them takes the leader's place with an exec.)
LeaderExit(k) ==
    /\ life[k] = "running"
    /\ life' = [life EXCEPT ![k] = "leaderless"]
    /\ ExitProgram(k) /\ Overtake({k})
    /\ UNCHANGED <<dvars, mirror, fds, hooks, mgr, replay, scan, changes>>

\* All threads exit.  With its last descriptor a socket is gone.
Exit(k) ==
    /\ Alive(k)
    /\ life' = [life EXCEPT ![k] = "gone"]
    /\ fds' = [fds EXCEPT ![k] = NoSockets]
    /\ call' = [call EXCEPT ![k] = NoCall]
    /\ IF life[k] = "running" THEN ExitProgram(k) ELSE UNCHANGED <<processes, owed, untold>>
    /\ UNCHANGED <<dvars, mirror, hooks, mgr, replay, scan, changes>>

\* After Stop's replay began the map is not to be trusted any more.
Outdated(h) == h \in hooks /\ stop \in {"replay", "returned"}

\* The program of hook h, if it is attached.
Lookup(k, h) == IF h \in hooks THEN KernelFwmark(processes[k]) ELSE 0

Enter(k, op, f, h) ==
    /\ Alive(k) /\ call[k].op = "none"
    /\ call' = [call EXCEPT ![k] = [op |-> op, fd |-> f, mark |-> Lookup(k, h),
                                    stale |-> Outdated(h)]]
    /\ UNCHANGED <<dvars, life, maps, fds, hooks, mgr, replay, scan, changes>>

\* socket(2): fwmark_sock_create.
EnterSocket(k, f) == fds[k][f] = NoSocket /\ Enter(k, "socket", f, "sock_create")

\* connect(2): fwmark_connect4 or fwmark_connect6.
EnterConnect(k, f, h) ==
    /\ fds[k][f] # NoSocket
    /\ Enter(k, "connect", f, h)

Leave(k, socket) ==
    /\ fds' = [fds EXCEPT ![k][call[k].fd] = socket]
    /\ call' = [call EXCEPT ![k] = NoCall]
    /\ UNCHANGED <<dvars, life, maps, hooks, mgr, replay, scan, changes>>

SocketInstalled(k) ==
    /\ call[k].op = "socket"
    /\ Leave(k, [mark |-> call[k].mark, sure |-> ~call[k].stale])

Remarked(k) == [mark |-> call[k].mark, sure |-> ~call[k].stale]

\* A process without a fwmark connects with the mark that the socket has.  If
\* bpf_setsockopt fails, connect(2) fails, and the socket stays as it is too.
ConnectDone(k) ==
    /\ call[k].op = "connect"
    /\ \/ call[k].mark # 0 /\ Leave(k, Remarked(k))
       \/ Leave(k, fds[k][call[k].fd])

\* accept(2) runs no hook: the socket has the mark that its listener had when
\* the connection was requested, whatever happened to the listener since.
Accept(k, f, m) ==
    /\ Alive(k) /\ call[k].op = "none" /\ fds[k][f] = NoSocket
    /\ fds' = [fds EXCEPT ![k][f] = [mark |-> m, sure |-> FALSE]]
    /\ UNCHANGED <<dvars, life, maps, call, hooks, mgr, replay, scan, changes>>

CloseSocket(k, f) ==
    /\ call[k].op = "none" /\ fds[k][f] # NoSocket
    /\ fds' = [fds EXCEPT ![k][f] = NoSocket]
    /\ UNCHANGED <<dvars, life, maps, call, hooks, mgr, replay, scan, changes>>

ProcessStep ==
    \E k \in Key :
      \/ Start(k) \/ LeaderExit(k) \/ Exit(k)
      \/ \E f \in Fd : \/ EnterSocket(k, f) \/ CloseSocket(k, f)
                       \/ \E h \in {"connect4", "connect6"} : EnterConnect(k, f, h)
                       \/ \E v \in Value : Accept(k, f, KernelFwmark(v))
      \/ SocketInstalled(k) \/ ConnectDone(k)

-----------------------------------------------------------------------------
(* The descriptor scan: applyProcessUpdate and SetProcessSocketsMarkReport  *)

MutexFree == scan.stage = "none" /\ replay = {}

\* onProcessUpdate: before UpdateHooks the callback only logs.
ProcessUpdate(k, v) ==
    scan' = IF mgr = "wired" THEN [NoScan EXCEPT !.stage = "match", !.key = k, !.value = v]
            ELSE scan

ScanFrame == UNCHANGED <<dvars, life, maps, call, hooks, mgr, replay, changes>>

\* Mutant: any process under the PID will do.
MatchesPid(k) == Holder(PidOf[k]) # {}

\* processMatchesKey: the start time in /proc/PID/stat is the key's.
MatchesKey(k) == k \in Holder(PidOf[k])

ScanMatch ==
    /\ scan.stage = "match"
    /\ scan' = IF scan.value = Dead \/ ~MatchesKey(scan.key) THEN NoScan
               ELSE [scan EXCEPT !.stage = "list"]
    /\ UNCHANGED fds /\ ScanFrame

Open(k) == {f \in Fd : fds[k][f] # NoSocket}

\* ReadDir of /proc/PID/fd.
ScanList ==
    /\ scan.stage = "list"
    /\ LET H == Holder(PidOf[scan.key]) IN
       scan' = IF H = {} THEN NoScan
               ELSE [scan EXCEPT !.stage = "open", !.todo = UNION {Open(k) : k \in H}]
    /\ UNCHANGED fds /\ ScanFrame

\* Mutant: the error of pidfd_open is not looked at.
ScanOpenUnchecked ==
    /\ scan.stage = "open"
    /\ LET H == Holder(PidOf[scan.key]) IN
       \/ H = {} /\ scan' = [scan EXCEPT !.stage = "set"]
       \/ \E k \in H : scan' = [scan EXCEPT !.stage = "set", !.target = k]
    /\ UNCHANGED fds /\ ScanFrame

\* From pidfd_open on the process cannot be confused with another any more.
ScanOpen ==
    /\ scan.stage = "open"
    /\ LET H == Holder(PidOf[scan.key]) IN
       \/ H = {} /\ scan' = NoScan
       \/ \E k \in H : scan' = [scan EXCEPT !.stage = "set", !.target = k]
    /\ UNCHANGED fds /\ ScanFrame

\* Nobody vouches for the sockets of the keys in K any more.
GiveUp(K) ==
    fds' = [k \in Key |-> [f \in Fd |->
               IF k \in K /\ fds[k][f] # NoSocket THEN [fds[k][f] EXCEPT !.sure = FALSE]
               ELSE fds[k][f]]]

\* ReadDir or pidfd_open fails on a process that is there: EPERM, EACCES or
\* another error, which is logged; or a leader that has exited shows no
\* descriptors.
ScanRefused ==
    /\ scan.stage \in {"list", "open"}
    /\ \E k \in Holder(PidOf[scan.key]) : GiveUp({k})
    /\ scan' = NoScan
    /\ ScanFrame

\* setProcessFDMark on a socket that is (still, or again) under the number.
ScanSet(f) ==
    /\ scan.stage = "set" /\ f \in scan.todo
    /\ scan' = [scan EXCEPT !.todo = @ \ {f}]
    /\ f \in Open(scan.target)
    /\ fds' = [fds EXCEPT ![scan.target][f].mark = ScanFwmark(scan.value),
                          ![scan.target][f].sure = (scan.target = scan.key)]
    /\ ScanFrame

\* EBADF or ESRCH; or EPERM, or a failing socket option, which is logged.
ScanSkip(f) ==
    /\ scan.stage = "set" /\ f \in scan.todo
    /\ scan' = [scan EXCEPT !.todo = @ \ {f}]
    /\ fds' = IF f \in Open(scan.target) THEN [fds EXCEPT ![scan.target][f].sure = FALSE] ELSE fds
    /\ ScanFrame

ScanDone ==
    /\ scan.stage = "set" /\ scan.todo = {}
    /\ scan' = NoScan
    /\ UNCHANGED fds /\ ScanFrame

ScanStep == ScanMatch \/ ScanList \/ ScanOpen \/ ScanRefused \/ ScanDone
            \/ \E f \in Fd : ScanSet(f) \/ ScanSkip(f)

-----------------------------------------------------------------------------
(* The daemon's decisions *)

Count == changes < MaxChanges /\ changes' = changes + 1

\* The map refuses a key it does not have when it is full, with the entries of
\* processes outside the model, and everything once it is closed.
Put(k, v) == objs = "open" /\ processes' = [processes EXCEPT ![k] = v]
PutFails(k) == (objs = "closed" \/ processes[k] = Absent) /\ UNCHANGED processes

\* Mutant: the callback is left out.
UpsertWithoutCallback(k, v) ==
    /\ mirror' = [mirror EXCEPT ![k] = v]
    /\ \/ Put(k, v) /\ untold' = untold \ {k}
       \/ PutFails(k) /\ untold' = untold \cup {k}
    /\ UNCHANGED scan

\* upsertProcessWithLog: mirror, Put and callback, all under marker.mu.  A
\* Put that fails is logged.
Upsert(k, v) ==
    /\ mirror' = [mirror EXCEPT ![k] = v]
    /\ \/ Put(k, v) /\ untold' = untold \ {k}
       \/ PutFails(k) /\ untold' = untold \cup {k}
    /\ ProcessUpdate(k, v)

\* A winner that the mirror has already, or an upsert with logUpdate = false.
UpsertSilently(k, v) ==
    /\ mirror' = [mirror EXCEPT ![k] = v]
    /\ Put(k, v) \/ UNCHANGED processes
    /\ untold' = untold \cup {k}
    /\ UNCHANGED scan

\* A tombstone is of a process whose leader has exited, and is final.
MayBecome(k, v) ==
    /\ v = Dead => life[k] \in {"leaderless", "gone"}
    /\ mirror[k] = Dead => v = Dead

\* A traversal, the sweep of dead processes, SetProcessMark, or an event of a
\* program that wrote nothing.  Close does not wait for them.  After Stop there
\* are none: a traversal needs the map, and main does not call SetProcessMark.
Decide(k, v) ==
    /\ MutexFree /\ stop \in {"no", "waiting"} /\ life[k] # "unborn"
    /\ Count /\ MayBecome(k, v) /\ Upsert(k, v) /\ Overtake({k})
    /\ UNCHANGED <<dvars, life, owed, fds, hooks, mgr, replay>>

ProgramWrites(k, v) ==
    /\ Count
    /\ processes' = [processes EXCEPT ![k] = v]
    /\ Submit(k) /\ Overtake({k})
    /\ UNCHANGED <<dvars, life, mirror, fds, hooks, mgr, replay, scan>>

\* The fork program lets a child that has no entry inherit a mark.
ForkWrites(k, v) ==
    /\ "fork" \in links /\ life[k] = "running"
    /\ v \in Mark /\ processes[k] = Absent
    /\ ProgramWrites(k, v)

\* The exec program decides; a miss without an entry writes nothing.
ExecWrites(k, v) ==
    /\ "exec" \in links /\ Alive(k)
    /\ processes[k] # Dead /\ (v = Plain => processes[k] # Absent)
    /\ ProgramWrites(k, v)

\* handleEvent merges what the event says, decides anew, and as a rule tells
\* the consumer.  The event may be an old one, and the decision another than
\* the program's; of two updates by one event the last one counts.
HandleEvent(k, v) ==
    /\ loop = "reading" /\ MutexFree /\ owed[k] > 0
    /\ owed' = [owed EXCEPT ![k] = @ - 1]
    /\ MayBecome(k, v) /\ Overtake({k})
    /\ Upsert(k, v) \/ UpsertSilently(k, v)
    /\ UNCHANGED <<dvars, life, fds, hooks, mgr, replay, changes>>

\* refreshMirrorFromKernelLocked, before a traversal: the better of the two
\* values goes to both sides, and no consumer is told.
Refresh(k) ==
    /\ MutexFree /\ objs = "open" /\ processes[k] \notin {Absent, mirror[k]}
    /\ \/ mirror[k] # Dead
          /\ mirror' = [mirror EXCEPT ![k] = processes[k]] /\ UNCHANGED processes
       \/ mirror[k] # Absent /\ processes[k] # Dead
          /\ processes' = [processes EXCEPT ![k] = mirror[k]] /\ UNCHANGED mirror
    /\ Overtake({k})
    /\ UNCHANGED <<dvars, life, owed, untold, fds, hooks, mgr, replay, scan, changes>>

DecisionStep ==
    \E k \in Key :
      \/ Refresh(k)
      \/ \E v \in Mark \cup {Plain} : ForkWrites(k, v) \/ ExecWrites(k, v)
      \/ \E v \in Mark \cup {Plain, Dead} : Decide(k, v) \/ HandleEvent(k, v)

-----------------------------------------------------------------------------
(* NewManager, UpdateHooks, Stop's replay, Manager.Close and a crash.  main *)
(* sets the manager up before it calls Run, and closes it after Stop.       *)

ManagerFrame == UNCHANGED <<dvars, life, maps, fds, changes>>

AttachHook ==
    /\ mgr = "attaching"
    /\ hooks' = hooks \cup {Hooks[Cardinality(hooks) + 1]}
    /\ mgr' = IF hooks' = Hook THEN "attached" ELSE mgr
    /\ UNCHANGED <<call, replay, scan>> /\ ManagerFrame

\* NewManager closes what it attached and returns the error.
AttachHookFails ==
    /\ mgr = "attaching" /\ hooks # {}
    /\ hooks' = {}
    /\ UNCHANGED <<mgr, call, replay, scan>> /\ ManagerFrame

Live(v) == v \in Mark \cup {Plain}

\* UpdateHooks: the callback is installed and the live entries are replayed.
Wire ==
    /\ mgr = "attached" /\ MutexFree
    /\ mgr' = "wired"
    /\ replay' = {k \in Key : Live(mirror[k])}
    /\ Overtake(Key)
    /\ UNCHANGED <<hooks, scan>> /\ ManagerFrame

\* Mutant: Stop replays the values as they are.
ReplayedAsIs(v) == v

\* Stop replays copies without a mark; a tombstone stays one.
Replayed(v) == IF stop = "replay" /\ Live(v) THEN Plain ELSE v

ReplayNext(k) ==
    /\ scan.stage = "none" /\ k \in replay
    /\ replay' = replay \ {k}
    /\ ProcessUpdate(k, Replayed(mirror[k]))
    /\ UNCHANGED <<hooks, mgr, call>> /\ ManagerFrame

StopReplays ==
    /\ StopReceives /\ MutexFree
    /\ replay' = IF mgr = "wired" THEN {k \in Key : mirror[k] # Absent} ELSE {}
    /\ Overtake(Key)
    /\ UNCHANGED <<life, maps, fds, hooks, mgr, scan, changes>>

\* main's deferred Close, after Stop: the programs go one by one.
CloseHook ==
    /\ stop = "returned" /\ mgr \in {"wired", "closing"} /\ hooks # {}
    /\ mgr' = "closing"
    /\ hooks' = hooks \ {Hooks[4 - Cardinality(hooks)]}
    /\ UNCHANGED <<call, replay, scan>> /\ ManagerFrame

(* The daemon is killed; the kernel detaches everything it held, and the    *)
(* next NewDaemon starts with fresh maps.  Sockets keep their marks.        *)
Crash ==
    /\ Count /\ Restart
    /\ processes' = [k \in Key |-> Absent] /\ mirror' = processes'
    /\ owed' = [k \in Key |-> 0] /\ untold' = {}
    /\ hooks' = {} /\ mgr' = "attaching" /\ replay' = {} /\ scan' = NoScan
    /\ GiveUp(Key) /\ Overtake(Key)
    /\ UNCHANGED life

ManagerStep == AttachHook \/ AttachHookFails \/ Wire \/ CloseHook
ReplayStep == \E k \in Key : ReplayNext(k)
DaemonStep ==
    /\ \/ RunStep \/ LoopStep
       \/ CallStep /\ mgr = "wired"
       \/ StopReturn /\ MutexFree
    /\ UNCHANGED fvars

Next ==
    \/ ProcessStep \/ ScanStep \/ DecisionStep
    \/ ManagerStep \/ ReplayStep \/ StopReplays \/ DaemonStep \/ Crash

Spec == Init /\ [][Next]_vars

-----------------------------------------------------------------------------
\* An event about k is still to be handled, or nobody has told of its value.
Behind(k) == owed[k] > 0 \/ k \in untold

\* No update about k is under way.
Quiet(k) == MutexFree /\ ~Behind(k)

Vouched(k) == {f \in Open(k) : fds[k][f].sure}

(* Sockets follow the map: once no update about a running process is under   *)
(* way, every socket of it carries the fwmark of its map entry, whether a    *)
(* hook or a scan put it there and whatever they raced with.  Nothing is     *)
(* said of a process that consumers were not told about since it changed:    *)
(* its event was dropped or handled without a callback, or the Put of the    *)
(* value they were told failed in a full or closed map; the next update      *)
(* whose Put works ends that.  Nor of a process whose leader has exited,     *)
(* which has a tombstone; nor of a socket whose own creation or connect      *)
(* overlapped with the last change, that accept made, that a scan was not    *)
(* allowed to touch, or that a former holder of the PID or a daemon that was *)
(* killed left behind; the next scan, or a connect that finds a fwmark (and  *)
(* is refused if it cannot set it), ends each of these.                      *)
SocketsFollow ==
    \A k \in Key :
      mgr = "wired" /\ stop \in {"no", "waiting"} /\ life[k] = "running" /\ Quiet(k) =>
        \A f \in Vouched(k) : fds[k][f].mark = KernelFwmark(processes[k])

\* Only the map has an entry for k: its event was never handled.
Unknown(k) == mirror[k] = Absent /\ processes[k] # Absent

(* Stop leaves no mark behind: afterwards no socket of a running process     *)
(* carries one, although Puts failed and events were dropped or are still in *)
(* the ring; except of a process that the mirror does not have, or whose     *)
(* leader has exited, a socket that a hook marked between the replay and its *)
(* own removal, and the sockets that SocketsFollow does not vouch for.       *)
StopClears ==
    \A k \in Key :
      mgr \in {"wired", "closing"} /\ stop = "returned" /\ life[k] = "running" /\ ~Unknown(k) =>
        \A f \in Vouched(k) : fds[k][f].mark = 0

(* A scan works on the process it was asked about: only if the PID changed   *)
(* hands between the check of the start time and pidfd_open is it another.   *)
ScanOwnProcess == scan.stage = "set" /\ ~scan.swapped => scan.target = scan.key
=============================================================================
