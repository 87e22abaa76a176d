----------------------------- MODULE MultiRule -----------------------------
(***************************************************************************)
(* The userspace rule tracker (multirule.go): which registered rules each  *)
(* observed process lifetime matches, by itself or through its parent.     *)
(* Parents are found by PID, through the lifetime that was last observed   *)
(* under that PID, so entries of several lifetimes and stale parent PIDs   *)
(* take part.                                                              *)
(*                                                                         *)
(* Tracker.mu makes each method one step, except that RegisterRule is the  *)
(* loop it is: it holds the mutex (pc # "free") while it walks down the    *)
(* tracked processes.  The daemon feeds the tracker through CheckCallback  *)
(* and ProcessEventCallback; the process tree is the environment.          *)
(***************************************************************************)
EXTENDS Naturals, FiniteSets

CONSTANTS
    Key, Pid,        \* process lifetimes, and the PIDs they run under
    TgidOf,          \* [Key -> Pid]
    NoPid,           \* the parent PID of a root, and of exec and exit events
    NoKey,           \* no lifetime
    Comm, InitComm,  \* what rules look at: command names
    Rules,           \* the rules that callers register
    NoRule,          \* an ID without a rule
    Untracked,       \* a lifetime without an entry
    MaxID,           \* ^uint64(0)
    MaxMoves         \* bound on what processes do

\* A rule is known by the command names it matches.
Rule == [comms : SUBSET Comm]
ID == 1..MaxID

Info == [ppid : Pid \cup {NoPid}, comm : Comm]
Process == [info : Info, ids : SUBSET ID]

ASSUME MultiRuleAssumption ==
    /\ TgidOf \in [Key -> Pid]
    /\ NoPid \notin Pid /\ NoKey \notin Key
    /\ InitComm \in Comm
    /\ Rules \subseteq Rule
    /\ NoRule \notin Rule /\ Untracked \notin Process
    /\ MaxID \in Nat \ {0} /\ MaxMoves \in Nat

VARIABLES
    nextID, rules,       \* Tracker.nextID, Tracker.rules
    processes,           \* Tracker.processes
    latestPID,           \* Tracker.latestPID
    pc, reg,             \* RegisterRule: whether it runs, and its locals
    life, ppid, comm,    \* the processes, as /proc shows them
    birth,               \* what the fork event of a process says of it
    exited,              \* processes whose exit event was handled
    ancestors,           \* history: the processes each one descends from
    moves                \* history: steps of processes so far

tracker == <<nextID, rules, processes, latestPID, pc, reg>>
world == <<life, ppid, comm, birth, exited, ancestors, moves>>
vars == <<tracker, world>>

\* `stack' is the set of keys still to pop: Go's map iteration gives them no
\* order, and a key that is popped twice is skipped the second time.
Registration == [id : ID, roots : SUBSET Key, stack : SUBSET Key, seen : SUBSET Key]
NoRegistration == [id |-> 1, roots |-> {}, stack |-> {}, seen |-> {}]

TypeOK ==
    /\ nextID \in ID
    /\ rules \in [ID -> Rule \cup {NoRule}]
    /\ processes \in [Key -> Process \cup {Untracked}]
    /\ latestPID \in [Pid -> Key \cup {NoKey}]
    /\ pc \in {"free", "propagate"}
    /\ reg \in Registration
    /\ life \in [Key -> {"unborn", "running", "zombie", "gone"}]
    /\ ppid \in [Key -> Pid \cup {NoPid}]
    /\ comm \in [Key -> Comm]
    /\ birth \in [Key -> Info]
    /\ exited \subseteq Key
    /\ ancestors \in [Key -> SUBSET Key]
    /\ moves \in Nat

\* New, on a host where no process of Key runs yet.
Init ==
    /\ nextID = 1
    /\ rules = [id \in ID |-> NoRule]
    /\ processes = [k \in Key |-> Untracked]
    /\ latestPID = [p \in Pid |-> NoKey]
    /\ pc = "free" /\ reg = NoRegistration
    /\ life = [k \in Key |-> "unborn"]
    /\ ppid = [k \in Key |-> NoPid]
    /\ comm = [k \in Key |-> InitComm]
    /\ birth = [k \in Key |-> [ppid |-> NoPid, comm |-> InitComm]]
    /\ exited = {}
    /\ ancestors = [k \in Key |-> {}]
    /\ moves = 0

-----------------------------------------------------------------------------
(* Helpers *)

Tracked == {k \in Key : processes[k] # Untracked}
Registered == {id \in ID : rules[id] # NoRule}
Holders(id) == {k \in Tracked : id \in processes[k].ids}

Latest(p) == IF p \in Pid THEN latestPID[p] ELSE NoKey

\* childrenByParentLocked
Children(k) == {c \in Tracked : Latest(processes[c].info.ppid) = k}

Matching(info) == {id \in Registered : info.comm \in rules[id].comms}

\* ids[ruleID] = struct{}{} in the entries of `keys'.
Mark(keys, id) ==
    [k \in Key |-> IF k \in keys THEN [processes[k] EXCEPT !.ids = @ \cup {id}]
                                 ELSE processes[k]]

-----------------------------------------------------------------------------
(* RegisterRule *)

\* Mutant: the counter passes through 0.
SuccThroughZero(id) == (id + 1) % (MaxID + 1)

\* nextID++; 0 is not an ID.
Succ(id) == IF id = MaxID THEN 1 ELSE id + 1

\* How many increments it takes from nextID to id.
Distance(id) == (id + MaxID - nextID) % MaxID

\* Mutant: the search for an unused ID is left out.
NextUnchecked(id) == id = nextID

\* The first ID from nextID on, around the end of uint64, that no rule has.
NextUnused(id) ==
    /\ rules[id] = NoRule
    /\ \A j \in ID : rules[j] = NoRule => Distance(id) <= Distance(j)

RegisterRule(rule, id) ==
    LET roots == {k \in Tracked : processes[k].info.comm \in rule.comms}
    IN  /\ pc = "free"
        /\ NextUnused(id)
        /\ nextID' = Succ(id)
        /\ rules' = [rules EXCEPT ![id] = rule]
        /\ processes' = Mark(roots, id)
        /\ reg' = [id |-> id, roots |-> roots, stack |-> roots, seen |-> {}]
        /\ pc' = "propagate"
        /\ UNCHANGED <<latestPID, world>>

\* Mutant: a key on the stack is always expanded.
NeverSeen(k) == FALSE

Seen(k) == k \in reg.seen

\* Mutant: the walk ends at the children of the direct matches.
PushNothing(k) == {}

Push(k) == Children(k)

\* One round of propagateRuleToDescendantsLocked.
Pop(k) ==
    /\ pc = "propagate" /\ k \in reg.stack
    /\ IF Seen(k)
       THEN /\ reg' = [reg EXCEPT !.stack = @ \ {k}]
            /\ UNCHANGED processes
       ELSE /\ reg' = [reg EXCEPT !.stack = (@ \ {k}) \cup Push(k),
                                  !.seen = @ \cup {k}]
            /\ processes' = Mark(Children(k), reg.id)
    /\ UNCHANGED <<nextID, rules, latestPID, pc, world>>

RegisterReturns ==
    /\ pc = "propagate" /\ reg.stack = {}
    /\ pc' = "free" /\ reg' = NoRegistration
    /\ UNCHANGED <<nextID, rules, processes, latestPID, world>>

-----------------------------------------------------------------------------
(* UnregisterRule, ApplyProcess and ApplyProcessEvent *)

\* Mutant: only the processes that match the rule themselves lose its ID.
UnregisterDirect(id) ==
    /\ pc = "free" /\ id \in Registered
    /\ processes' = [k \in Key |-> IF k \in Tracked /\ processes[k].info.comm \in rules[id].comms
                                   THEN [processes[k] EXCEPT !.ids = @ \ {id}]
                                   ELSE processes[k]]
    /\ rules' = [rules EXCEPT ![id] = NoRule]
    /\ UNCHANGED <<nextID, latestPID, pc, reg, world>>

UnregisterRule(id) ==
    /\ pc = "free" /\ id \in Registered
    /\ processes' = [k \in Key |-> IF k \in Tracked
                                   THEN [processes[k] EXCEPT !.ids = @ \ {id}]
                                   ELSE Untracked]
    /\ rules' = [rules EXCEPT ![id] = NoRule]
    /\ UNCHANGED <<nextID, latestPID, pc, reg, world>>

\* The IDs of the latest known parent.
Inherited(info) ==
    LET p == Latest(info.ppid)
    IN  IF p \in Tracked THEN processes[p].ids ELSE {}

\* Mutant: a process that is already tracked keeps its IDs.
IdsOnFirstSight(k, info) ==
    IF k \in Tracked THEN processes[k].ids ELSE Inherited(info) \cup Matching(info)

Ids(k, info) == Inherited(info) \cup Matching(info)

ApplyProcess(k, info) ==
    /\ pc = "free"
    /\ processes' = [processes EXCEPT ![k] = [info |-> info, ids |-> Ids(k, info)]]
    /\ latestPID' = [latestPID EXCEPT ![TgidOf[k]] = k]
    /\ UNCHANGED <<nextID, rules, pc, reg>>

\* Mutant: the PID index keeps the lifetime that is gone.
LatestKept(k) == latestPID

\* The PID index forgets a lifetime, but not a newer one under the same PID.
LatestWithout(k) ==
    [latestPID EXCEPT ![TgidOf[k]] = IF @ = k THEN NoKey ELSE @]

\* An exit event.  The daemon does not report every exit, so this need not
\* happen.
ExitEvent(k) ==
    /\ pc = "free"
    /\ life[k] \in {"zombie", "gone"} /\ k \notin exited
    /\ processes' = [processes EXCEPT ![k] = Untracked]
    /\ latestPID' = LatestWithout(k)
    /\ exited' = exited \cup {k}
    /\ UNCHANGED <<nextID, rules, pc, reg, life, ppid, comm, birth, ancestors, moves>>

-----------------------------------------------------------------------------
(* What the daemon reports: procInfoFromEvent and readProcInfo. *)

\* A process that /proc shows, as it is now.
Observe(k) ==
    /\ life[k] \in {"running", "zombie"}
    /\ ApplyProcess(k, [ppid |-> ppid[k], comm |-> comm[k]])
    /\ UNCHANGED world

\* A fork or exec event of a process that is gone, before its exit event.
ObserveLate(k) ==
    /\ life[k] = "gone" /\ k \notin exited
    /\ \E info \in {birth[k], [ppid |-> NoPid, comm |-> comm[k]]} : ApplyProcess(k, info)
    /\ UNCHANGED world

-----------------------------------------------------------------------------
(* The processes *)

InUse(p) == \E k \in Key : TgidOf[k] = p /\ life[k] \in {"running", "zombie"}

\* p = NoKey: the parent is a process that the tracker never hears of.
Fork(p, k) ==
    /\ life[k] = "unborn" /\ ~InUse(TgidOf[k])
    /\ p # NoKey => life[p] = "running"
    /\ LET info == [ppid |-> IF p = NoKey THEN NoPid ELSE TgidOf[p],
                    comm |-> IF p = NoKey THEN InitComm ELSE comm[p]]
       IN  /\ ppid' = [ppid EXCEPT ![k] = info.ppid]
           /\ comm' = [comm EXCEPT ![k] = info.comm]
           /\ birth' = [birth EXCEPT ![k] = info]
    /\ life' = [life EXCEPT ![k] = "running"]
    /\ ancestors' = [ancestors EXCEPT ![k] =
                       IF p = NoKey THEN {} ELSE ancestors[p] \cup {p}]
    /\ UNCHANGED <<tracker, exited>>

Exec(k, c) ==
    /\ life[k] = "running"
    /\ comm' = [comm EXCEPT ![k] = c]
    /\ UNCHANGED <<tracker, life, ppid, birth, exited, ancestors>>

\* The children of a process that exits get a new parent.
Exit(k) ==
    /\ life[k] = "running"
    /\ life' = [life EXCEPT ![k] = "zombie"]
    /\ ppid' = [j \in Key |-> IF ppid[j] = TgidOf[k] /\ life[j] \in {"running", "zombie"}
                              THEN NoPid ELSE ppid[j]]
    /\ UNCHANGED <<tracker, comm, birth, exited, ancestors>>

Reap(k) ==
    /\ life[k] = "zombie"
    /\ life' = [life EXCEPT ![k] = "gone"]
    /\ UNCHANGED <<tracker, ppid, comm, birth, exited, ancestors>>

World(k) ==
    /\ moves < MaxMoves /\ moves' = moves + 1
    /\ \/ \E p \in Key \cup {NoKey} : Fork(p, k)
       \/ \E c \in Comm : Exec(k, c)
       \/ Exit(k) \/ Reap(k)

Propagation == (\E k \in Key : Pop(k)) \/ RegisterReturns

Next ==
    \/ \E rule \in Rules, id \in ID : RegisterRule(rule, id)
    \/ Propagation
    \/ \E id \in ID : UnregisterRule(id)
    \/ \E k \in Key : Observe(k) \/ ObserveLate(k) \/ ExitEvent(k) \/ World(k)

Spec == Init /\ [][Next]_vars

\* The goroutine that holds the mutex keeps running.
FairSpec == Spec /\ WF_vars(Propagation)

-----------------------------------------------------------------------------
(* No process holds the ID of a rule that is not registered: an ID that is  *)
(* used again after UnregisterRule does not start with old holders.         *)
NoGhostRules == \A k \in Tracked : processes[k].ids \subseteq Registered

(* Every tracked process holds the IDs of all the rules that match what was *)
(* last observed of it, in whatever order it was observed and the rules     *)
(* were registered.                                                         *)
MatchesHeld == \A k \in Tracked : Matching(processes[k].info) \subseteq processes[k].ids

(* What RegisterRule has to give the ID to: the smallest set of tracked     *)
(* processes that has the direct matches and is closed under children.      *)
Closed(S) == \A k \in S : Children(k) \subseteq S

Family(roots) == {k \in Key : \A S \in SUBSET Key : roots \subseteq S /\ Closed(S) => k \in S}

(* When RegisterRule returns, the holders of the new ID are that set, also  *)
(* when reused PIDs make the parent relation cyclic.                        *)
PropagationExact ==
    pc = "propagate" /\ reg.stack = {} => Holders(reg.id) = Family(reg.roots)

(* The PID index names tracked lifetimes of that PID only.                  *)
LatestTracked ==
    \A p \in Pid : latestPID[p] # NoKey =>
        latestPID[p] \in Tracked /\ TgidOf[latestPID[p]] = p

(* A registered rule is never replaced under its ID: RegisterRule, the      *)
(* counter having wrapped or not, hands out an ID that no rule has.         *)
NoRuleReplaced ==
    [][\A id \in Registered : rules'[id] \in {rules[id], NoRule}]_vars

(* RegisterRule gives the mutex back. *)
RegisterTerminates == pc = "propagate" ~> pc = "free"

(* RegisterRule gives the new ID to processes that match the rule and to    *)
(* their descendants.                                                       *)
OnlyDescendants ==
    pc = "propagate" => \A k \in Holders(reg.id) : ({k} \cup ancestors[k]) \cap reg.roots # {}
=============================================================================
