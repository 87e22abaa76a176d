------------------------------- MODULE Marker -------------------------------
(***************************************************************************)
(* The userspace side of p-mark (mark.go): the marker's mirror of the      *)
(* process map, the ring-event handlers, the /proc traversal, tombstone    *)
(* collection and the API calls.  marker.mu serialises them; `pc' is where *)
(* the holder of the mutex is and `owner' who holds it.  The BPF programs  *)
(* run between any two steps.                                              *)
(*                                                                         *)
(* A policy is the argument of setKernelPolicyLocked: the mode, the exact  *)
(* rules and the check callback, the last two as tables over Comm.  The    *)
(* switch of active_policy is one step here; module KernelPolicy has its   *)
(* failures.                                                               *)
(***************************************************************************)
EXTENDS MarkBPF

CONSTANTS
    Policies,              \* the policies that callers install
    InitPolicy,            \* the one the daemon starts with
    ApiMarks,              \* decisions that SetProcessMark is called with
    MaxGeneration,         \* bound on the number of policy switches
    TombTTL,               \* grace period of a tombstone
    TombCollectionEvents,  \* ring events between two collections
    TimeModulus,           \* uint64 arithmetic on timestamps
    AbortIteration         \* iterating the kernel map may fail

Policy == [mode : Mode, rules : RuleTable, check : RuleTable]

\* validateAndNormalizeKernelPolicy and the contract of SetKernelPolicy.
WellFormed(p) ==
    /\ p.mode = "userspace-only" => p.rules = NoRules
    /\ p.mode = "authoritative" => p.check = p.rules
    /\ \A c \in Comm : p.rules[c] # NoMatch => p.check[c] = p.rules[c]

ASSUME MarkerAssumption ==
    /\ Policies \subseteq Policy /\ InitPolicy \in Policy
    /\ \A p \in Policies \cup {InitPolicy} : WellFormed(p)
    /\ ApiMarks \subseteq Decision
    /\ MaxGeneration \in Nat /\ TombTTL \in Nat
    /\ TombCollectionEvents \in Nat \ {0}
    /\ TimeModulus \in Nat /\ TimeModulus > TombTTL
    /\ AbortIteration \in BOOLEAN

VARIABLES
    mirror,       \* [Key -> Entry]: marker.mirror
    generation,   \* marker.generation
    policy,       \* marker.kernelPolicy and marker.check
    pc, owner,    \* where the holder of marker.mu is, and who it is
    job,          \* the event being handled
    trav,         \* the traversal or the sweep under way
    loop,         \* the event goroutine: reading, or about to collect
    eventCounter, \* marker.eventCounter
    boot,         \* how far Daemon.Run has come
    notified,     \* [Key -> Entry]: the last ProcessUpdate a consumer received
    unsynced      \* history: keys whose last Put failed

uvars == <<mirror, generation, policy, pc, owner, job, trav, loop, eventCounter,
           boot, notified, unsynced>>

vars == <<kvars, uvars>>

PC == {"free", "fork", "exec", "refresh", "repair", "walk", "sweep"}
Owner == {"none", "events", "run", "policy", "api"}
Boot == {"first", "attachFork", "attachExit", "attachExec", "second", "up", "steady"}

\* Run has returned, in this behaviour ("up") or before it ("steady").
Up == boot \in {"up", "steady"}

Job == [key : Key \cup {Foreign}, parentKey : Key \cup {Foreign},
        comm : Comm, value : Entry]
NoJob == [key |-> Foreign, parentKey |-> Foreign, comm |-> InitComm, value |-> Absent]

Traversal == [todo : SUBSET Key, listed : SUBSET Key, comm : [Key -> Comm],
              parent : [Key -> Key \cup {Foreign}], value : [Key -> Entry]]
NoTraversal == [todo |-> {}, listed |-> {}, comm |-> [k \in Key |-> InitComm],
                parent |-> [k \in Key |-> Foreign], value |-> [k \in Key |-> Absent]]

MarkerTypeOK ==
    /\ mirror \in [Key -> Entry]
    /\ generation \in Nat
    /\ policy \in Policy
    /\ pc \in PC /\ owner \in Owner
    /\ job \in Job
    /\ trav \in Traversal
    /\ loop \in {"read", "collect"}
    /\ eventCounter \in Nat
    /\ boot \in Boot
    /\ notified \in [Key -> Entry]
    /\ unsynced \subseteq Key

\* NewDaemon
MarkerInit(stage, first, installed) ==
    /\ mirror = [k \in Key |-> Absent]
    /\ generation = first
    /\ policy = installed
    /\ pc = "free" /\ owner = "none"
    /\ job = NoJob
    /\ trav = NoTraversal
    /\ loop = "read"
    /\ eventCounter = 0
    /\ boot = stage
    /\ notified = [k \in Key |-> Absent]
    /\ unsynced = {}

-----------------------------------------------------------------------------
(* syncKernel and upsertProcessWithLog *)

\* Put; an error is only logged.
SyncKernel(k, value) ==
    IF CanPut(k)
    THEN /\ processes' = [processes EXCEPT ![k] = value]
         /\ unsynced' = unsynced \ {k}
    ELSE /\ unsynced' = unsynced \cup {k}
         /\ UNCHANGED processes

\* Mutant: the kernel gets the candidate, also when it loses the merge.
UpsertCandidate(k, next, log) ==
    LET value == MergeEntry(mirror[k], next)
    IN  /\ mirror' = [mirror EXCEPT ![k] = value]
        /\ SyncKernel(k, next)
        /\ notified' = IF log /\ value # mirror[k] THEN [notified EXCEPT ![k] = value]
                       ELSE notified

Upsert(k, next, log) ==
    LET value == MergeEntry(mirror[k], next)
    IN  IF value = mirror[k]
        THEN UNCHANGED <<mirror, processes, unsynced, notified>>
        ELSE /\ mirror' = [mirror EXCEPT ![k] = value]
             /\ SyncKernel(k, value)
             /\ notified' = IF log THEN [notified EXCEPT ![k] = value] ELSE notified

NoUpsert == UNCHANGED <<mirror, processes, unsynced, notified>>

\* Mutant: the update is written but not reported.
UpsertQuietly(k, next) ==
    IF next = Absent THEN NoUpsert /\ UNCHANGED clock
    ELSE Advance(Now) /\ Upsert(k, next, FALSE)

\* An upsert of a value made with nowBootNS(), or nothing.
UpsertNow(k, next) ==
    IF next = Absent THEN NoUpsert /\ UNCHANGED clock
    ELSE Advance(Now) /\ Upsert(k, next, TRUE)

\* What userspace leaves alone in every one of its steps, given that it may
\* write the process map, the clock and the ring.
KernelFrame == UNCHANGED <<life, comm, parent, bpf, moves>>

Acquire(who, at) ==
    /\ pc = "free" /\ pc' = at
    /\ owner' = IF at = "free" THEN "none" ELSE who

NextBoot == CASE boot = "first" -> "attachFork" [] boot = "second" -> "up"
              [] OTHER -> boot

\* The deferred Unlock, and what the caller does next: Run goes on, a policy
\* switch deletes the rules of the other generations, collectTombstones returns
\* to the event loop.
Release ==
    /\ pc' = "free" /\ owner' = "none"
    /\ trav' = NoTraversal
    /\ boot' = IF owner = "run" THEN NextBoot ELSE boot
    /\ loop' = IF owner = "events" THEN "read" ELSE loop
    /\ commRules' = IF owner = "policy" THEN {generation} ELSE commRules

-----------------------------------------------------------------------------
(* handleEvent, on the goroutine of runEvents *)

Receive(type, at) ==
    /\ Up /\ loop = "read" /\ events # <<>>
    /\ Head(events).type = type
    /\ Acquire("events", at)
    /\ events' = Tail(events)

\* procInfoFromEvent: /proc as it is now, or the event's copy if the process
\* is not there any more.
EventComm(e) == IF Visible(e.key) THEN comm[e.key] ELSE e.comm

JobOf(e, value) == [key |-> e.key, parentKey |-> e.parentKey,
                    comm |-> EventComm(e), value |-> value]

\* The mutex is released and runEvents counts the event.
CountEvent ==
    IF eventCounter + 1 >= TombCollectionEvents
    THEN eventCounter' = 0 /\ loop' = "collect"
    ELSE eventCounter' = eventCounter + 1 /\ loop' = "read"

EventDone == pc' = "free" /\ owner' = "none" /\ job' = NoJob /\ CountEvent

\* Fork, first half: take the kernel's inherited value, or push the mirror's
\* mark to the kernel again.
RecvFork ==
    LET e == Head(events)
        existing == mirror[e.key]
    IN  /\ Receive("fork", "fork")
        /\ \/ /\ e.hasMark
              /\ job' = JobOf(e, e.value)
              /\ Upsert(e.key, e.value, TRUE)
           \/ /\ ~e.hasMark /\ CanInherit(existing)
              /\ job' = JobOf(e, existing)
              /\ SyncKernel(e.key, existing)
              /\ UNCHANGED <<mirror, notified>>
           \/ /\ ~e.hasMark /\ ~CanInherit(existing)
              /\ job' = JobOf(e, Absent)
              /\ NoUpsert
        /\ KernelFrame
        /\ UNCHANGED <<attached, active, commRules, clock, lost, generation, policy,
                       trav, loop, eventCounter, boot>>

\* Mutant: a lifetime that matches nothing keeps the value it has.
ForkValueKeepingMark(j) ==
    LET decision == policy.check[j.comm]
        parentValue == Lookup(mirror, j.parentKey)
    IN  IF decision # NoMatch THEN NewProcessValue(decision, generation, Now)
        ELSE IF CanInherit(parentValue) THEN InheritedValue(parentValue, generation, Now)
        ELSE Absent

\* Fork, second half: an explicit match, else the parent's mark, else a no-mark
\* value for a lifetime that has an entry.
ForkValue(j) ==
    LET decision == policy.check[j.comm]
        parentValue == Lookup(mirror, j.parentKey)
    IN  IF decision # NoMatch THEN NewProcessValue(decision, generation, Now)
        ELSE IF CanInherit(parentValue) THEN InheritedValue(parentValue, generation, Now)
        ELSE IF j.value # Absent THEN NewNoMarkProcessValue(j.value, generation, Now)
        ELSE IF Live(mirror[j.key]) THEN NewNoMarkProcessValue(mirror[j.key], generation, Now)
        ELSE Absent

DecideFork ==
    /\ pc = "fork"
    /\ UpsertNow(job.key, ForkValue(job))
    /\ EventDone
    /\ KernelFrame
    /\ UNCHANGED <<attached, active, commRules, events, lost, generation, policy,
                   trav, boot>>

\* Mutant: the winner is written only when the mirror changes.
NeedsSyncIfChanged(old, reported, value) == value # Absent /\ value # old

\* upsertProcessWithLog writes a changed mirror value; handleEvent writes again a
\* value that is not what the kernel reported.
NeedsSync(old, reported, value) ==
    value # Absent /\ (value # old \/ value # reported)

\* Exec, first half: merge what the kernel decided, silently, and push the
\* winner if it is not what the kernel reported.  A tombstone ends the event.
RecvExec ==
    LET e == Head(events)
        value == IF e.value = ZeroValue THEN mirror[e.key]
                 ELSE MergeEntry(mirror[e.key], e.value)
    IN  /\ Receive("exec", IF Tombstone(value) THEN "free" ELSE "exec")
        /\ mirror' = [mirror EXCEPT ![e.key] = value]
        /\ IF NeedsSync(mirror[e.key], e.value, value)
           THEN SyncKernel(e.key, value)
           ELSE UNCHANGED <<processes, unsynced>>
        /\ IF Tombstone(value)
           THEN job' = NoJob /\ CountEvent
           ELSE job' = JobOf(e, value) /\ UNCHANGED <<loop, eventCounter>>
        /\ KernelFrame
        /\ UNCHANGED <<attached, active, commRules, clock, lost, generation, policy,
                       trav, boot, notified>>

\* Mutant: the mark of the previous program is not taken away.
ExecValueKeepingMark(j) ==
    LET decision == policy.check[j.comm]
    IN  IF decision # NoMatch THEN NewProcessValue(decision, generation, Now) ELSE Absent

\* Exec, second half.
ExecValue(j) ==
    LET decision == policy.check[j.comm]
    IN  IF decision # NoMatch THEN NewProcessValue(decision, generation, Now)
        ELSE IF j.value # Absent THEN NewNoMarkProcessValue(j.value, generation, Now)
        ELSE Absent

DecideExec ==
    /\ pc = "exec"
    /\ UpsertNow(job.key, ExecValue(job))
    /\ EventDone
    /\ KernelFrame
    /\ UNCHANGED <<attached, active, commRules, events, lost, generation, policy,
                   trav, boot>>

\* Exit: tombstone the mirror's value, or the kernel's if the mirror has none.
\* An untracked process leaves no trace.
RecvExit ==
    LET e == Head(events)
        old == mirror[e.key]
        value == IF old # Absent THEN old ELSE e.value
    IN  /\ Receive("exit", "free")
        /\ IF old = Absent /\ ~e.value.tombstone
           THEN NoUpsert /\ UNCHANGED clock
           ELSE /\ Advance(Now)
                /\ Upsert(e.key, TombstoneOf(value, Now), e.hasMark \/ CanInherit(old))
        /\ job' = NoJob /\ CountEvent
        /\ KernelFrame
        /\ UNCHANGED <<attached, active, commRules, lost, generation, policy,
                       trav, boot>>

\* An event of an untracked process: host-wide traffic that only counts.
ForeignEvent ==
    /\ Up /\ loop = "read" /\ pc = "free"
    /\ CountEvent
    /\ UNCHANGED <<kvars, mirror, generation, policy, pc, owner, job, trav, boot,
                   notified, unsynced>>

-----------------------------------------------------------------------------
(* traverseProcessTreeLocked *)

\* Mutant: the kernel's entry replaces the mirror's.
ReplaceByKernelEntry(k) == IF processes[k] = Absent THEN mirror[k] ELSE processes[k]

MergeKernelEntry(k) ==
    IF processes[k] = Absent THEN mirror[k] ELSE MergeEntry(mirror[k], processes[k])

\* refreshMirrorFromKernelLocked: merge every kernel entry into the mirror and
\* remember the entries that lost.
Refresh ==
    LET merged == [k \in Key |-> MergeKernelEntry(k)]
    IN  /\ pc = "refresh"
        /\ mirror' = merged
        /\ trav' = [NoTraversal EXCEPT !.todo =
                      {k \in Key : processes[k] # Absent /\ merged[k] # processes[k]}]
        /\ pc' = "repair"
        /\ lost' = {}
        /\ KernelFrame
        /\ UNCHANGED <<attached, processes, active, commRules, events, clock,
                       generation, policy, owner, job, loop, eventCounter, boot,
                       notified, unsynced>>

\* The iteration fails after some entries: no repair and no traversal.  The
\* callers log the error and go on.
RefreshAbort ==
    /\ AbortIteration /\ pc = "refresh"
    /\ \E read \in SUBSET Key :
         mirror' = [k \in Key |-> IF k \in read THEN MergeKernelEntry(k) ELSE mirror[k]]
    /\ Release
    /\ KernelFrame
    /\ UNCHANGED <<attached, processes, active, events, clock, lost, generation,
                   policy, job, eventCounter, notified, unsynced>>

Repaired(k) == IF k \in trav.todo THEN mirror[k] ELSE processes[k]

\* The repairs, each of a key that is in the kernel map, then listProcesses.
RepairAndList ==
    LET there == {k \in Key : Visible(k)}
    IN  /\ pc = "repair"
        /\ processes' = [k \in Key |-> Repaired(k)]
        /\ unsynced' = unsynced \ trav.todo
        /\ trav' = [todo |-> there, listed |-> there, comm |-> comm, parent |-> parent,
                    value |-> [k \in Key |-> Absent]]
        /\ pc' = "walk"
        /\ KernelFrame
        /\ UNCHANGED <<attached, active, commRules, events, clock, lost, mirror,
                       generation, policy, owner, job, loop, eventCounter, boot, notified>>

\* readProcInfo fails for a process that was reaped before its turn came.
ListMiss(k) ==
    /\ pc = "walk" /\ trav.todo = trav.listed
    /\ k \in trav.listed /\ ~Visible(k)
    /\ trav' = [trav EXCEPT !.todo = @ \ {k}, !.listed = @ \ {k}]
    /\ UNCHANGED <<kvars, mirror, generation, policy, pc, owner, job, loop,
                   eventCounter, boot, notified, unsynced>>

\* canInheritCurrentGeneration
CanInheritCurrent(e) == CanInherit(e) /\ e.generation = generation

\* Mutant: inheritance is tried before the check.
WalkValueParentFirst(k, parentValue) ==
    LET decision == policy.check[trav.comm[k]]
    IN  IF CanInheritCurrent(parentValue) THEN InheritedValue(parentValue, generation, Now)
        ELSE IF decision # NoMatch THEN NewProcessValue(decision, generation, Now)
        ELSE IF Live(mirror[k]) THEN NewNoMarkProcessValue(mirror[k], generation, Now)
        ELSE Absent

WalkValue(k, parentValue) ==
    LET decision == policy.check[trav.comm[k]]
    IN  IF decision # NoMatch THEN NewProcessValue(decision, generation, Now)
        ELSE IF CanInheritCurrent(parentValue) THEN InheritedValue(parentValue, generation, Now)
        ELSE IF Live(mirror[k]) THEN NewNoMarkProcessValue(mirror[k], generation, Now)
        ELSE Absent

\* The closure `walk' on one process.  Its children inherit from the value made
\* here, also when the merge keeps another one.
Visit(k, parentValue) ==
    /\ UpsertNow(k, WalkValue(k, parentValue))
    /\ trav' = [trav EXCEPT !.todo = @ \ {k}, !.value[k] = WalkValue(k, parentValue)]
    /\ KernelFrame
    /\ UNCHANGED <<attached, active, commRules, events, lost, generation, policy, pc,
                   owner, job, loop, eventCounter, boot>>

\* k is a root of the listed forest, or its parent has been visited.
Reached(k) == trav.parent[k] = Foreign \/ trav.parent[k] \in trav.listed \ trav.todo

Walk(k) ==
    /\ pc = "walk" /\ k \in trav.todo /\ Reached(k)
    /\ Visit(k, Lookup(trav.value, trav.parent[k]))

\* The last loop: processes that no root reaches because an ancestor vanished
\* from /proc; the parent's value comes from the mirror if it is listed.
WalkOrphan(k) ==
    /\ pc = "walk" /\ k \in trav.todo /\ ~\E j \in trav.todo : Reached(j)
    /\ Visit(k, IF trav.parent[k] \in trav.listed THEN mirror[trav.parent[k]] ELSE Absent)

TraversalDone ==
    /\ pc = "walk" /\ trav.todo = {}
    /\ Release
    /\ KernelFrame
    /\ UNCHANGED <<attached, processes, active, events, clock, lost, mirror, generation,
                   policy, job, eventCounter, notified, unsynced>>

-----------------------------------------------------------------------------
(* collectTombstones *)

\* nowBootNS() - tombTTL, in uint64.
Cutoff == (clock - TombTTL) % TimeModulus

\* Mutant: entries of processes that are gone are deleted with the tombstones.
ExpiredOrDead == {k \in Key : \/ Tombstone(mirror[k]) /\ mirror[k].timestamp < Cutoff
                              \/ Live(mirror[k]) /\ ~Visible(k)}

Expired == {k \in Key : Tombstone(mirror[k]) /\ mirror[k].timestamp < Cutoff}

\* Mutant: only processes whose exit was observed count as dead.
DeadIfTombstoned(map) == {k \in Key : Tombstone(map[k]) /\ ~Visible(k)}

\* procMatchesKey fails for a live entry.
DeadKeys(map) == {k \in Key : Live(map[k]) /\ ~Visible(k)}

\* Remove expired tombstones from both maps, then scan /proc for live entries
\* whose process is gone (tombstoneDeadProcessesLocked).
CollectTombstones ==
    LET kept == [k \in Key |-> IF k \in Expired THEN Absent ELSE mirror[k]]
    IN  /\ loop = "collect"
        /\ Acquire("events", "sweep")
        /\ mirror' = kept
        /\ processes' = [k \in Key |-> IF k \in Expired THEN Absent ELSE processes[k]]
        /\ unsynced' = unsynced \ Expired
        /\ trav' = [NoTraversal EXCEPT !.todo = DeadKeys(kept)]
        /\ KernelFrame
        /\ UNCHANGED <<attached, active, commRules, events, clock, lost, generation,
                       policy, job, loop, eventCounter, boot, notified>>

SweepDead(k) ==
    /\ pc = "sweep" /\ k \in trav.todo
    /\ UpsertNow(k, TombstoneOf(mirror[k], Now))
    /\ trav' = [trav EXCEPT !.todo = @ \ {k}]
    /\ KernelFrame
    /\ UNCHANGED <<attached, active, commRules, events, lost, generation, policy, pc,
                   owner, job, loop, eventCounter, boot>>

StaleGeneration(k) == Live(mirror[k]) /\ mirror[k].generation < generation

\* Mutant: the generation before the current one counts as current.
HasVeryOldGeneration ==
    \E k \in Key : Live(mirror[k]) /\ mirror[k].generation + 1 < generation

HasExpiredLiveGeneration == \E k \in Key : StaleGeneration(k)

SweepDone ==
    /\ pc = "sweep" /\ trav.todo = {}
    /\ IF HasExpiredLiveGeneration
       THEN pc' = "refresh" /\ UNCHANGED <<owner, trav, boot, loop, commRules>>
       ELSE Release
    /\ KernelFrame
    /\ UNCHANGED <<attached, processes, active, events, clock, lost, mirror, generation,
                   policy, job, eventCounter, notified, unsynced>>

-----------------------------------------------------------------------------
(* The API *)

\* SetChecker, SetKernelPolicy and, with the policy unchanged,
\* ForceBumpGeneration: a new generation, then a traversal under the same lock.
SetPolicy(p) ==
    /\ Move
    /\ generation < MaxGeneration
    /\ Acquire("policy", "refresh")
    /\ generation' = generation + 1
    /\ policy' = p
    /\ active' = [generation |-> generation + 1, mode |-> p.mode, rules |-> p.rules]
    /\ commRules' = commRules \cup {generation + 1}
    /\ UNCHANGED <<life, comm, parent, bpf, attached, processes, events, clock, lost, mirror, job, trav, loop,
                   eventCounter, boot, notified, unsynced>>

ForceProcessTraversal ==
    /\ Move
    /\ Acquire("api", "refresh")
    /\ UNCHANGED <<life, comm, parent, attached, processes, active, commRules,
                   bpf, events, clock, lost, mirror, generation, policy, job, trav, loop, eventCounter,
                   boot, notified, unsynced>>

SetProcessMark(k, decision) ==
    /\ Move
    /\ pc = "free"
    /\ UpsertNow(k, NewProcessValue(decision, generation, Now))
    /\ UNCHANGED <<life, comm, parent, bpf, attached, active, commRules, events, lost, generation, policy, pc,
                   owner, job, trav, loop, eventCounter, boot>>

\* A new consumer receives the live entries and nothing else.
UpdateHooks ==
    /\ Move
    /\ pc = "free"
    /\ notified' = [k \in Key |-> IF Live(mirror[k]) THEN mirror[k] ELSE Absent]
    /\ UNCHANGED <<life, comm, parent, attached, processes, active, commRules,
                   bpf, events, clock, lost, mirror, generation, policy, pc, owner, job, trav, loop,
                   eventCounter, boot, unsynced>>

-----------------------------------------------------------------------------
(* Run: traverse, attach fork, exit and exec, traverse again, read events. *)

RunTraverse ==
    /\ boot \in {"first", "second"}
    /\ Acquire("run", "refresh")
    /\ UNCHANGED <<kvars, mirror, generation, policy, job, trav, loop, eventCounter,
                   boot, notified, unsynced>>

Attach(program, at, next) ==
    /\ boot = at
    /\ attached' = attached \cup {program}
    /\ boot' = next
    /\ KernelFrame
    /\ UNCHANGED <<processes, active, commRules, events, clock, lost, mirror,
                   generation, policy, pc, owner, job, trav, loop, eventCounter,
                   notified, unsynced>>

RunAttach ==
    \/ Attach("fork", "attachFork", "attachExit")
    \/ Attach("exit", "attachExit", "attachExec")
    \/ Attach("exec", "attachExec", "second")
=============================================================================
