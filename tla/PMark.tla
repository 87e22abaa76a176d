------------------------------- MODULE PMark -------------------------------
(***************************************************************************)
(* p-mark as a whole: the BPF programs of MarkBPF and the daemon of Marker *)
(* over the shared maps, and what they achieve together.                   *)
(***************************************************************************)
EXTENDS Marker

CONSTANTS
    Starts,       \* where behaviours begin: before Run, after it
    HostTraffic,  \* events of untracked processes arrive
    Traversals    \* callers use ForceProcessTraversal and UpdateHooks

ASSUME PMarkAssumption ==
    /\ Starts \subseteq {"fresh", "booted"}
    /\ HostTraffic \in BOOLEAN /\ Traversals \in BOOLEAN
    /\ "booted" \in Starts => InitPolicy.check[InitComm] = NoMatch

(* Either a daemon that NewDaemon just made, with InitPolicy's check as the  *)
(* callback (one move less is left then); or one that has gone through       *)
(* main's start-up (NewDaemon, SetKernelPolicy, Run) while no process        *)
(* matched.                                                                  *)
FreshInit ==
    /\ KernelInit({}, NoPolicy, 1)
    /\ MarkerInit("first", 1, [mode |-> "userspace-only", rules |-> NoRules,
                               check |-> InitPolicy.check])

BootedInit ==
    /\ KernelInit(Program, [generation |-> 2, mode |-> InitPolicy.mode,
                            rules |-> InitPolicy.rules], 0)
    /\ MarkerInit("steady", 2, InitPolicy)

Init == \/ "fresh" \in Starts /\ FreshInit
        \/ "booted" \in Starts /\ BootedInit

\* A step of a process or of a BPF program.
KernelStep == KernelNext /\ UNCHANGED uvars

\* Time passes only where it matters: before a collection.
TimePasses == Tick /\ UNCHANGED uvars /\ loop = "collect"

EventLoopStep ==
    \/ RecvFork \/ DecideFork \/ RecvExec \/ DecideExec \/ RecvExit
    \/ CollectTombstones \/ \E k \in Key : SweepDead(k)
    \/ SweepDone

TraversalStep ==
    \/ Refresh \/ RefreshAbort \/ RepairAndList
    \/ \E k \in Key : ListMiss(k) \/ Walk(k) \/ WalkOrphan(k)
    \/ TraversalDone

RunStep == RunTraverse \/ RunAttach

ApiStep ==
    \/ \E p \in Policies : SetPolicy(p)
    \/ \E k \in Key, d \in ApiMarks : SetProcessMark(k, d)
    \/ Traversals /\ (ForceProcessTraversal \/ UpdateHooks)

Next ==
    \/ KernelStep \/ TimePasses
    \/ EventLoopStep \/ (HostTraffic /\ ForeignEvent)
    \/ TraversalStep \/ RunStep \/ ApiStep

Spec == Init /\ [][Next]_vars

(* The daemon's goroutines and the programs in flight keep running, the host *)
(* keeps producing events, and iterating the map does not fail for ever.     *)
(* Processes and callers owe nothing.                                        *)
Fairness ==
    /\ WF_vars(EventLoopStep)
    /\ WF_vars(TraversalStep) /\ SF_vars(Refresh)
    /\ WF_vars(HostTraffic /\ ForeignEvent)
    /\ WF_vars((\E k \in Key : \/ ForkLookup(k) \/ ForkCommit(k) \/ ExecLookup(k)
                               \/ ExecCommit(k) \/ ExitCommit(k, FALSE)) /\ UNCHANGED uvars)

FairSpec == Spec /\ Fairness

-----------------------------------------------------------------------------
TypeOK == KernelTypeOK /\ MarkerTypeOK

(* Nothing about k is under way: no program in flight, no event on its way  *)
(* or dropped since the mirror was last refreshed, no failed write.         *)
Settled(k) ==
    /\ Up /\ pc = "free"
    /\ bpf[k] = Idle
    /\ \A i \in 1..Len(events) : events[i].key # k
    /\ k \notin lost \cup unsynced

(* The two maps agree about every settled process: a program that overwrote *)
(* a newer userspace value, or a Put that overwrote a newer kernel value    *)
(* (both write without comparing), is always repaired by the event or the   *)
(* refresh that follows.                                                    *)
MapsConverge == \A k \in Key : Settled(k) => processes[k] = mirror[k]

(* Whenever the mutex is free, no live entry of the mirror is left at an     *)
(* older generation than the policy that is installed: a switch re-decides   *)
(* every process, including those forked or executed while it ran.           *)
NoStaleGeneration ==
    pc = "free" => \A k \in Key : Alive(k) => ~StaleGeneration(k)

Explicit(e) == CanInherit(e) /\ e.inheritance

(* The policy decides: a settled running process whose command name the      *)
(* check matches carries exactly that explicit mark, at the current          *)
(* generation, whatever raced with its fork, its exec, a policy switch or    *)
(* the start of the daemon.                                                  *)
MatchEnforced ==
    \A k \in Key : Settled(k) /\ life[k] = "running" =>
        LET decision == policy.check[comm[k]]
        IN  decision # NoMatch =>
              /\ Explicit(mirror[k])
              /\ mirror[k].mark = decision.mark
              /\ mirror[k].generation = generation

(* Nor does an explicit mark outlive its reason: once its exec has been      *)
(* handled, a process that the check does not match any more has at most an  *)
(* inherited mark.  (Of a daemon that is up: a process that Run's first      *)
(* traversal marks and that execs before the exec program is attached keeps  *)
(* its mark until the next policy switch.)                                   *)
MissEnforced ==
    \A k \in Key :
        /\ Settled(k) /\ boot = "steady"
        /\ life[k] = "running" /\ policy.check[comm[k]] = NoMatch
        => ~Explicit(mirror[k])

(* Consumers of ProcessUpdate (the socket marker among them) hold the mark   *)
(* that the mirror holds for every settled running process, although         *)
(* refreshes and the first half of an exec event change the mirror without   *)
(* telling them.                                                             *)
ConsumersInSync ==
    \A k \in Key : Settled(k) /\ life[k] = "running" =>
        EffectiveMark(notified[k]) = EffectiveMark(mirror[k])

(* The mirror implements the abstract registry. *)
Mirror == INSTANCE Registry WITH entries <- mirror

MirrorIsRegistry == Mirror!RegistrySpec

(* The program that handles a fork goes on to copy the mark of a parent      *)
(* whose live entry has one, unless the child already has an entry.          *)
ForkCopiesMark ==
    [][\A c \in Key :
         /\ bpf[c].stage = "clone" /\ bpf'[c].stage # "clone"
         /\ "fork" \in attached /\ processes[c] = Absent
         /\ CanInherit(Lookup(processes, parent[c]))
         => bpf'[c].stage = "fork"]_vars

(* No late event of a lifetime makes its tombstone in the kernel map live    *)
(* again.                                                                    *)
NoRevival ==
    [][\A k \in Key : Tombstone(processes[k]) => ~Live(processes'[k])]_vars

(* An entry is kept as a tombstone for at least the grace period.            *)
TombstoneGrace ==
    [][\A k \in Key : Tombstone(mirror[k]) /\ mirror'[k] = Absent
                         => clock - mirror[k].timestamp >= TombTTL]_vars

(* A process that is gone does not stay live in the mirror, even if its exit *)
(* event was dropped: the sweep finds it.                                    *)
DeadTombstoned ==
    \A k \in Key : (life[k] = "gone" /\ Live(mirror[k])) ~> ~Live(mirror[k])

(* A process that missed a policy switch because the traversal failed is     *)
(* decided again: the regular cleanup notices its old generation.            *)
StaleHealed ==
    \A k \in Key : StaleGeneration(k) ~> ~StaleGeneration(k)
=============================================================================
