# A TLA+ development for p-mark

p-mark gives processes marks. Rules decide which processes are marked, children
inherit, and the result sits in a pinned BPF map `processes` that other BPF
programs (the socket marker `fwmark`, for one) read. Two parties write that map
without any common lock: three tracepoint programs in the kernel (`mark.c`) and
a daemon in userspace (`mark.go`, `policy.go`) that keeps its own copy, the
*mirror*. The kernel tells the daemon what happened through a ring buffer that
may lose events. A socket marker turns process marks into `SO_MARK` values, and
an HTTP server changes the rules while all of this runs. This directory models
that system, checks it with TLC on small instances and proves the main safety
results with TLAPS for all instances.

## 1. Inventory

| component | state | operations | talks to |
|---|---|---|---|
| process value and merge order (`mark.go` 47-65, 919-972, 1110-1140; `mark.c` 69-84, 171-188) | none: a record and an order | preferProcessValue, next_process_value_wins, constructors | everything below |
| tracepoint programs (`mark.c`) | maps `processes`, `comm_rules`, `active_policy`, ring `events` | fork, exec and exit handlers | write the map, submit events; run between any two instructions of the daemon |
| marker (`mark.go`) | mirror, generation, policy, check, event counter, callbacks; one mutex | handleEvent, traversal with refresh and repair, collectTombstones with cleanup, SetChecker, SetProcessMark, ForceProcessTraversal, ForceBumpGeneration, UpdateHooks, Run | reads the ring and `/proc`, writes the maps, calls consumers |
| kernel-policy transaction (`policy.go`) | generation, policyGeneration, kernelPolicy, installedCommRules, the two policy maps | SetKernelPolicy, cleanup, rollback | read concurrently by the exec program |
| multirule tracker (`multirule/multirule.go`) | nextID, rules, processes, latestPID; one mutex | RegisterRule, UnregisterRule, ApplyProcess, ApplyProcessEvent | fed by the daemon's check and event callbacks |
| rule compiler (`cmd/main.go` 883-1067, `policy.go` 77-136) | none | compileDefaultKernelPolicy, defaultCheck, ExactCommFromRegexp | its policy goes to the exec program, its check to the marker |
| fwmark (`fwmark/`) | cgroup links, the sockets of processes | socket hooks, descriptor scan, NewManager, Close | hooks read `processes`; the scan runs in ProcessUpdate, under `marker.mu` |
| control server (`cmd/main.go` 189-507) | config, rule list; `controlMu`, `multiRuleManager.mu` | POST /rules, GET /state, POST and DELETE /multirules | calls the daemon and the tracker |
| lifecycle (`mark.go` 209-485) | links, reader, objects, done channel, two `sync.Once` | NewDaemon, Run, Stop, Close, the end of runEvents | all of the above |

What is hard here: the BPF programs look a value up, decide and write without
comparing again; the daemon's Puts do not compare either; events arrive late,
in another order than the map writes, or never; a policy switch races forks and
execs of the old policy; map writes fail one at a time; processes change
between a `/proc` listing and its use; PIDs are reused; a socket call reads the
map and takes effect later; Stop clears sockets while the hooks still mark them;
requests overlap each other and Stop. `PROJECT.json` lists
each of these as a hazard at its line, with the properties aimed at it.

What makes each component correct:

* **merge order**: the winner does not depend on the order of arrival or on the
  side that computes it; a tombstone is final.
* **kernel and marker together**: once nothing about a process is under way,
  both maps agree, the mark is the one the current policy asks for, and the
  consumers know it; nothing dead or stale stays.
* **policy transaction**: what the exec program sees is one complete policy,
  whatever fails.
* **multirule**: the holders of an ID are the matches and their tracked
  descendants, no more and no less; IDs are not confused.
* **rule compiler**: the exec program and userspace decide alike.
* **sockets**: they carry the fwmark of their process's entry, and none after
  Stop; nothing is done to another process's sockets.
* **control server**: configuration, policy and check stay together; the two
  halves of the multirule list do; every request is answered.
* **lifecycle**: whatever fails, nothing stays attached; Stop returns.

## 2. Modules

    ProcessValue ----- MergeRegister -- MCMergeRegister
         |                  (one key, offers in any order)
         +-- MarkBPF -- Marker -- PMark -- MCPMark
         |   (kernel)  (daemon)  (both)
         +-- Registry: what PMark's mirror implements

    KernelPolicy -- MCKernelPolicy      PolicyRegister: what KernelPolicy implements
    MultiRule ----- MCMultiRule

    Daemon --+-- Fwmark --- MCFwmark
             +-- Control -- MCControl
    CommRules --/

    Theorems: ProcessValueProofs, MergeRegisterProofs, KernelPolicyProofs,
    MultiRuleProofs, ControlProofs, FwmarkProofs (Daemon and Fwmark),
    PMarkProofs -- EnforcementProofs (both about PMark)

**ProcessValue.** The record of one lifetime. `inheritance` keeps the source's
historical name and means *explicit*. The merge order is translated twice, from
Go and from C. Priorities are `int8`; generations, marks and timestamps are
naturals (no arithmetic on them overflows except the tombstone cutoff, which is
taken modulo `TimeModulus`, and the generation counter, whose end is modelled in
`KernelPolicy`).

**MarkBPF.** A key is a process lifetime (PID and start time). `life` goes
unborn, running, (leaderless,) zombie, gone. Each program is two steps, lookup
and commit, with what it saw in `bpf[k]`; `Clone` and `Execve` are the moments
at which the task is already visible in `/proc` but its tracepoint has not
fired. Timestamps may be taken at either end of that window. `processes` refuses
new keys when it holds `MapCap` entries; the ring holds `RingCap` events and
either drops (`Lossy`) or is assumed never to be full. `Foreign` stands for
processes outside the model, among them init.

**Marker.** `pc` and `owner` say where the holder of `marker.mu` is. Handlers
are split where the code does something the kernel could interleave with: an
event is `RecvX` (merge of the kernel's value and the first Put) and `DecideX`
(the check, and the second upsert); a traversal is `Refresh`, `RepairAndList`
and one `Walk` per process; a collection is `CollectTombstones`, one `SweepDead`
per dead key and `SweepDone`, which starts a traversal when an entry has an old
generation. `notified` is what a consumer of ProcessUpdate last heard.
`RefreshAbort` is a map iteration that fails.

**PMark.** The two together, the start sequence of `Run` included, and the
properties of section 4.

**KernelPolicy.** `setKernelPolicyLocked` with one step per Put and Delete, each
of which may fail, and exec programs that read `active_policy` and `comm_rules`
in between. In `Marker` the same switch is one step; `PolicyIsRegister`, proved
here, is what justifies that. `installedCommRules` is the set of its keys.

**MultiRule.** Every method is a step, except that `RegisterRule` is the loop it
is. Processes fork, exec, exit and reuse PIDs around the tracker; whether an
exit is reported is left open, because the daemon reports the exits of marked
processes only.

**Daemon.** The life of a `Daemon` value: Run's attaches in their order with the
undo of each failure, the reader, the event goroutine from `ErrClosed` over the
deferred `Close` to the send on `done`, Stop and Close with their `sync.Once`,
and a kill followed by the next `NewDaemon`. It is composed with `Fwmark` and
with `Control`; what the event goroutine does with events is `Marker`'s.

**Fwmark.** A system call is two steps: the cgroup program that reads the
process map, and the moment the socket enters the descriptor table or the
connection is made; a socket that is accepted meets no program. A process update
is the scan of `fwmark.go` in five stages (start time compared, `/proc/PID/fd`
listed, pidfd opened, one descriptor after the other, done), with processes
running in between: they lose their leader or exit, their PID is taken, they
close and open sockets; `ReadDir`, `pidfd_open` and every single descriptor may
be refused. What the daemon decides is any sequence of values that respects
tombstones. How a decision gets to map, mirror and consumers is kept: the daemon
changes its mirror, Puts the value, which fails in a full or closed map, and
calls back (`Upsert`); a program writes the map and submits an event, which is
counted in `owed` or dropped; its handler calls back or not; a refresh levels map
and mirror without telling anybody. `untold` has the keys about which consumers
have not heard what map and mirror both say. `Half` stands for 2^32: the fwmark
is the upper half of the mark, and is translated from Go and from C.

**CommRules.** What main makes of a rule list, as operators: the check callback
on one side, mode and exact rules of the kernel policy on the other, and `Agree`,
the contract between them that `Marker` assumes of its policies.

**Control.** Each request is a process that goes through the stages of its
handler; `controlMu` is a variable, `Tracker.mu` and `multiRuleManager.mu` are
held within one step. SetKernelPolicy is one step that succeeds or fails: that is
what `PolicyRegister` promises and `KernelPolicyProofs` proves. Requests go on
while Stop closes the maps under them.

`PROJECT.json` maps every definition to its lines. Operators whose comment
starts with *Mutant* are wrong variants of the definition that follows them;
no specification uses them. They show that each property notices a plausible
bug of that place.

## 3. Runs

| run | instance | question |
|---|---|---|
| `steady` | 2 lifetimes, 2 command names, authoritative rules, one policy switch, forced traversals and hook changes; 4 moves of a daemon that is up, 3 from before `Run` | do all races among fork, exec, exit, events and a switch end right, and does traverse, attach, traverse miss anything? |
| `faults` | ring of 1, map of 1, failing iterations, API marks, leader exits, collection after every event, fairness | is everything that was lost repaired or found in the end? |
| `merge_register` | 64 values, 3 offers | is the winner independent of arrival order? |
| `kernel_policy` | 2 names, policies of 2, 1 and 0 rules, 4 generations, capacity 4, 1 exec | is the policy in force always complete? |
| `multirule` | 3 lifetimes on 2 PIDs, 2 rules (one of them nil), 2 IDs, 6 moves, fairness | are holders exact and IDs distinct, and does the walk end? |
| `sockets` | 2 lifetimes on 1 PID, 1 descriptor number, 1 mark, 2 changes of the map or kills of the daemon | do sockets follow the map through hooks, scans, faults, Stop and a kill? |
| `control` | 2 requests at a time, 3 in all, 4 rule lists, 2 marks, fairness | do concurrent requests and Stop leave one consistent configuration, and does everybody finish? |
| `thread_fork`, `late_event`, `grace`, `torn_exec`, `only_descendants` | as small as shows it | section 6 |

The bounds. `MaxMoves` limits what processes, callers and the clock do; the
daemon and the programs are never limited. Two lifetimes suffice for parent and
child with a second actor on each map entry; two command names give match and
miss; three generations give old, current and next. Four moves contain, for
example, fork, exec in the child, a switch and an exit, which is the longest
chain of causes any handler looks at (a value, its parent's, the policy and the
end of the lifetime). In `faults` the ring and the map have room for one, so
that both are full in most states. Three offers are enough for a total order: a
winner that depends on arrival shows with three values. Two IDs wrap after two
registrations, and two of three lifetimes share a PID, so cyclic parent links
occur. In `sockets` the two lifetimes of one PID give a scan that is overtaken
by PID reuse; one descriptor number gives a socket that is closed and another
opened under the number the scan has listed; the mark has upper and lower halves
that differ; two changes are a mark and its correction, each by the daemon or by
a program, with its event queued, dropped or handled late. A kill
counts as a change, for the next daemon starts with an empty map; one change
beside it suffices, as what the killed daemon knew is lost. In `control` three requests are an update, a
second one that overtakes it and a reader or a DELETE; the rule lists have each
of the three modes, a name promoted twice, the empty name, a pattern that does
not compile, and as many exact names as fit. `RingCap` in the lossless runs is
a cap on the queue, not a fault: a program whose event does not fit waits.

`sockets` uses symmetry: the two lifetimes have the same PID and nothing
tells them apart, and only invariants are checked. In the other runs the initial
states tell the keys apart.

Deadlock is checked in `kernel_policy`, `multirule`, `torn_exec` and
`only_descendants`. In the other runs the bounded environment stops and nothing
is left to do, so `CHECK_DEADLOCK FALSE`.

Fairness (`faults`, `late_event`, `grace`, `multirule`, `control`). The event
goroutine and whoever holds the mutex keep running (weak fairness): neither
waits for anything but events and the mutex. A BPF program that started
finishes. Host-wide traffic goes on, so the event counter reaches a collection:
the code has no timer and needs that. An iteration of the kernel map may fail
any number of times but not always (strong fairness on `Refresh`): iteration
fails when entries are deleted under it, which is transient. Processes and
callers owe nothing. In `control`, some handler that can take a step does (weak
fairness on all requests together, so nothing is asked of the mutex or the
scheduler towards a single one), and so do the event goroutine and Stop.

## 4. Properties

*PMark.* `Settled(k)`: no program in flight, no event queued or lost since the
last refresh, no failed Put.

* `MapsConverge`: kernel map and mirror agree on every settled key.
* `NoStaleGeneration`: with the mutex free, no live process has an entry of an
  older policy.
* `MatchEnforced`, `MissEnforced`: a settled running process carries exactly
  the explicit mark the current check gives its command name, and no explicit
  mark otherwise (the latter once `Run` is over, see section 6).
* `ConsumersInSync`: consumers of ProcessUpdate hold the effective mark.
* `MirrorIsRegistry`: the mirror refines `Registry`; entries only improve in
  the merge order and leave only as tombstones.
* `DeadTombstoned`, `StaleHealed` (liveness): the dead do not stay live, and a
  process that missed a switch is decided again.

*MergeRegister.* `BestOffered`, `TombstoneAbsorbs`.

*KernelPolicy.* `ActiveComplete`, `NoRuleLeaks`, `PopulateFits`,
`LookupFaithful`, `PolicyIsRegister` (refinement of `PolicyRegister`).

*MultiRule.* `NoGhostRules`, `MatchesHeld`, `PropagationExact`,
`LatestTracked`, `NoRuleReplaced`, `RegisterTerminates` (liveness).

*Fwmark.* `SocketsFollow`: once no update about a running process is under way,
each of its sockets that the code can vouch for has the fwmark of its map entry.
What is excepted, by name:

* a process that consumers were not told about since it changed (`Behind`): its
  event is still in the ring, was dropped, or was handled without a callback, or
  the Put of the value they were told failed. The next update whose Put works
  ends this; how events come to be handled loudly enough is `ConsumersInSync`;
* a process whose leader has exited (`life` is `leaderless`): it has a tombstone,
  which hooks read as no mark and scans skip;
* a socket whose own call overlapped with the change, that `accept` made, that a
  scan was not allowed to touch, that a scan meant for the former holder of the
  PID touched, or that a killed daemon left (`sure` is false); the next scan, or
  the next connect that finds a fwmark, ends each of these.

`StopClears`: after Stop no mark is left on such sockets, also where Puts failed
and events were dropped or never handled; except of a process whose leader has
exited, and of one that is in the map but not in the mirror (`Unknown`), which
the replay does not know. `ScanOwnProcess`: a scan reaches another process only if the PID
changed hands between the comparison of start times and `pidfd_open`.
`NoDanglingLinks`: tracepoint links exist only while somebody will close them.

*Control.* `PolicyMatchesConfig`, `PolicyAgrees`, `ReportConsistent`,
`DefaultsFresh`, `ManagerAgrees`; `RequestsAnswered` and, from Daemon,
`StopReturns` (liveness).

## 5. Proofs

All constants are arbitrary within the named assumptions of the modules: any
sets of lifetimes, names, policies and values, any bounds. The assumptions say
that model values which stand for different things differ (an absent entry, a
tombstone, an unmarked entry and a mark; no socket and a socket), that marks
have 64 bits and bounds are numbers, and that a policy is what
validateAndNormalizeKernelPolicy lets through: finitely many rules, at most
`MaxRules`. Every inductive invariant below was checked with TLC on the runs of
its module before it was proved.

* **ProcessValueProofs**: `GoAndKernelAgree`, and that the order is reflexive,
  total and transitive; each is a case split on the five compared fields.
* **MergeRegisterProofs**: `MergeKeepsBest` and `TombstonesAbsorb`. The
  inductive invariant adds the types; the step for an offer needs totality (the
  loser is beaten by the winner) and transitivity (so is all it had beaten).
* **PMarkProofs**: `TypeCorrect` and `MirrorRefinement`. `TypeOK` alone is not
  inductive: a step uses the value a program or handler carries as a record
  where it may be `Absent`. `IInv` adds `HandsOK`: a fork in its commit stage
  holds a value it saw, a handler that is half way has a key of the model, and
  every key of a sweep still has an entry in the mirror. Every step is shown to give `MirrorStep`, which is a step of
  `Registry` or a stutter.
* Also there: `Convergence`, that is `MapsConverge`, without any
  condition. `MapsConverge` says nothing of a key that is not settled, so it is
  far from inductive. The invariant `CInv` says *who knows* when the maps differ
  on a key (`Accounted`): the Put that failed (`unsynced`), the event that was
  dropped (`lost`), the repair that is due, or an event on its way whose value
  is the one in the kernel map and behind which no other event about that key is
  queued (`Reported`). An event that is handled must leave the maps equal
  whichever value wins; that needs three more facts. A fork's event is the first
  about its child, so the mirror has nothing to set against it, and a key nobody
  has heard of (`Newborn`) or whose kernel entry is absent is in agreement. A
  program in its commit stage has seen the current entry, or the maps agree
  (else its write would hide a difference nobody knows of). And every value
  carries a reading of the clock that is not zero and not in the future
  (`ClockInv`): an event that reports no entry is told apart from one that
  reports a value, and a tombstone made now is not older than what it replaces.
  `LifeInv`: a program runs for a running process only.
* And `NobodyForgotten` and `NobodyForgottenByPolicy`, that is
  `NoStaleGeneration`. `GenInv` says who may still be behind while the mutex is
  held: the process of the event being handled, the processes the walk has not
  come to, and anybody before the walk has its list. A step of the walk
  or of an event upserts a value of the current generation, with a time not older
  than the entry's, so the entry is current afterwards whichever of the two wins;
  merging never lowers a generation, and tombstones count as current. Two conditions are needed, and
  both are about the code. If iterating the map fails, the traversal ends before
  the walk and a process does stay behind (`faults`, where `StaleHealed` is what
  holds instead): `AbortIteration = FALSE`. And SetProcessMark (`mark.go` 867)
  takes any key: marked before the process exists, an entry is overlooked by a
  walk over `/proc` and is stale once the process starts. `NobodyForgotten`
  assumes that callers do not do that; `NobodyForgottenByPolicy` assumes instead
  that nobody calls SetProcessMark, as in `steady`, and proves that the program
  itself never makes such an entry (`UnbornInv`: none of the maps, the ring, the
  handler and the walk has a lifetime that has not begun).
* **EnforcementProofs**: `MatchIsEnforced`, `MissIsEnforced` and
  `ConsumersFollow`, that the marks are those the policy asks for and that the
  consumers know them. The common part `BaseInv(P)` joins the invariants above
  with `AliveInv` (nothing in the maps, the ring or a program's or handler's
  hands holds a tombstone of a process that has not ended), `OrderInv` (what Run
  has reached, and who holds the mutex) and `ValueInv(P)` (no value is of a
  generation to come; if the rules have the one priority `P`, no value outranks
  a decision). Every step is first reduced to what it does to *one* process: a
  dozen cases for the kernel (`KernelDoes`) and as many for the daemon
  (`DaemonDoes`), each with what it leaves alone. The invariants are then per
  process, and their proofs have a step for each case.
  * *Match*: `MatchInv` says that a running process is decided, or that somebody
    is still to decide it (`Undecided`: an exec program or event, the handler or
    the walk that has the mutex, a Run that has not finished). `CommInv` says
    that whoever is to decide it has its command name, or will be followed by
    somebody who has.
  * *Miss*: `MissInv` says that an explicit mark of a process that the check
    does not match is of an earlier generation, wherever it is kept; as
    `NoStaleGeneration` holds, there is none when the process is settled.
    `FirstInv`: the event of a fork is the first about its child.
  * *Consumers*: a refresh and the first half of an exec change the mirror
    silently. `DomInv` and `ConsInv` say that the kernel's entry is then
    one an event on its way reports (`Reports`), or one that the mirror's
    beats already (`Dominated`), so that handling the event tells the consumers.

  The hypotheses, and what TLC says of `steady` without each of them:

  | hypothesis | Match | Miss | Consumers |
  |---|---|---|---|
  | an iteration of the kernel map does not fail (`AbortIteration = FALSE`) | needed | needed | used by the proof |
  | nobody calls SetProcessMark (`ApiMarks = {}`) | needed | needed | needed |
  | no leader exits before its threads (`LeaderExits = FALSE`) | needed | used by the proof | used by the proof |
  | the ring drops nothing (`Lossy = FALSE`) | not assumed | needed | needed |
  | one priority for all rules, not negative (`OnePriority(P)`) | needed | not assumed | needed |

  *Needed* means that TLC finds a counterexample without it; *used by the proof*
  that TLC finds none and the theorem is weaker than what seems to hold. A failed
  iteration leaves processes at the old generation; SetProcessMark is meant to
  overrule the check; a leader's exit makes a tombstone of a running process;
  after a dropped exec the value a traversal lets a process inherit loses to the
  explicit mark of the program before, and consumers keep the old mark. For
  priorities see section 6.
* **KernelPolicyProofs**: the conjuncts of `Inv` are `ActiveInv` (the active
  generation is complete), `FreshInv` (a generation above the reserved one has
  no rules, hence a new transaction starts from nothing), `TxInv` (what the
  transaction wrote so far and has still to do), `LeakInv` (stored rules are
  known) and, for exec programs, `ReaderInv`. `ActiveComplete` needs
  `FreshInv`: that a failed transaction never gives its generation back is what
  keeps its remains out of a later policy. `PolicyRefinement` follows because
  only `Activate` changes what is in force. `MapLargeEnough` counts:
  `FullnessInv` says that every stored rule is of the generation in force, or of
  the transaction, or is left over from a Delete that failed; without failures
  the stored rules are those of one policy and a proper part of another, fewer
  than `2 * MaxRules` (`PolicySize`).
* **MultiRuleProofs**: `Inv` has `NoGhostRules`, `MatchesHeld`, `LatestTracked`
  and `WalkInv`: holders of the new ID are on the stack or seen, children of
  seen keys are holders, and holders belong to the family of the matches. With
  an empty stack the holders are closed under children, so they are the
  smallest such set (`PropagationCorrect`).
* **ControlProofs**: `CompileAgrees` is a case split on the mode: in an
  authoritative policy every pattern is an exact one and nothing else can match.
  `PolicyInv` is the inductive invariant of the policy theorems: whoever is in a
  critical section holds `controlMu` (`LockInv`), so at most one request is
  *done* (has switched the policy and not yet assigned config); the policy is
  the compiled check; the check is that of config or of the request that is done
  (`CheckInv`); what a reader has collected is still in force, and the mark now in
  force is among those each update has seen (`RequestInv`). `ManagerCorrect`
  needs `IDInv`: IDs in use are below `nextID`, only one request is about to list
  an ID, and that ID is tracked or was overtaken.

* **FwmarkProofs**: `Inv` has seven parts. `DaemonInv`: an event goroutine
  exists exactly when Run succeeded, it closes everything before it sends on
  `done`, and Stop waits for that; `LinksDetached` is a corollary. `ManagerInv`:
  main's order of attaching, wiring, stopping and closing. `ProcessInv`: one
  process per PID. `MapInv`: map and mirror differ only on keys that are
  `Behind`, and tombstones are of processes whose leader has exited. `ScanInv`:
  what a scan applies is what the map says, unless its key is behind, or nothing
  once Stop replays; and its PID still belongs to its process unless it is marked
  as swapped (`ScanIsOfItsProcess`). `CallInv`: a system call that nothing has
  overtaken carries the fwmark that is due. `SocketInv`: a socket of a running
  process that is vouched for has the fwmark that is due, or somebody will still
  see to it (`Queued`: the key is to be replayed, or a scan has the descriptor
  before it), or the process is excepted (`Excused`: behind while the daemon
  serves, unknown to the mirror once it stops). `SocketsAreMarked` and
  `StopLeavesNoMark` follow, as nothing is queued when the mutex is free. What is
  due changes at two moments, when map or mirror change and when Stop starts to
  replay. At the first, `DecisionEffect` says for every kind of decision that the
  key is behind afterwards, or map and mirror agree and a scan of just that value
  begins; at the second everybody the mirror has is queued, and at both calls in
  progress count as overtaken.

Only model-checked: the liveness properties (`DeadTombstoned`, `StaleHealed`,
`RegisterTerminates`, `RequestsAnswered`, `StopReturns`), for fairness and
ENABLED are out of the prover's reach.

## 6. Where the code and its documentation differ

Each has a run that shows it; `PROJECT.json` quotes the lines.

1. `thread_fork`: a fork by a thread that is not the leader finds no parent
   entry (`mark.c` 194).
2. `late_event`: a late exec event writes a live value over the kernel's
   tombstone (`mark.go` 695), until the exit event behind it is handled.
3. `grace`: the tombstone cutoff underflows in the first minute of uptime
   (`mark.go` 1011).
4. `torn_exec`: the compiled exec program reads `active_policy` again after the
   rule lookup (`mark.c` 334). The event that follows repairs the entry.
5. `only_descendants`: after PID reuse, parents are confused
   (`multirule.go` 279).

Observations without a run:

* Within a generation the priority is compared before the time, so an exec into
  a program that a rule of lower priority matches keeps the mark of the previous
  program (`mark.c` 352; README 442 says that a match is written). The rules that
  main compiles from one request share a priority, but a later request may lower
  it (`main.go` 636): an entry without a mark keeps the old priority in the new
  generation, and the next match loses to it. With priorities 5, then 3 on
  `steady`'s policies, TLC finds `MatchEnforced` and `ConsumersInSync` violated,
  and with negative ones, which lose to the priority 0 of an exec program's miss.
  Hence `OnePriority` in the theorems, and one priority in the runs.
* A process that Run's first traversal marked, and that execs into a program
  which does not match before the exec program is attached, keeps its mark until
  the next policy switch (`mark.go` 299).
* POST /rules without a mark may undo a concurrent change of the mark
  (`main.go` 235): `DefaultsFresh` allows that, for the mark was in force.
* A DELETE that guesses the ID of a rule between its registration and its
  listing leaves a rule in the list that the tracker does not have
  (`main.go` 488; `overtaken`), and that no DELETE removes any more: the tracker
  does not know it, so the answer is 404.
* Stop before Run, or after a Run that failed, waits for ever (`mark.go` 418).
* `^$` is promoted as an exact rule for the empty name, which the check never
  matches (`main.go` 1058).
* The sockets of a process whose leader has exited, while other threads go on,
  keep the mark they had: the exit program makes the entry a tombstone
  (`mark.c` 259-276), and `applyProcessUpdate` skips tombstones (`fwmark.go`
  128), in a policy switch and in Stop's replay too. New sockets of it get none.
* After a Put that failed, in a full map or one that `Close` has closed under a
  traversal, the scan marks sockets with the mirror's value and the hooks go on
  with the map's (`mark.go` 927-931, 978), until an update of the process works.
* The sockets of a process that a new daemon does not mark keep the marks of a
  daemon that was killed.
* `ProcessEvent.Value` is the candidate, not the winner of the merge; the
  children of a traversal inherit from the candidate too (`mark.go` 782-803;
  modelled).
* A tombstone that only the kernel has is not collected until a refresh.
* The miss of the exec program in a new generation has priority 0, which
  negative priorities of the same generation lose to.
* The doc of ProcessValue (`mark.go` 60-64) leaves out that explicit beats
  inherited.

## 7. Abstractions, and what is not modelled

* A Put or lookup of one map element is atomic. Values that a program copied
  from the map are snapshots.
* `/proc` is listed in one step, then `ListMiss` removes processes that were
  gone when their turn came. `listProcesses` failing is a no-op.
* A zombie is visible in `/proc`.
* Every nowBootNS() is a new instant. The sweep's single reading for all dead
  keys is one reading per key here: the keys are independent.
* Matching looks at the command name only; `cmdline`, `exe` and PPID rules are
  what makes `check` and `rules` differ.
* The failing fallback Delete of `collectTombstones`, which skips the cleanup
  of that round, is left out.
* In `Fwmark` a socket belongs to one process: descriptors inherited by fork or
  passed on are left out, and so are descriptors that are not sockets, which the
  scan skips. The daemon's decisions are arbitrary there, not `PMark`'s; of two
  updates in one handler the last one counts, and any event may be handled
  without a callback. Tombstones are not collected. A process whose leader was
  replaced by a thread's exec stays leaderless. SetProcessMark after Stop, which
  main does not call, is left out. An accepted socket has any mark.
* `CommRules` is given which names a pattern matches and whether it is an exact
  one; regular expressions are not parsed. Its rules share one mark, as main's
  do: what normalisation does with rules of different priorities, and
  `exactCommCheck`, are not reached from main.
* In `Control`, parsing a request reads no shared state and is part of the step
  before it; a request's fields besides rules and mark are left out.
* `ReconcileMarkedProcesses`, `GET /multirules` and the tracker's queries: no
  state changes, or no caller.
* Generated bindings, rendering, flags, the watcher, tests and scripts: not at
  all, for they have no state of this protocol.

## 8. Plan

All parts of the program that have state of this protocol are modelled, every
property of the runs is checked, and every safety property of them is proved.
What could still be strengthened are hypotheses that a proof uses and TLC does
not miss (section 5, the table): leaders that exit early in `MissIsEnforced` and
`ConsumersFollow`, and failing iterations in `ConsumersFollow`. `AliveInv` would
then have to say which tombstones a leaderless process may have.
