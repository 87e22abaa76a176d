------------------------------ MODULE MarkBPF ------------------------------
(***************************************************************************)
(* The kernel side of p-mark (mark.c): the process tree, the pinned maps   *)
(* `processes' and `active_policy'/`comm_rules', the ring buffer `events', *)
(* and the three tracepoint programs.                                      *)
(*                                                                         *)
(* A program looks a value up, computes, and writes later; userspace and   *)
(* the other programs run in between.  Each program is therefore a lookup  *)
(* step and a commit step, with what it saw kept in bpf[k].                *)
(*                                                                         *)
(* A Key is one process lifetime.  Foreign stands for every lifetime       *)
(* outside Key: init, which adopts orphans, and keys that never have an    *)
(* entry.                                                                  *)
(***************************************************************************)
EXTENDS ProcessValue, Sequences, FiniteSets

CONSTANTS
    Key, Foreign,
    Comm,            \* command names
    InitiallyRunning,\* the keys that run in the initial state
    InitComm,        \* their command name
    RingCap,         \* events the ring buffer holds
    Lossy,           \* TRUE: a full ring drops events; FALSE: it is never full
    MapCap,          \* entries the processes map holds
    MaxMoves,        \* bound on what processes, callers and time do
    StartClock,      \* the clock when the model starts
    ThreadForks,     \* threads other than the leader may fork
    LeaderExits,     \* a leader may exit before its other threads
    NoMatch          \* the answer of a rule table that has no rule

Decision == [priority : Int8, mark : Nat]
RuleTable == [Comm -> Decision \cup {NoMatch}]
NoRules == [c \in Comm |-> NoMatch]
Mode == {"userspace-only", "positive-only", "authoritative"}

ASSUME KernelAssumption ==
    /\ Foreign \notin Key
    /\ InitComm \in Comm
    /\ InitiallyRunning \subseteq Key
    /\ RingCap \in Nat /\ MapCap \in Nat
    /\ MaxMoves \in Nat /\ StartClock \in Nat
    /\ Lossy \in BOOLEAN /\ ThreadForks \in BOOLEAN /\ LeaderExits \in BOOLEAN
    /\ NoMatch \notin Decision

VARIABLES
    life,        \* [Key -> Life]: where the process is between fork and reap
    comm,        \* [Key -> Comm]: task->comm
    parent,      \* [Key -> Key \cup {Foreign}]: the parent that /proc reports
    attached,    \* the tracepoint programs that are attached
    processes,   \* [Key -> Entry]: the pinned hash map
    active,      \* active_policy, with the rule table of its generation
    commRules,   \* the generations whose rules are in comm_rules
    bpf,         \* [Key -> program in flight for that key]
    events,      \* the ring buffer
    clock,       \* bpf_ktime_get_boot_ns() and CLOCK_BOOTTIME
    lost,        \* history: keys with a dropped event since the last refresh
    moves        \* history: moves of the environment so far

kvars == <<life, comm, parent, attached, processes, active, commRules, bpf,
           events, clock, lost, moves>>

Life == {"unborn", "running", "leaderless", "zombie", "gone"}
Program == {"fork", "exec", "exit"}

\* Before the program runs: "clone" and "execve"; after its lookups: the
\* program itself.
Stage == {"idle", "clone", "execve"} \cup Program

InFlight == [stage : Stage, seen : Entry, rule : Decision \cup {NoMatch},
             generation : Nat, time : Nat, forker : Key \cup {Foreign}]

Idle == [stage |-> "idle", seen |-> Absent, rule |-> NoMatch,
         generation |-> 0, time |-> 0, forker |-> Foreign]

Event == [type : Program, key : Key, parentKey : Key \cup {Foreign},
          hasMark : BOOLEAN, value : ProcessValue, comm : Comm]

ActivePolicy == [generation : Nat, mode : Mode, rules : RuleTable]
NoPolicy == [generation |-> 0, mode |-> "userspace-only", rules |-> NoRules]

KernelTypeOK ==
    /\ life \in [Key -> Life]
    /\ comm \in [Key -> Comm]
    /\ parent \in [Key -> Key \cup {Foreign}]
    /\ attached \subseteq Program
    /\ processes \in [Key -> Entry]
    /\ active \in ActivePolicy
    /\ commRules \subseteq Nat
    /\ bpf \in [Key -> InFlight]
    /\ events \in Seq(Event)
    /\ clock \in Nat
    /\ lost \subseteq Key
    /\ moves \in Nat

KernelInit(programs, installed, made) ==
    /\ life = [k \in Key |-> IF k \in InitiallyRunning THEN "running" ELSE "unborn"]
    /\ comm = [k \in Key |-> InitComm]
    /\ parent = [k \in Key |-> Foreign]
    /\ attached = programs
    /\ processes = [k \in Key |-> Absent]
    /\ active = installed
    /\ commRules = {installed.generation} \ {0}
    /\ bpf = [k \in Key |-> Idle]
    /\ events = <<>>
    /\ clock = StartClock
    /\ lost = {}
    /\ moves = made

-----------------------------------------------------------------------------
(* Helpers *)

\* A key whose directory /proc shows.
Visible(k) == life[k] \in {"running", "leaderless", "zombie"}
Alive(k) == life[k] \in {"running", "leaderless"}

\* Mutant: an event without an entry carries no struct at all.
RawValue(e) == e

Lookup(map, k) == IF k \in Key THEN map[k] ELSE Absent
ValueOf(e) == IF e = Absent THEN ZeroValue ELSE e

\* A hash map refuses a new key when it is full.
CanPut(k) ==
    \/ processes[k] # Absent
    \/ Cardinality({j \in Key : processes[j] # Absent}) < MapCap

Now == clock + 1

\* now_ns() runs between the lookup and the write: its reading is the one
\* reserved at the lookup or a new one, and nothing else has the same.
Stamp(k) == {bpf[k].time, Now}
Advance(t) == clock' = IF t > clock THEN t ELSE clock

\* A fork, exec or exit, an API call, a tick: what the model has to bound.
Move == moves < MaxMoves /\ moves' = moves + 1

\* bpf_ringbuf_reserve .. bpf_ringbuf_submit; a failed reserve drops the
\* event.  `found' decides has_mark, `e' is the value that is reported.
Submit(type, k, pk, found, e) ==
    IF Len(events) < RingCap
    THEN /\ events' = Append(events, [type |-> type, key |-> k, parentKey |-> pk,
                                      hasMark |-> CanInherit(found),
                                      value |-> ValueOf(e), comm |-> comm[k]])
         /\ UNCHANGED lost
    ELSE Lossy /\ lost' = lost \cup {k} /\ UNCHANGED events

\* A task in the middle of fork, exec or exit does nothing else.
Busy(k) ==
    \/ bpf[k].stage # "idle"
    \/ \E c \in Key : bpf[c].stage \in {"clone", "fork"} /\ parent[c] = k

Finish(k) == bpf' = [bpf EXCEPT ![k] = Idle]

-----------------------------------------------------------------------------
(* sched_process_fork *)

\* copy_process has made the child visible; the tracepoint has not fired.  pk
\* is the key that process_key_from_task gives the forking task: another
\* thread's start time is not its leader's, so that key has no entry.
Clone(p, c, pk) ==
    /\ Move
    /\ life[c] = "unborn"
    /\ p # Foreign => life[p] = "running" /\ ~Busy(p)
    /\ pk = p \/ (ThreadForks /\ pk = Foreign)
    /\ life' = [life EXCEPT ![c] = "running"]
    /\ comm' = [comm EXCEPT ![c] = IF p = Foreign THEN @ ELSE comm[p]]
    /\ parent' = [parent EXCEPT ![c] = p]
    /\ bpf' = [bpf EXCEPT ![c] = [Idle EXCEPT !.stage = "clone", !.forker = pk]]
    /\ UNCHANGED <<attached, processes, active, commRules, events, clock, lost>>

\* The two lookups.  Only a child without an entry whose parent carries a live
\* mark goes on to an update.
ForkLookup(c) ==
    LET pk == bpf[c].forker
        existing == processes[c]
        parentValue == Lookup(processes, pk)
    IN  /\ bpf[c].stage = "clone"
        /\ IF existing = Absent /\ CanInherit(parentValue)
           THEN /\ Advance(Now)
                /\ bpf' = [bpf EXCEPT ![c] = [Idle EXCEPT !.stage = "fork", !.forker = pk,
                                                !.seen = parentValue, !.time = Now]]
                /\ UNCHANGED <<events, lost>>
           ELSE /\ Submit("fork", c, pk, existing, existing)
                /\ Finish(c)
                /\ UNCHANGED clock
        /\ "fork" \in attached
        /\ UNCHANGED <<life, comm, parent, attached, processes, active, commRules, moves>>

\* The parent's generation is kept.
ForkCopy(parentValue, now) == InheritedValue(parentValue, parentValue.generation, now)

\* bpf_map_update_elem(BPF_NOEXIST): a key inserted since the lookup wins.  In a
\* full map the copy is only reported, with has_mark = false.
ForkCommit(c) ==
    /\ bpf[c].stage = "fork"
    /\ \E t \in Stamp(c) :
         LET copy == ForkCopy(bpf[c].seen, t)
             now == processes[c]
             put == now = Absent /\ CanPut(c)
         IN  /\ Advance(t)
             /\ processes' = IF put THEN [processes EXCEPT ![c] = copy] ELSE processes
             /\ Submit("fork", c, bpf[c].forker,
                       IF put THEN copy ELSE now,
                       IF now = Absent THEN copy ELSE now)
    /\ Finish(c)
    /\ UNCHANGED <<life, comm, parent, attached, active, commRules, moves>>

-----------------------------------------------------------------------------
(* sched_process_exec *)

\* begin_new_exec has set the command name; the tracepoint has not fired.  An
\* exec by another thread gives it the leader's identity.
Execve(k, c) ==
    /\ Move
    /\ Alive(k) /\ ~Busy(k)
    /\ life' = [life EXCEPT ![k] = "running"]
    /\ comm' = [comm EXCEPT ![k] = c]
    /\ bpf' = [bpf EXCEPT ![k] = [Idle EXCEPT !.stage = "execve"]]
    /\ UNCHANGED <<parent, attached, processes, active, commRules, events, clock, lost>>

\* Look up the entry, the active policy and, under its generation, the rule.
ExecLookup(k) ==
    /\ bpf[k].stage = "execve"
    /\ "exec" \in attached
    /\ IF active.generation # 0 /\ active.mode # "userspace-only"
       THEN /\ Advance(Now)
            /\ bpf' = [bpf EXCEPT ![k] = [Idle EXCEPT !.stage = "exec",
                         !.seen = processes[k], !.rule = active.rules[comm[k]],
                         !.generation = active.generation, !.time = Now]]
            /\ UNCHANGED <<events, lost>>
       ELSE /\ Submit("exec", k, Foreign, processes[k], processes[k])
            /\ Finish(k)
            /\ UNCHANGED clock
    /\ UNCHANGED <<life, comm, parent, attached, processes, active, commRules, moves>>

\* The rule that the lookup under the generation read first can have returned:
\* none if that generation's rules were deleted between the two.
RuleFound(k) ==
    {bpf[k].rule} \cup (IF bpf[k].generation \in commRules THEN {} ELSE {NoMatch})

\* The authoritative miss.  Within one generation it keeps the comparison
\* fields, so that its newer timestamp clears the old mark.
ExecMiss(seen, generation, now) ==
    IF seen.generation = generation
    THEN NewNoMarkProcessValue(seen, generation, now)
    ELSE [ZeroValue EXCEPT !.generation = generation, !.timestamp = now]

\* `policy' points into the map: the compiled program reads its mode and its
\* generation again after the rule lookup.
ExecCommit(k) ==
    /\ bpf[k].stage = "exec"
    /\ \E t \in Stamp(k), rule \in RuleFound(k) :
         LET seen == bpf[k].seen
             decided == rule # NoMatch \/ (active.mode = "authoritative" /\ seen # Absent)
             candidate == IF rule # NoMatch
                          THEN NewProcessValue(rule, active.generation, t)
                          ELSE ExecMiss(seen, active.generation, t)
             put == /\ decided
                    /\ seen = Absent \/ NextProcessValueWins(seen, candidate)
                    /\ CanPut(k)
             value == IF put THEN candidate ELSE seen
         IN  /\ decided \/ t = bpf[k].time
             /\ Advance(t)
             /\ processes' = IF put THEN [processes EXCEPT ![k] = candidate] ELSE processes
             /\ Submit("exec", k, Foreign, value, value)
    /\ Finish(k)
    /\ UNCHANGED <<life, comm, parent, attached, active, commRules, moves>>

-----------------------------------------------------------------------------
(* sched_process_exit *)

ExitLookup(k) ==
    /\ Move
    /\ life[k] = "running" /\ ~Busy(k)
    /\ "exit" \in attached
    /\ Advance(Now)
    /\ bpf' = [bpf EXCEPT ![k] = [Idle EXCEPT !.stage = "exit",
                                    !.seen = processes[k], !.time = Now]]
    /\ UNCHANGED <<life, comm, parent, attached, processes, active, commRules,
                   events, lost>>

\* The process is a zombie now and init adopts its children, unless only the
\* leader has left and `others' keep the process alive.
Die(k, others) ==
    /\ life' = [life EXCEPT ![k] = IF others THEN "leaderless" ELSE "zombie"]
    /\ parent' = IF others THEN parent
                 ELSE [j \in Key |-> IF parent[j] = k THEN Foreign ELSE parent[j]]

ExitCommit(k, others) ==
    /\ bpf[k].stage = "exit"
    /\ others => LeaderExits
    /\ IF bpf[k].seen = Absent
       THEN /\ Submit("exit", k, Foreign, Absent, Absent)
            /\ UNCHANGED <<processes, clock>>
       ELSE \E t \in Stamp(k) :
              LET tomb == [bpf[k].seen EXCEPT !.tombstone = TRUE, !.timestamp = t]
              IN  /\ Advance(t)
                  /\ processes' = IF CanPut(k) THEN [processes EXCEPT ![k] = tomb]
                                  ELSE processes
                  /\ Submit("exit", k, Foreign, bpf[k].seen, tomb)
    /\ Die(k, others)
    /\ Finish(k)
    /\ UNCHANGED <<comm, attached, active, commRules, moves>>

\* The last thread of a process without a leader leaves: pid # tgid, no program.
LastThreadExit(k) ==
    /\ life[k] = "leaderless" /\ ~Busy(k)
    /\ Die(k, FALSE)
    /\ UNCHANGED <<comm, attached, processes, active, commRules, bpf, events, clock, lost, moves>>

\* The parent waits for the zombie and /proc forgets it.
Reap(k) ==
    /\ life[k] = "zombie"
    /\ life' = [life EXCEPT ![k] = "gone"]
    /\ UNCHANGED <<comm, parent, attached, processes, active, commRules, bpf,
                   events, clock, lost, moves>>

-----------------------------------------------------------------------------
(* Transitions that no program observes because none is attached yet. *)

Unobserved(k) ==
    \/ /\ bpf[k].stage = "clone" /\ "fork" \notin attached
       /\ Finish(k)
       /\ UNCHANGED <<life, parent, moves>>
    \/ /\ bpf[k].stage = "execve" /\ "exec" \notin attached
       /\ Finish(k)
       /\ UNCHANGED <<life, parent, moves>>
    \/ /\ life[k] = "running" /\ ~Busy(k) /\ "exit" \notin attached
       /\ Move
       /\ Die(k, FALSE)
       /\ UNCHANGED bpf

UnobservedStep(k) ==
    /\ Unobserved(k)
    /\ UNCHANGED <<comm, attached, processes, active, commRules, events, clock, lost>>

Tick ==
    /\ Move
    /\ Advance(Now)
    /\ UNCHANGED <<life, comm, parent, attached, processes, active, commRules, bpf,
                   events, lost>>

KernelNext ==
    \/ \E c \in Key, p, pk \in Key \cup {Foreign} : Clone(p, c, pk)
    \/ \E k \in Key : \/ ForkLookup(k) \/ ForkCommit(k)
                      \/ \E c \in Comm : Execve(k, c)
                      \/ ExecLookup(k) \/ ExecCommit(k)
                      \/ ExitLookup(k)
                      \/ \E others \in BOOLEAN : ExitCommit(k, others)
                      \/ LastThreadExit(k) \/ Reap(k) \/ UnobservedStep(k)
=============================================================================
