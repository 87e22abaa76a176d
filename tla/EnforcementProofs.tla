------------------------- MODULE EnforcementProofs -------------------------
(***************************************************************************)
(* The policy is enforced: a running process that the check matches has    *)
(* that mark (MatchEnforced), one that it does not match has no explicit   *)
(* mark (MissEnforced), and the consumers of ProcessUpdate know it         *)
(* (ConsumersInSync), for any number of processes, policies and events.    *)
(***************************************************************************)
EXTENDS PMarkProofs

-----------------------------------------------------------------------------
(* What the three properties assume *)

(* All policies decide with one priority, as main does with mark_priority   *)
(* when it is not changed at run time.  It is not negative: an              *)
(* authoritative miss has priority zero.                                    *)
OnePriority(P) ==
    /\ P \in 0..127
    /\ \A p \in Policies \cup {InitPolicy}, c \in Comm :
          p.check[c] # NoMatch => p.check[c].priority = P

-----------------------------------------------------------------------------
(* The inductive invariant *)

Ended(k) == life[k] \in {"zombie", "gone"}
Handling(k) == pc \in {"fork", "exec"} /\ job.key = k

(* The events about k that the daemon has not read. *)
About(k) == {events[i] : i \in {j \in 1..Len(events) : events[j].key = k}}
Queued(type, k) == \E e \in About(k) : e.type = type

(* A process that has not ended has no tombstone anywhere, none is on its   *)
(* way and no sweep is about to make one.                                   *)
Living(k) ==
    /\ ~Tombstone(mirror[k]) /\ ~Tombstone(processes[k])
    /\ bpf[k].stage \in {"exec", "exit"} => ~Tombstone(bpf[k].seen)
    /\ \A e \in About(k) : e.type # "exit" /\ ~e.value.tombstone
    /\ pc = "sweep" => k \notin trav.todo

AliveInv == \A k \in Key : life[k] # "leaderless" /\ (~Ended(k) => Living(k))

(* No value is ahead of generation g; and, under one priority, none         *)
(* outranks a decision and no mark has a lower rank.                        *)
Sane(v, P, g) ==
    v # Absent =>
        /\ v.generation <= g
        /\ OnePriority(P) => v.priority <= P /\ (v.hasMark => v.priority = P)

SaneMap(m, P, g) == \A k \in Key : Sane(m[k], P, g)
SaneTable(t, P) == \A c \in Comm : OnePriority(P) /\ t[c] # NoMatch => t[c].priority = P

SaneFlight(b, P, g) ==
    \A k \in Key :
        /\ Sane(b[k].seen, P, g)
        /\ OnePriority(P) /\ b[k].rule # NoMatch => b[k].rule.priority = P
        /\ b[k].stage = "fork" => CanInherit(b[k].seen)

SaneEvents(s, P, g) == \A i \in 1..Len(s) : Sane(s[i].value, P, g)

(* The values that the kernel and the daemon hold. *)
KernelSane(P) ==
    /\ active.generation <= generation /\ SaneTable(active.rules, P)
    /\ SaneMap(processes, P, generation) /\ SaneFlight(bpf, P, generation)
    /\ SaneEvents(events, P, generation)

DaemonSane(P) ==
    /\ SaneTable(policy.check, P)
    /\ SaneMap(mirror, P, generation) /\ SaneMap(trav.value, P, generation)
    /\ Sane(job.value, P, generation)

ValueInv(P) == KernelSane(P) /\ DaemonSane(P)

(* The order in which Run starts things, and who holds the mutex when. *)
OrderInv ==
    /\ boot \in {"attachExit", "attachExec"} => "fork" \in attached
    /\ boot = "attachExec" => "exit" \in attached
    /\ boot \in {"second", "up", "steady"} => attached = Program
    /\ pc \in {"fork", "exec"} => Up
    /\ pc = "sweep" => owner = "events"
    /\ pc = "free" => owner = "none"
    /\ owner = "run" => boot \in {"first", "second"}

\* The walk under way, or the last one, came after the programs were attached.
Deciding == Up \/ (boot = "second" /\ owner = "run")

\* A later exec of k is still to be handled.
Later(k) == bpf[k].stage \in {"execve", "exec"} \/ k \in lost \/ Queued("exec", k)

(* The daemon decides with the command name that the process has, or will   *)
(* decide again.                                                            *)
CommInv(k) ==
    life[k] = "running" =>
        /\ Handling(k) => job.comm = comm[k] \/ Later(k)
        /\ pc = "walk" /\ Deciding /\ k \in trav.todo => trav.comm[k] = comm[k] \/ Later(k)

\* k's turn is still to come in a traversal.
Waiting(k) ==
    \/ ~Deciding \/ pc \in {"refresh", "repair"}
    \/ pc = "walk" /\ k \in trav.todo

Undecided(k) ==
    \/ Later(k) \/ Handling(k) \/ Waiting(k)
    \/ bpf[k].stage \in {"clone", "fork"} \/ Queued("fork", k)

Decided(k) ==
    LET decision == policy.check[comm[k]]
    IN  decision # NoMatch =>
          /\ Explicit(mirror[k])
          /\ mirror[k].mark = decision.mark
          /\ mirror[k].generation = generation

MatchInv(k) == life[k] = "running" /\ ~Undecided(k) => Decided(k)

-----------------------------------------------------------------------------
(* Values *)

(* A value of the current generation that is not outranked wins. *)
LEMMA NewerWins ==
  ASSUME NEW e \in Entry, NEW v \in ProcessValue,
         ~Tombstone(e), v.tombstone = FALSE,
         e # Absent => /\ e.generation <= v.generation /\ e.timestamp < v.timestamp
                       /\ e.generation = v.generation =>
                            \/ e.priority < v.priority
                            \/ e.priority = v.priority /\ (v.inheritance \/ ~e.inheritance)
  PROVE  MergeEntry(e, v) = v /\ v # e
<1>1. CASE e = Absent
  BY <1>1, AbsentAssumption DEF MergeEntry
<1>2. CASE e # Absent
  <2>1. e \in ProcessValue /\ e.tombstone = FALSE
    BY <1>2, ProcessValueFields DEF Entry, Tombstone
  <2>2. ~OldPreferred(e, v)
    <3>1. /\ e.generation \in Int /\ v.generation \in Int /\ e.priority \in Int
          /\ v.priority \in Int /\ e.timestamp \in Int /\ v.timestamp \in Int
          /\ e.inheritance \in BOOLEAN /\ v.inheritance \in BOOLEAN
      BY <2>1, ProcessValueFields
    <3>2. CASE v.inheritance = TRUE
      BY <1>2, <2>1, <3>1, <3>2 DEF OldPreferred
    <3>3. CASE v.inheritance = FALSE
      BY <1>2, <2>1, <3>1, <3>3 DEF OldPreferred
    <3> QED BY <3>1, <3>2, <3>3
  <2> QED BY <1>2, <2>1, <2>2, ProcessValueFields DEF MergeEntry, PreferProcessValue
<1> QED BY <1>1, <1>2

(* Merging the same value twice is merging it once. *)
LEMMA MergeTwice ==
  ASSUME NEW e \in Entry, NEW v \in ProcessValue
  PROVE  /\ MergeEntry(MergeEntry(e, v), v) = MergeEntry(e, v)
         /\ MergeEntry(v, v) = v
<1>1. MergeEntry(v, v) = v
  BY DEF MergeEntry, PreferProcessValue
<1>2. CASE MergeEntry(e, v) = v
  BY <1>1, <1>2
<1>3. CASE MergeEntry(e, v) # v
  <2>1. MergeEntry(e, v) = e
    BY <1>3, MergeEntryFacts
  <2> QED BY <1>1, <2>1
<1> QED BY <1>1, <1>2, <1>3

(* The zero struct is sane. *)
LEMMA SaneZero ==
  ASSUME NEW P, NEW g \in Nat PROVE Sane(ZeroValue, P, g) /\ Sane(Absent, P, g)
BY DEF Sane, ZeroValue, OnePriority

(* What a value made from sane ones is. *)
LEMMA SaneConstructors ==
  ASSUME NEW P, NEW g \in Nat, NEW h \in Nat, h <= g, NEW t \in Nat
  PROVE  /\ Sane(Absent, P, g) /\ Sane(ZeroValue, P, g)
         /\ \A d \in Decision : (OnePriority(P) => d.priority = P) =>
                Sane(NewProcessValue(d, h, t), P, g)
         /\ \A v \in ProcessValue : Sane(v, P, g) =>
                /\ Sane(NewNoMarkProcessValue(v, h, t), P, g)
                /\ v.hasMark => Sane(InheritedValue(v, h, t), P, g)
                /\ Sane(TombstoneOf(v, t), P, g)
                /\ Sane([v EXCEPT !.tombstone = TRUE, !.timestamp = t], P, g)
                /\ Sane(ExecMiss(v, h, t), P, g)
<1>1. Sane(Absent, P, g) /\ Sane(ZeroValue, P, g)
  BY SaneZero
<1>2. ASSUME NEW d \in Decision, OnePriority(P) => d.priority = P
      PROVE  Sane(NewProcessValue(d, h, t), P, g)
  <2>1. d.priority \in Int /\ (OnePriority(P) => P \in Int)
    BY DEF Decision, Int8, OnePriority
  <2>2. /\ NewProcessValue(d, h, t).generation = h
        /\ NewProcessValue(d, h, t).priority = d.priority
    BY DEF NewProcessValue
  <2> QED BY <1>2, <2>1, <2>2 DEF Sane
<1>3. ASSUME NEW v \in ProcessValue, Sane(v, P, g)
      PROVE  /\ Sane(NewNoMarkProcessValue(v, h, t), P, g)
             /\ v.hasMark => Sane(InheritedValue(v, h, t), P, g)
             /\ Sane(TombstoneOf(v, t), P, g)
             /\ Sane([v EXCEPT !.tombstone = TRUE, !.timestamp = t], P, g)
             /\ Sane(ExecMiss(v, h, t), P, g)
  <2>1. /\ v.generation <= g
        /\ OnePriority(P) => v.priority <= P /\ (v.hasMark => v.priority = P)
    BY <1>3, AbsentAssumption DEF Sane
  <2>2. Sane(NewNoMarkProcessValue(v, h, t), P, g)
    <3>1. /\ NewNoMarkProcessValue(v, h, t).generation = h
          /\ NewNoMarkProcessValue(v, h, t).priority = v.priority
          /\ NewNoMarkProcessValue(v, h, t).hasMark = FALSE
      BY DEF NewNoMarkProcessValue
    <3> QED BY <2>1, <3>1 DEF Sane
  <2>3. ASSUME v.hasMark PROVE Sane(InheritedValue(v, h, t), P, g)
    <3>1. /\ InheritedValue(v, h, t).generation = h
          /\ InheritedValue(v, h, t).priority = v.priority
      BY DEF InheritedValue, ProcessValue
    <3> QED BY <2>1, <2>3, <3>1 DEF Sane
  <2>4. ASSUME NEW s \in Nat
        PROVE  Sane([v EXCEPT !.tombstone = TRUE, !.timestamp = s], P, g)
    <3>1. PICK w : w = [v EXCEPT !.tombstone = TRUE, !.timestamp = s]
      OBVIOUS
    <3>2. w.generation = v.generation /\ w.priority = v.priority /\ w.hasMark = v.hasMark
      BY <3>1 DEF ProcessValue
    <3> QED BY <2>1, <3>1, <3>2 DEF Sane
  <2>5. Sane(TombstoneOf(v, t), P, g)
    <3>1. v.timestamp \in Nat
      BY DEF ProcessValue
    <3> QED BY <2>4, <3>1 DEF TombstoneOf
  <2>6. Sane(ExecMiss(v, h, t), P, g)
    <3>1. Sane([ZeroValue EXCEPT !.generation = h, !.timestamp = t], P, g)
      BY DEF Sane, ZeroValue, OnePriority
    <3> QED BY <2>2, <3>1 DEF ExecMiss
  <2> QED BY <2>2, <2>3, <2>4, <2>5, <2>6
<1> QED BY <1>1, <1>2, <1>3

(* A value stays sane when the generation grows. *)
LEMMA SaneLater ==
  ASSUME NEW P, NEW g \in Nat, NEW h \in Nat, g <= h, NEW e \in Entry, Sane(e, P, g)
  PROVE  Sane(e, P, h)
<1>1. CASE e = Absent
  BY <1>1 DEF Sane
<1>2. CASE e # Absent
  <2>1. e.generation \in Int
    BY <1>2, ProcessValueFields DEF Entry
  <2> QED BY <1>2, <2>1 DEF Sane
<1> QED BY <1>1, <1>2

(* A program reports a value that is sane. *)
LEMMA SubmitSane ==
  ASSUME NEW P, events \in Seq(Event), SaneEvents(events, P, generation), generation \in Nat,
         NEW type \in Program, NEW c \in Key, NEW pk, NEW found, NEW e \in Entry,
         Submit(type, c, pk, found, e), Sane(e, P, generation)
  PROVE  SaneEvents(events', P, generation)
<1>1. Sane(ValueOf(e), P, generation)
  BY SaneZero DEF ValueOf
<1>2. CASE events' = events
  BY <1>2
<1>3. CASE /\ Len(events) \in Nat /\ Len(events') = Len(events) + 1
           /\ \A i \in 1..Len(events) : events'[i] = events[i]
           /\ events'[Len(events) + 1].value = ValueOf(e)
  BY <1>1, <1>3 DEF SaneEvents
<1>4. \/ events' = events
      \/ /\ Len(events) \in Nat /\ Len(events') = Len(events) + 1
         /\ \A i \in 1..Len(events) : events'[i] = events[i]
         /\ events'[Len(events) + 1] =
              [type |-> type, key |-> c, parentKey |-> pk, hasMark |-> CanInherit(found),
               value |-> ValueOf(e), comm |-> comm[c]]
  BY SubmitFacts
<1> QED BY <1>2, <1>3, <1>4

(* A Put and an upsert of a sane value. *)
LEMMA UpsertSane ==
  ASSUME NEW P, NEW g, MapsOK, NEW k \in Key, NEW v,
         SaneMap(mirror, P, g), SaneMap(processes, P, g), Sane(v, P, g)
  PROVE  /\ SyncKernel(k, v) => SaneMap(processes', P, g)
         /\ \A log : v \in ProcessValue /\ Upsert(k, v, log) =>
                        SaneMap(mirror', P, g) /\ SaneMap(processes', P, g)
         /\ v \in Entry /\ UpsertNow(k, v) => SaneMap(mirror', P, g) /\ SaneMap(processes', P, g)
<1>1. ASSUME NEW w, Sane(w, P, g), SyncKernel(k, w) PROVE SaneMap(processes', P, g)
  BY <1>1, SyncKernelWrites DEF SaneMap
<1>2. ASSUME NEW log, v \in ProcessValue, Upsert(k, v, log)
      PROVE  SaneMap(mirror', P, g) /\ SaneMap(processes', P, g)
  <2>1. PICK w : w = MergeEntry(mirror[k], v)
    OBVIOUS
  <2>2. Sane(w, P, g)
    BY <1>2, <2>1, MergeEntryFacts DEF SaneMap, MapsOK
  <2>3. CASE UNCHANGED <<mirror, processes>>
    BY <2>3
  <2>4. CASE mirror' = [mirror EXCEPT ![k] = w] /\ SyncKernel(k, w)
    BY <1>1, <2>2, <2>4 DEF SaneMap, MapsOK
  <2> QED BY <1>2, <2>1, <2>3, <2>4 DEF Upsert
<1>3. ASSUME v \in Entry, UpsertNow(k, v)
      PROVE  SaneMap(mirror', P, g) /\ SaneMap(processes', P, g)
  <2>1. CASE v = Absent
    BY <1>3, <2>1 DEF UpsertNow, NoUpsert
  <2>2. CASE v # Absent
    BY <1>2, <1>3, <2>2 DEF UpsertNow, Entry
  <2> QED BY <2>1, <2>2
<1> QED BY <1>1, <1>2, <1>3

(* The steps of the kernel. *)
LEMMA KernelValues ==
  ASSUME NEW P, IInv, ValueInv(P), KernelNext \/ Tick, UNCHANGED uvars
  PROVE  ValueInv(P)'
<1> TypeOK /\ KernelTypeOK /\ HandsOK /\ KernelSane(P) /\ DaemonSane(P)
  BY DEF IInv, TypeOK, ValueInv
<1> MapsOK /\ clock \in Nat /\ Now \in Nat /\ generation \in Nat /\ events \in Seq(Event)
    /\ bpf \in [Key -> InFlight] /\ active.generation \in Nat /\ active.generation <= generation
  BY TypeFacts DEF KernelTypeOK, ActivePolicy, KernelSane
<1> USE KernelAssumption, IdleType
<1>1. UNCHANGED generation /\ DaemonSane(P)'
  BY DEF uvars, DaemonSane
<1>2. ASSUME UNCHANGED active,
             SaneMap(processes', P, generation), SaneFlight(bpf', P, generation),
             SaneEvents(events', P, generation)
      PROVE  ValueInv(P)'
  BY <1>1, <1>2 DEF ValueInv, KernelSane
<1>3. /\ SaneMap(processes, P, generation) /\ SaneFlight(bpf, P, generation)
      /\ SaneEvents(events, P, generation) /\ SaneTable(active.rules, P)
  BY DEF KernelSane
<1>4. ASSUME NEW k \in Key, NEW v, bpf' = [bpf EXCEPT ![k] = v], Sane(v.seen, P, generation),
             OnePriority(P) /\ v.rule # NoMatch => v.rule.priority = P,
             v.stage = "fork" => CanInherit(v.seen)
      PROVE  SaneFlight(bpf', P, generation)
  BY <1>3, <1>4 DEF SaneFlight
<1>5. Sane(Absent, P, generation)
  BY DEF Sane
<1>6. ASSUME NEW k \in Key, Finish(k) PROVE SaneFlight(bpf', P, generation)
  <2>1. Idle.seen = Absent /\ Idle.rule = NoMatch /\ Idle.stage = "idle"
    BY DEF Idle
  <2> QED BY <1>4, <1>5, <1>6, <2>1 DEF Finish
<1>7. ASSUME NEW k \in Key \cup {Foreign} PROVE Sane(Lookup(processes, k), P, generation)
  BY <1>3, <1>5 DEF SaneMap, Lookup
<1>8. ASSUME NEW c \in Key, NEW p, NEW pk, Clone(p, c, pk) PROVE ValueInv(P)'
  <2>1. PICK v : v = [Idle EXCEPT !.stage = "clone", !.forker = pk]
    OBVIOUS
  <2>2. v.seen = Absent /\ v.rule = NoMatch /\ v.stage = "clone"
    BY <2>1 DEF Idle
  <2> QED BY <1>2, <1>3, <1>4, <1>5, <1>8, <2>1, <2>2 DEF Clone
<1>9. ASSUME NEW k \in Key, NEW c, Execve(k, c) PROVE ValueInv(P)'
  <2>1. PICK v : v = [Idle EXCEPT !.stage = "execve"]
    OBVIOUS
  <2>2. v.seen = Absent /\ v.rule = NoMatch /\ v.stage = "execve"
    BY <2>1 DEF Idle
  <2> QED BY <1>2, <1>3, <1>4, <1>5, <1>9, <2>1, <2>2 DEF Execve
<1>10. ASSUME NEW c \in Key, ForkLookup(c) PROVE ValueInv(P)'
  <2>1. PICK pk, pv : pk = bpf[c].forker /\ pv = Lookup(processes, pk)
    OBVIOUS
  <2>2. pk \in Key \cup {Foreign} /\ processes[c] \in Entry
    BY <2>1, InFlightFields
  <2>3. CASE processes[c] = Absent /\ CanInherit(pv)
    <3>1. PICK v : v = [Idle EXCEPT !.stage = "fork", !.forker = pk, !.seen = pv, !.time = Now]
      OBVIOUS
    <3>2. v.seen = pv /\ v.rule = NoMatch
      BY <3>1 DEF Idle
    <3>3. bpf' = [bpf EXCEPT ![c] = v] /\ UNCHANGED <<events, processes, active>>
      BY <1>10, <2>1, <2>3, <3>1 DEF ForkLookup
    <3> QED BY <1>2, <1>3, <1>4, <1>7, <2>1, <2>2, <2>3, <3>2, <3>3
  <2>4. CASE ~(processes[c] = Absent /\ CanInherit(pv))
    <3>1. Submit("fork", c, pk, processes[c], processes[c]) /\ Finish(c)
          /\ UNCHANGED <<processes, active>>
      BY <1>10, <2>1, <2>4 DEF ForkLookup
    <3>2. Sane(processes[c], P, generation) /\ "fork" \in Program
      BY <1>3 DEF SaneMap, Program
    <3>3. SaneEvents(events', P, generation)
      BY <1>3, <2>2, <3>1, <3>2, SubmitSane
    <3> QED BY <1>2, <1>3, <1>6, <3>1, <3>3
  <2> QED BY <2>3, <2>4
<1>11. ASSUME NEW c \in Key, ForkCommit(c) PROVE ValueInv(P)'
  <2>1. PICK t \in Stamp(c) :
         LET copy == ForkCopy(bpf[c].seen, t)
             now == processes[c]
             put == now = Absent /\ CanPut(c)
         IN  /\ processes' = IF put THEN [processes EXCEPT ![c] = copy] ELSE processes
             /\ Submit("fork", c, bpf[c].forker,
                       IF put THEN copy ELSE now,
                       IF now = Absent THEN copy ELSE now)
    BY <1>11 DEF ForkCommit
  <2> DEFINE put == processes[c] = Absent /\ CanPut(c)
  <2>2. PICK copy, e, found :
          /\ copy = ForkCopy(bpf[c].seen, t)
          /\ e = (IF processes[c] = Absent THEN copy ELSE processes[c])
          /\ found = (IF put THEN copy ELSE processes[c])
    OBVIOUS
  <2>3. /\ Sane(bpf[c].seen, P, generation) /\ bpf[c].seen.hasMark
        /\ bpf[c].seen \in ProcessValue /\ t \in Nat
    BY <1>3, <1>11, InFlightFields DEF SaneFlight, ForkCommit, HandsOK, CanInherit
  <2>4. bpf[c].seen.generation \in Nat /\ bpf[c].seen.generation <= generation
    BY <2>3, AbsentAssumption DEF Sane, ProcessValue
  <2>5. Sane(copy, P, generation) /\ copy \in ProcessValue
    <3>1. copy = InheritedValue(bpf[c].seen, bpf[c].seen.generation, t)
      BY <2>2 DEF ForkCopy
    <3>2. copy \in ProcessValue
      BY <2>3, <2>4, <3>1, ConstructorTypes
    <3>3. Sane(copy, P, generation)
      BY <2>3, <2>4, <3>1, SaneConstructors
    <3> QED BY <3>2, <3>3
  <2>6. e \in Entry /\ Sane(e, P, generation) /\ "fork" \in Program
    <3>1. processes[c] \in Entry /\ Sane(processes[c], P, generation)
      BY <1>3 DEF SaneMap, MapsOK
    <3>2. e = copy \/ e = processes[c]
      BY <2>2
    <3>3. copy \in Entry /\ "fork" \in Program
      BY <2>5 DEF Entry, Program
    <3> QED BY <2>5, <3>1, <3>2, <3>3
  <2>7. Submit("fork", c, bpf[c].forker, found, e)
    BY <2>1, <2>2
  <2>8. SaneEvents(events', P, generation)
    BY <1>3, <2>6, <2>7, SubmitSane
  <2>9. SaneMap(processes', P, generation)
    BY <1>3, <2>1, <2>2, <2>5 DEF SaneMap, MapsOK
  <2>10. Finish(c) /\ UNCHANGED active
    BY <1>11 DEF ForkCommit
  <2> QED BY <1>2, <1>6, <2>8, <2>9, <2>10
<1>12. ASSUME NEW k \in Key, ExecLookup(k) PROVE ValueInv(P)'
  <2>1. Sane(processes[k], P, generation) /\ "exec" \in Program /\ processes[k] \in Entry
    BY <1>3 DEF SaneMap, Program, MapsOK
  <2>2. CASE active.generation # 0 /\ active.mode # "userspace-only"
    <3>1. PICK v : v = [Idle EXCEPT !.stage = "exec", !.seen = processes[k],
                          !.rule = active.rules[comm[k]], !.generation = active.generation,
                          !.time = Now]
      OBVIOUS
    <3>2. v.seen = processes[k] /\ v.rule = active.rules[comm[k]] /\ v.stage = "exec"
      BY <3>1 DEF Idle
    <3>3. OnePriority(P) /\ v.rule # NoMatch => v.rule.priority = P
      BY <1>3, <3>2 DEF SaneTable, KernelTypeOK
    <3>4. bpf' = [bpf EXCEPT ![k] = v] /\ UNCHANGED <<events, processes, active>>
      BY <1>12, <2>2, <3>1 DEF ExecLookup
    <3> QED BY <1>2, <1>3, <1>4, <2>1, <3>2, <3>3, <3>4
  <2>3. CASE ~(active.generation # 0 /\ active.mode # "userspace-only")
    <3>1. /\ Submit("exec", k, Foreign, processes[k], processes[k]) /\ Finish(k)
          /\ UNCHANGED <<processes, active>>
      BY <1>12, <2>3 DEF ExecLookup
    <3>2. SaneEvents(events', P, generation)
      BY <1>3, <2>1, <3>1, SubmitSane
    <3> QED BY <1>2, <1>3, <1>6, <3>1, <3>2
  <2> QED BY <2>2, <2>3
<1>13. ASSUME NEW k \in Key, ExecCommit(k) PROVE ValueInv(P)'
  <2> DEFINE seen == bpf[k].seen
             decided(rule) == rule # NoMatch \/ (active.mode = "authoritative" /\ seen # Absent)
             candidate(t, rule) == IF rule # NoMatch
                                   THEN NewProcessValue(rule, active.generation, t)
                                   ELSE ExecMiss(seen, active.generation, t)
             put(t, rule) == /\ decided(rule)
                             /\ seen = Absent \/ NextProcessValueWins(seen, candidate(t, rule))
                             /\ CanPut(k)
             value(t, rule) == IF put(t, rule) THEN candidate(t, rule) ELSE seen
  <2>1. PICK t \in Stamp(k), rule \in RuleFound(k) :
          /\ processes' = IF put(t, rule) THEN [processes EXCEPT ![k] = candidate(t, rule)]
                          ELSE processes
          /\ Submit("exec", k, Foreign, value(t, rule), value(t, rule))
    BY <1>13 DEF ExecCommit
  <2>2. /\ t \in Nat /\ seen \in Entry /\ rule \in Decision \cup {NoMatch}
        /\ Sane(seen, P, generation) /\ "exec" \in Program
        /\ OnePriority(P) /\ rule # NoMatch => rule.priority = P
    BY <1>3, InFlightFields DEF RuleFound, SaneFlight, Program
  <2>3. ASSUME put(t, rule)
        PROVE  candidate(t, rule) \in ProcessValue /\ Sane(candidate(t, rule), P, generation)
    <3>1. CASE rule # NoMatch
      BY <2>2, <3>1, ExplicitType, SaneConstructors DEF Decision
    <3>2. CASE rule = NoMatch
      <4>1. seen \in ProcessValue
        BY <2>2, <2>3, <3>2 DEF Entry
      <4>2. ExecMiss(seen, active.generation, t) \in ProcessValue
        BY <2>2, <4>1, ConstructorTypes DEF ExecMiss
      <4>3. Sane(ExecMiss(seen, active.generation, t), P, generation)
        BY <2>2, <4>1, SaneConstructors
      <4> QED BY <3>2, <4>2, <4>3
    <3> QED BY <3>1, <3>2
  <2>4. value(t, rule) \in Entry /\ Sane(value(t, rule), P, generation)
    BY <2>2, <2>3 DEF Entry
  <2> HIDE DEF candidate, put, value
  <2>5. SaneEvents(events', P, generation)
    BY <1>3, <2>1, <2>2, <2>4, SubmitSane
  <2>6. SaneMap(processes', P, generation)
    BY <1>3, <2>1, <2>3 DEF SaneMap, MapsOK
  <2>7. Finish(k) /\ UNCHANGED active
    BY <1>13 DEF ExecCommit
  <2> QED BY <1>2, <1>6, <2>5, <2>6, <2>7
<1>14. ASSUME NEW k \in Key, ExitLookup(k) PROVE ValueInv(P)'
  <2>1. PICK v : v = [Idle EXCEPT !.stage = "exit", !.seen = processes[k], !.time = Now]
    OBVIOUS
  <2>2. v.seen = processes[k] /\ v.rule = NoMatch /\ v.stage = "exit"
    BY <2>1 DEF Idle
  <2>3. Sane(processes[k], P, generation)
    BY <1>3 DEF SaneMap
  <2>4. bpf' = [bpf EXCEPT ![k] = v] /\ UNCHANGED <<events, processes, active>>
    BY <1>14, <2>1 DEF ExitLookup
  <2> QED BY <1>2, <1>3, <1>4, <2>2, <2>3, <2>4
<1>15. ASSUME NEW k \in Key, NEW others \in BOOLEAN, ExitCommit(k, others) PROVE ValueInv(P)'
  <2>1. Finish(k) /\ UNCHANGED active /\ "exit" \in Program /\ Absent \in Entry
    BY <1>15 DEF ExitCommit, Program, Entry
  <2>2. CASE bpf[k].seen = Absent
    <3>1. Submit("exit", k, Foreign, Absent, Absent) /\ UNCHANGED processes
      BY <1>15, <2>2 DEF ExitCommit
    <3>2. SaneEvents(events', P, generation)
      BY <1>3, <1>5, <2>1, <3>1, SubmitSane
    <3> QED BY <1>2, <1>3, <1>6, <2>1, <3>1, <3>2
  <2>3. CASE bpf[k].seen # Absent
    <3> DEFINE tomb(t) == [bpf[k].seen EXCEPT !.tombstone = TRUE, !.timestamp = t]
    <3>1. PICK t \in Stamp(k) :
            /\ processes' = IF CanPut(k) THEN [processes EXCEPT ![k] = tomb(t)] ELSE processes
            /\ Submit("exit", k, Foreign, bpf[k].seen, tomb(t))
      BY <1>15, <2>3 DEF ExitCommit
    <3>2. t \in Nat /\ bpf[k].seen \in ProcessValue /\ Sane(bpf[k].seen, P, generation)
      BY <1>3, <2>3, InFlightFields DEF Entry, SaneFlight
    <3>3. tomb(t) \in Entry /\ Sane(tomb(t), P, generation)
      BY <3>2, ConstructorTypes, SaneConstructors DEF Entry
    <3> HIDE DEF tomb
    <3>4. SaneEvents(events', P, generation)
      BY <1>3, <2>1, <3>1, <3>3, SubmitSane
    <3>5. SaneMap(processes', P, generation)
      BY <1>3, <3>1, <3>3 DEF SaneMap, MapsOK
    <3> QED BY <1>2, <1>6, <2>1, <3>4, <3>5
  <2> QED BY <2>2, <2>3
<1>16. ASSUME NEW k \in Key, LastThreadExit(k) \/ Reap(k) \/ UnobservedStep(k)
       PROVE  ValueInv(P)'
  <2>1. UNCHANGED <<active, processes, events>> /\ (UNCHANGED bpf \/ Finish(k))
    BY <1>16 DEF LastThreadExit, Reap, UnobservedStep, Unobserved
  <2> QED BY <1>2, <1>3, <1>6, <2>1
<1>17. CASE Tick
  BY <1>2, <1>3, <1>17 DEF Tick
<1> QED BY <1>8, <1>9, <1>10, <1>11, <1>12, <1>13, <1>14, <1>15, <1>16, <1>17 DEF KernelNext

(* The values that the daemon makes are sane. *)
LEMMA CandidatesSane ==
  ASSUME NEW P, TypeOK, ValueInv(P)
  PROVE  /\ \A j \in Job : j.key \in Key /\ Sane(j.value, P, generation) =>
              Sane(ForkValue(j), P, generation) /\ Sane(ExecValue(j), P, generation)
         /\ \A k \in Key, p \in Entry : Sane(p, P, generation) =>
              Sane(WalkValue(k, p), P, generation)
<1> MapsOK /\ generation \in Nat /\ Now \in Nat /\ DaemonSane(P)
  BY TypeFacts DEF ValueInv
<1> generation <= generation
  OBVIOUS
<1>1. ASSUME NEW d \in Decision, OnePriority(P) => d.priority = P
      PROVE  Sane(NewProcessValue(d, generation, Now), P, generation)
  BY <1>1, SaneConstructors
<1>2. ASSUME NEW e \in Entry, Sane(e, P, generation)
      PROVE  /\ CanInherit(e) => Sane(InheritedValue(e, generation, Now), P, generation)
             /\ e # Absent => Sane(NewNoMarkProcessValue(e, generation, Now), P, generation)
  <2>1. e # Absent => e \in ProcessValue
    BY DEF Entry
  <2>2. CanInherit(e) => e # Absent /\ e.hasMark
    BY DEF CanInherit, Live
  <2> QED BY <1>2, <2>1, <2>2, SaneConstructors
<1>3. ASSUME NEW c \in Comm
      PROVE  /\ policy.check[c] \in Decision \cup {NoMatch}
             /\ policy.check[c] # NoMatch =>
                  Sane(NewProcessValue(policy.check[c], generation, Now), P, generation)
  <2>1. policy.check[c] \in Decision \cup {NoMatch}
    BY CheckType
  <2>2. OnePriority(P) /\ policy.check[c] # NoMatch => policy.check[c].priority = P
    BY DEF DaemonSane, SaneTable
  <2> QED BY <1>1, <2>1, <2>2
<1>4. Sane(Absent, P, generation)
  BY SaneZero
<1>5. ASSUME NEW k \in Key \cup {Foreign}
      PROVE  Lookup(mirror, k) \in Entry /\ Sane(Lookup(mirror, k), P, generation)
  BY <1>4, LookupType DEF DaemonSane, SaneMap, Lookup, MapsOK
<1>6. ASSUME NEW j \in Job, j.key \in Key, Sane(j.value, P, generation)
      PROVE  Sane(ForkValue(j), P, generation) /\ Sane(ExecValue(j), P, generation)
  <2>1. j.comm \in Comm /\ j.value \in Entry /\ j.parentKey \in Key \cup {Foreign}
    BY DEF Job
  <2>2. mirror[j.key] \in Entry /\ Sane(mirror[j.key], P, generation)
    BY <1>6 DEF DaemonSane, SaneMap, MapsOK
  <2>3. /\ CanInherit(Lookup(mirror, j.parentKey)) =>
              Sane(InheritedValue(Lookup(mirror, j.parentKey), generation, Now), P, generation)
        /\ j.value # Absent => Sane(NewNoMarkProcessValue(j.value, generation, Now), P, generation)
        /\ mirror[j.key] # Absent =>
              Sane(NewNoMarkProcessValue(mirror[j.key], generation, Now), P, generation)
    BY <1>2, <1>5, <1>6, <2>1, <2>2
  <2> QED BY <1>3, <1>4, <2>1, <2>3 DEF ForkValue, ExecValue, Live
<1>7. ASSUME NEW k \in Key, NEW p \in Entry, Sane(p, P, generation)
      PROVE  Sane(WalkValue(k, p), P, generation)
  <2>1. trav.comm[k] \in Comm
    BY DEF TypeOK, MarkerTypeOK, Traversal
  <2>2. mirror[k] \in Entry /\ Sane(mirror[k], P, generation)
    BY DEF DaemonSane, SaneMap, MapsOK
  <2>3. /\ CanInherit(p) => Sane(InheritedValue(p, generation, Now), P, generation)
        /\ mirror[k] # Absent =>
              Sane(NewNoMarkProcessValue(mirror[k], generation, Now), P, generation)
    BY <1>2, <1>7, <2>2
  <2> QED BY <1>3, <1>4, <2>1, <2>3 DEF WalkValue, Live, CanInheritCurrent
<1> QED BY <1>6, <1>7

(* The steps of the daemon. *)
LEMMA DaemonValues ==
  ASSUME NEW P, IInv, ClockInv, ValueInv(P), DaemonNext, ApiMarks = {}, AbortIteration = FALSE
  PROVE  ValueInv(P)'
<1> TypeOK /\ HandsOK /\ KernelSane(P) /\ DaemonSane(P)
  BY DEF IInv, ValueInv
<1> MapsOK /\ clock \in Nat /\ Now \in Nat /\ generation \in Nat /\ events \in Seq(Event)
    /\ trav \in Traversal /\ job \in Job /\ bpf \in [Key -> InFlight]
  BY TypeFacts DEF TypeOK, MarkerTypeOK, KernelTypeOK
<1> generation <= generation
  OBVIOUS
<1> USE MarkerAssumption, KernelAssumption
<1>1. /\ SaneMap(mirror, P, generation) /\ SaneMap(processes, P, generation)
      /\ SaneMap(trav.value, P, generation) /\ SaneEvents(events, P, generation)
      /\ SaneFlight(bpf, P, generation) /\ Sane(job.value, P, generation)
      /\ SaneTable(policy.check, P) /\ SaneTable(active.rules, P)
      /\ active.generation <= generation
  BY DEF KernelSane, DaemonSane
<1>2. UNCHANGED bpf
  BY DaemonShape
<1>3. Sane(Absent, P, generation)
  BY SaneZero
<1>4. Sane(NoJob.value, P, generation) /\ SaneMap(NoTraversal.value, P, generation)
  BY <1>3 DEF NoJob, NoTraversal, SaneMap
<1>5. SaneEvents(events', P, generation)
  <2>1. events' = events \/ (events # <<>> /\ events' = Tail(events))
    BY DaemonShape DEF RecvFork, RecvExec, RecvExit, Receive
  <2>2. CASE events # <<>> /\ events' = Tail(events)
    <3>1. /\ Len(events) \in Nat \ {0} /\ Len(events') = Len(events) - 1
          /\ \A i \in 1..Len(events') : events'[i] = events[i + 1]
      BY <2>2, HeadTailProperties, EmptySeq
    <3>2. \A i \in 1..Len(events') : i + 1 \in 1..Len(events)
      BY <3>1
    <3> QED BY <1>1, <3>1, <3>2 DEF SaneEvents
  <2> QED BY <1>1, <2>1, <2>2
<1>6. events # <<>> =>
         LET e == Head(events)
         IN  /\ e.key \in Key /\ e.value \in ProcessValue /\ mirror[e.key] \in Entry
             /\ Sane(e.value, P, generation) /\ Sane(mirror[e.key], P, generation)
             /\ \A v : JobOf(e, v).value = v
  <2> SUFFICES ASSUME events # <<>>
               PROVE  LET e == Head(events)
                      IN  /\ e.key \in Key /\ e.value \in ProcessValue /\ mirror[e.key] \in Entry
                          /\ Sane(e.value, P, generation) /\ Sane(mirror[e.key], P, generation)
                          /\ \A v : JobOf(e, v).value = v
    OBVIOUS
  <2>1. 1 \in 1..Len(events) /\ Head(events) = events[1]
    BY EmptySeq
  <2>2. /\ Head(events).key \in Key /\ Head(events).value \in ProcessValue
        /\ mirror[Head(events).key] \in Entry
    BY HeadFacts
  <2>3. \A v : JobOf(Head(events), v).value = v
    BY DEF JobOf
  <2> QED BY <1>1, <2>1, <2>2, <2>3 DEF SaneEvents, SaneMap
<1>7. ASSUME UNCHANGED <<generation, policy, active>>,
             SaneMap(mirror', P, generation), SaneMap(processes', P, generation),
             SaneMap(trav'.value, P, generation), Sane(job'.value, P, generation)
      PROVE  ValueInv(P)'
  BY <1>1, <1>2, <1>5, <1>7 DEF ValueInv, KernelSane, DaemonSane
<1>8. CASE RecvFork
  <2>1. PICK e : e = Head(events)
    OBVIOUS
  <2>2. events # <<>> /\ UNCHANGED <<generation, policy, active, trav>>
    BY <1>8 DEF RecvFork, Receive
  <2>3. /\ e.key \in Key /\ e.value \in ProcessValue /\ mirror[e.key] \in Entry
        /\ Sane(e.value, P, generation) /\ Sane(mirror[e.key], P, generation)
        /\ \A v : JobOf(e, v).value = v
    BY <1>6, <2>1, <2>2
  <2>4. \/ job' = JobOf(e, e.value) /\ Upsert(e.key, e.value, TRUE)
        \/ job' = JobOf(e, mirror[e.key]) /\ SyncKernel(e.key, mirror[e.key])
           /\ UNCHANGED mirror
        \/ job' = JobOf(e, Absent) /\ UNCHANGED <<mirror, processes>>
    BY <1>8, <2>1 DEF RecvFork, NoUpsert
  <2>5. Sane(job'.value, P, generation)
    BY <1>3, <2>3, <2>4
  <2>6. SaneMap(mirror', P, generation) /\ SaneMap(processes', P, generation)
    BY <1>1, <2>3, <2>4, UpsertSane
  <2> QED BY <1>1, <1>7, <2>2, <2>5, <2>6
<1>9. CASE RecvExec
  <2>1. PICK e : e = Head(events)
    OBVIOUS
  <2>2. PICK value : value = IF e.value = ZeroValue THEN mirror[e.key]
                             ELSE MergeEntry(mirror[e.key], e.value)
    OBVIOUS
  <2>3. events # <<>> /\ UNCHANGED <<generation, policy, active, trav>>
    BY <1>9 DEF RecvExec, Receive
  <2>4. /\ e.key \in Key /\ e.value \in ProcessValue /\ mirror[e.key] \in Entry
        /\ Sane(e.value, P, generation) /\ Sane(mirror[e.key], P, generation)
        /\ \A v : JobOf(e, v).value = v
    BY <1>6, <2>1, <2>3
  <2>5. Sane(value, P, generation)
    BY <2>2, <2>4, MergeEntryFacts
  <2>6. /\ mirror' = [mirror EXCEPT ![e.key] = value]
        /\ SyncKernel(e.key, value) \/ UNCHANGED processes
        /\ job' = NoJob \/ job' = JobOf(e, value)
    BY <1>9, <2>1, <2>2 DEF RecvExec
  <2>7. SaneMap(mirror', P, generation)
    BY <1>1, <2>4, <2>5, <2>6 DEF SaneMap, MapsOK
  <2>8. SaneMap(processes', P, generation)
    BY <1>1, <2>4, <2>5, <2>6, UpsertSane
  <2> QED BY <1>1, <1>4, <1>7, <2>3, <2>4, <2>5, <2>6, <2>7, <2>8
<1>10. CASE RecvExit
  <2>1. PICK e : e = Head(events)
    OBVIOUS
  <2>2. PICK value : value = IF mirror[e.key] # Absent THEN mirror[e.key] ELSE e.value
    OBVIOUS
  <2>3. events # <<>> /\ UNCHANGED <<generation, policy, active, trav>> /\ job' = NoJob
    BY <1>10 DEF RecvExit, Receive
  <2>4. /\ e.key \in Key /\ e.value \in ProcessValue /\ mirror[e.key] \in Entry
        /\ Sane(e.value, P, generation) /\ Sane(mirror[e.key], P, generation)
    BY <1>6, <2>1, <2>3
  <2>5. value \in ProcessValue /\ Sane(value, P, generation)
    BY <2>2, <2>4 DEF Entry
  <2>6. TombstoneOf(value, Now) \in ProcessValue /\ Sane(TombstoneOf(value, Now), P, generation)
    BY <2>5, SaneConstructors, ConstructorTypes
  <2>7. UNCHANGED <<mirror, processes>> \/ \E log : Upsert(e.key, TombstoneOf(value, Now), log)
    BY <1>10, <2>1, <2>2 DEF RecvExit, NoUpsert
  <2>8. SaneMap(mirror', P, generation) /\ SaneMap(processes', P, generation)
    BY <1>1, <2>4, <2>6, <2>7, UpsertSane
  <2> QED BY <1>1, <1>4, <1>7, <2>3, <2>8
<1>11. CASE DecideFork \/ DecideExec
  <2>1. job.key \in Key /\ ForkValue(job) \in Entry /\ ExecValue(job) \in Entry
    BY <1>11, CandidateTypes DEF DecideFork, DecideExec, HandsOK
  <2>2. Sane(ForkValue(job), P, generation) /\ Sane(ExecValue(job), P, generation)
    BY <1>1, <2>1, CandidatesSane
  <2>3. /\ UpsertNow(job.key, ForkValue(job)) \/ UpsertNow(job.key, ExecValue(job))
        /\ UNCHANGED <<generation, policy, active, trav>> /\ job' = NoJob
    BY <1>11 DEF DecideFork, DecideExec, EventDone
  <2>4. SaneMap(mirror', P, generation) /\ SaneMap(processes', P, generation)
    BY <1>1, <2>1, <2>2, <2>3, UpsertSane
  <2> QED BY <1>1, <1>4, <1>7, <2>3, <2>4
<1>12. CASE CollectTombstones
  <2>1. /\ mirror' = [k \in Key |-> IF k \in Expired THEN Absent ELSE mirror[k]]
        /\ processes' = [k \in Key |-> IF k \in Expired THEN Absent ELSE processes[k]]
        /\ UNCHANGED <<generation, policy, active, job>>
    BY <1>12 DEF CollectTombstones
  <2>2. trav'.value = NoTraversal.value
    BY <1>12 DEF CollectTombstones, NoTraversal
  <2>3. SaneMap(mirror', P, generation) /\ SaneMap(processes', P, generation)
    BY <1>1, <1>3, <2>1 DEF SaneMap
  <2> QED BY <1>1, <1>4, <1>7, <2>1, <2>2, <2>3
<1>13. CASE \E k \in Key : SweepDead(k)
  <2> PICK k \in Key : SweepDead(k)
    BY <1>13
  <2>1. mirror[k] \in ProcessValue /\ Sane(mirror[k], P, generation)
    BY <1>1 DEF SweepDead, HandsOK, SaneMap
  <2>2. TombstoneOf(mirror[k], Now) \in Entry /\ Sane(TombstoneOf(mirror[k], Now), P, generation)
    BY <2>1, SaneConstructors, ConstructorTypes DEF Entry
  <2>3. /\ UpsertNow(k, TombstoneOf(mirror[k], Now))
        /\ trav' = [trav EXCEPT !.todo = trav.todo \ {k}]
        /\ UNCHANGED <<generation, policy, active, job>>
    BY DEF SweepDead
  <2>4. SaneMap(mirror', P, generation) /\ SaneMap(processes', P, generation)
    BY <1>1, <2>2, <2>3, UpsertSane
  <2>5. trav'.value = trav.value
    BY <2>3 DEF Traversal
  <2> QED BY <1>1, <1>7, <2>3, <2>4, <2>5
<1>14. CASE SweepDone \/ TraversalDone
  <2>1. /\ UNCHANGED <<generation, policy, active, job, mirror, processes>>
        /\ trav' = trav \/ trav' = NoTraversal
    BY <1>14 DEF SweepDone, TraversalDone, Release
  <2> QED BY <1>1, <1>4, <1>7, <2>1
<1>15. CASE Refresh
  <2>1. /\ mirror' = [k \in Key |-> MergeKernelEntry(k)]
        /\ UNCHANGED <<generation, policy, active, job, processes>>
    BY <1>15 DEF Refresh
  <2>2. trav'.value = NoTraversal.value
    BY <1>15 DEF Refresh, NoTraversal
  <2>3. ASSUME NEW k \in Key PROVE Sane(MergeKernelEntry(k), P, generation)
    <3>1. CASE processes[k] = Absent
      BY <1>1, <3>1 DEF MergeKernelEntry, SaneMap
    <3>2. CASE processes[k] # Absent
      <4>1. processes[k] \in ProcessValue /\ mirror[k] \in Entry
        BY <3>2 DEF MapsOK, Entry
      <4> QED BY <1>1, <3>2, <4>1, MergeEntryFacts DEF MergeKernelEntry, SaneMap
    <3> QED BY <3>1, <3>2
  <2>4. SaneMap(mirror', P, generation)
    BY <2>1, <2>3 DEF SaneMap
  <2> QED BY <1>1, <1>4, <1>7, <2>1, <2>2, <2>4
<1>16. CASE RepairAndList
  <2>1. /\ processes' = [k \in Key |-> Repaired(k)]
        /\ trav'.value = [k \in Key |-> Absent]
        /\ UNCHANGED <<generation, policy, active, job, mirror>>
    BY <1>16 DEF RepairAndList
  <2>2. SaneMap(processes', P, generation) /\ SaneMap(trav'.value, P, generation)
    BY <1>1, <1>3, <2>1 DEF SaneMap, Repaired
  <2> QED BY <1>1, <1>7, <2>1, <2>2
<1>17. CASE \E k \in Key : ListMiss(k)
  <2> PICK k \in Key : ListMiss(k)
    BY <1>17
  <2>1. /\ trav' = [trav EXCEPT !.todo = trav.todo \ {k}, !.listed = trav.listed \ {k}]
        /\ UNCHANGED <<generation, policy, active, job, mirror, processes>>
    BY DEF ListMiss, kvars
  <2>2. trav'.value = trav.value
    BY <2>1 DEF Traversal
  <2> QED BY <1>1, <1>7, <2>1, <2>2
<1>18. CASE \E k \in Key : Walk(k) \/ WalkOrphan(k)
  <2> PICK k \in Key : Walk(k) \/ WalkOrphan(k)
    BY <1>18
  <2>1. \E p \in Entry : Sane(p, P, generation) /\ Visit(k, p)
    <3>1. CASE Walk(k)
      <4>1. trav.parent[k] \in Key \cup {Foreign} /\ trav.value \in [Key -> Entry]
        BY DEF Traversal
      <4>2. /\ Lookup(trav.value, trav.parent[k]) \in Entry
            /\ Sane(Lookup(trav.value, trav.parent[k]), P, generation)
        BY <1>1, <1>3, <4>1, LookupType DEF SaneMap, Lookup
      <4> QED BY <3>1, <4>2 DEF Walk
    <3>2. CASE WalkOrphan(k)
      <4>1. trav.listed \subseteq Key
        BY DEF Traversal
      <4>2. PICK p : p = IF trav.parent[k] \in trav.listed THEN mirror[trav.parent[k]]
                         ELSE Absent
        OBVIOUS
      <4>3. p \in Entry /\ Sane(p, P, generation)
        BY <1>1, <1>3, <4>1, <4>2 DEF SaneMap, MapsOK, Entry
      <4> QED BY <3>2, <4>2, <4>3 DEF WalkOrphan
    <3> QED BY <3>1, <3>2
  <2>2. PICK p \in Entry : Sane(p, P, generation) /\ Visit(k, p)
    BY <2>1
  <2>3. PICK v : v = WalkValue(k, p)
    OBVIOUS
  <2>4. v \in Entry /\ Sane(v, P, generation)
    BY <2>2, <2>3, CandidateTypes, CandidatesSane
  <2>5. /\ UpsertNow(k, v) /\ trav' = [trav EXCEPT !.todo = trav.todo \ {k}, !.value[k] = v]
        /\ UNCHANGED <<generation, policy, active, job>>
    BY <2>2, <2>3 DEF Visit
  <2>6. SaneMap(mirror', P, generation) /\ SaneMap(processes', P, generation)
    BY <1>1, <2>4, <2>5, UpsertSane
  <2>7. trav'.value = [trav.value EXCEPT ![k] = v] /\ trav.value \in [Key -> Entry]
    BY <2>5 DEF Traversal
  <2>8. SaneMap(trav'.value, P, generation)
    BY <1>1, <2>4, <2>7 DEF SaneMap
  <2> QED BY <1>1, <1>7, <2>5, <2>6, <2>8
<1>19. CASE ForeignEvent \/ RunStep
  BY <1>1, <1>7, <1>19 DEF ForeignEvent, RunStep, RunTraverse, RunAttach, Attach, kvars
<1>20. CASE ForceProcessTraversal \/ UpdateHooks
  BY <1>1, <1>7, <1>20 DEF ForceProcessTraversal, UpdateHooks
<1>21. CASE \E p \in Policies : SetPolicy(p)
  <2> PICK p \in Policies : SetPolicy(p)
    BY <1>21
  <2>1. /\ policy' = p /\ generation' = generation + 1
        /\ active' = [generation |-> generation + 1, mode |-> p.mode, rules |-> p.rules]
        /\ UNCHANGED <<mirror, processes, trav, job, events>>
    BY DEF SetPolicy
  <2>2. generation' \in Nat /\ generation <= generation'
    BY <2>1
  <2>3. SaneTable(p.check, P) /\ SaneTable(p.rules, P)
    <3>1. ASSUME OnePriority(P), NEW c \in Comm
          PROVE  /\ p.check[c] # NoMatch => p.check[c].priority = P
                 /\ p.rules[c] # NoMatch => p.rules[c].priority = P
      <4>1. p.check[c] # NoMatch => p.check[c].priority = P
        BY <3>1 DEF OnePriority
      <4>2. p.rules[c] # NoMatch => p.check[c] = p.rules[c]
        BY DEF WellFormed
      <4> QED BY <4>1, <4>2
    <3> QED BY <3>1 DEF SaneTable
  <2>4. ASSUME NEW e \in Entry, Sane(e, P, generation) PROVE Sane(e, P, generation')
    BY <2>2, <2>4, SaneLater
  <2>5. /\ SaneMap(mirror, P, generation') /\ SaneMap(processes, P, generation')
        /\ SaneMap(trav.value, P, generation')
    BY <1>1, <2>4 DEF SaneMap, MapsOK, Traversal
  <2>6. SaneFlight(bpf, P, generation')
    BY <1>1, <2>4 DEF SaneFlight, InFlight
  <2>7. SaneEvents(events, P, generation')
    <3>1. \A i \in 1..Len(events) : events[i].value \in Entry
      <4>1. \A i \in 1..Len(events) : events[i] \in Event
        BY LenProperties
      <4> QED BY <4>1 DEF Event, Entry
    <3> QED BY <1>1, <2>4, <3>1 DEF SaneEvents
  <2>8. Sane(job.value, P, generation')
    BY <1>1, <2>4 DEF Job
  <2>9. active'.generation <= generation' /\ active'.rules = p.rules
    BY <2>1
  <2> QED BY <1>2, <2>1, <2>3, <2>5, <2>6, <2>7, <2>8, <2>9 DEF ValueInv, KernelSane, DaemonSane
<1> QED BY <1>8, <1>9, <1>10, <1>11, <1>12, <1>13, <1>14, <1>15, <1>16, <1>17, <1>18, <1>19,
           <1>20, <1>21
        DEF DaemonNext, EventLoopStep, TraversalStep, RefreshAbort, ApiStep

(* Nothing is there to be insane when the daemon starts, and the policy it  *)
(* starts with is one of the given ones.                                    *)
LEMMA ValueInvInit == ASSUME NEW P, Init PROVE ValueInv(P)
<1> USE MarkerAssumption, KernelAssumption
<1>1. /\ processes = [k \in Key |-> Absent] /\ mirror = [k \in Key |-> Absent]
      /\ bpf = [k \in Key |-> Idle] /\ events = <<>> /\ job = NoJob /\ trav = NoTraversal
      /\ policy.check = InitPolicy.check
      /\ active.generation <= generation
      /\ active.rules = NoRules \/ active.rules = InitPolicy.rules
  BY DEF Init, FreshInit, BootedInit, KernelInit, MarkerInit, NoPolicy
<1>2. /\ Idle.seen = Absent /\ Idle.rule = NoMatch /\ Idle.stage = "idle"
      /\ NoJob.value = Absent /\ NoTraversal.value = [k \in Key |-> Absent] /\ Len(events) = 0
  BY <1>1, EmptySeq DEF Idle, NoJob, NoTraversal
<1>3. Sane(Absent, P, generation)
  BY DEF Sane
<1>4. SaneTable(NoRules, P) /\ SaneTable(InitPolicy.check, P) /\ SaneTable(InitPolicy.rules, P)
  <2>1. SaneTable(NoRules, P)
    BY DEF SaneTable, NoRules
  <2>2. ASSUME OnePriority(P), NEW c \in Comm
        PROVE  /\ InitPolicy.check[c] # NoMatch => InitPolicy.check[c].priority = P
               /\ InitPolicy.rules[c] # NoMatch => InitPolicy.rules[c].priority = P
    <3>1. InitPolicy.check[c] # NoMatch => InitPolicy.check[c].priority = P
      BY <2>2 DEF OnePriority
    <3>2. InitPolicy.rules[c] # NoMatch => InitPolicy.check[c] = InitPolicy.rules[c]
      BY DEF WellFormed
    <3> QED BY <3>1, <3>2
  <2> QED BY <2>1, <2>2 DEF SaneTable
<1>5. SaneMap(processes, P, generation) /\ SaneMap(mirror, P, generation)
      /\ SaneMap(trav.value, P, generation)
  BY <1>1, <1>2, <1>3 DEF SaneMap
<1>6. SaneFlight(bpf, P, generation) /\ SaneEvents(events, P, generation)
  BY <1>1, <1>2, <1>3 DEF SaneFlight, SaneEvents
<1> QED BY <1>1, <1>2, <1>3, <1>4, <1>5, <1>6 DEF ValueInv, KernelSane, DaemonSane

-----------------------------------------------------------------------------
(* What a step does to the ring, as far as process k is concerned *)

(* A fork's event is the first about its process. *)
ForkFirst(k) ==
    \A i \in 1..Len(events) :
        events[i].key = k /\ events[i].type = "fork" =>
            \A j \in 1..(i - 1) : events[j].key # k

\* No event about k comes or goes.
RingSame(k) ==
    /\ About(k)' = About(k) /\ (k \in lost' <=> k \in lost)
    /\ ForkFirst(k) => ForkFirst(k)'

\* A program reports v, or the ring drops the event.
Told(type, k, found, v) ==
    \/ Lossy /\ k \in lost' /\ About(k)' = About(k) /\ (ForkFirst(k) => ForkFirst(k)')
    \/ /\ k \in lost' <=> k \in lost
       /\ \E e : /\ About(k)' = About(k) \cup {e}
                 /\ e.type = type /\ e.hasMark = CanInherit(found) /\ e.value = ValueOf(v)
       /\ ForkFirst(k) /\ (type # "fork" \/ About(k) = {}) => ForkFirst(k)'

\* The daemon takes e, an event about k.
Taken(k, e) ==
    /\ e \in About(k) /\ About(k)' \subseteq About(k) /\ About(k) \subseteq About(k)' \cup {e}
    /\ k \in lost' <=> k \in lost
    /\ ForkFirst(k) => /\ ForkFirst(k)' /\ ~Queued("fork", k)'
                       /\ \A f \in About(k) : f.type = "fork" => f = e

(* The events about k, by their place in the ring. *)
LEMMA AboutMember ==
  ASSUME NEW k
  PROVE  /\ \A e : e \in About(k) <=> \E i \in 1..Len(events) : events[i].key = k /\ e = events[i]
         /\ \A e : e \in About(k)' <=>
              \E i \in 1..Len(events') : events'[i].key = k /\ e = events'[i]
BY DEF About

(* An event of a program, seen from its process and from the others. *)
LEMMA SubmitTells ==
  ASSUME events \in Seq(Event), NEW type \in Program, NEW c \in Key, NEW pk, NEW found, NEW v,
         Submit(type, c, pk, found, v), NEW k \in Key
  PROVE  /\ c # k => RingSame(k)
         /\ c = k => Told(type, k, found, v)
<1>1. CASE events' = events /\ lost' = lost \cup {c} /\ Lossy
  <2>1. About(k)' = About(k) /\ (ForkFirst(k) => ForkFirst(k)')
    BY <1>1 DEF About, ForkFirst
  <2> QED BY <1>1, <2>1 DEF RingSame, Told
<1>2. ASSUME NEW ev, lost' = lost, Len(events) \in Nat, Len(events') = Len(events) + 1,
             \A i \in 1..Len(events) : events'[i] = events[i], events'[Len(events) + 1] = ev,
             ev.type = type, ev.key = c, ev.hasMark = CanInherit(found), ev.value = ValueOf(v)
      PROVE  /\ c # k => RingSame(k)
             /\ c = k => Told(type, k, found, v)
  <2>1. PICK n \in Nat : n = Len(events)
    BY <1>2
  <2>2. \A i \in 1..(n + 1) : i \in 1..n \/ i = n + 1
    BY <2>1
  <2>3. c # k => About(k)' = About(k)
    <3> SUFFICES ASSUME c # k PROVE About(k)' = About(k)
      OBVIOUS
    <3>1. \A e : e \in About(k)' => e \in About(k)
      BY <1>2, <2>1, <2>2, AboutMember
    <3>2. \A i \in 1..n : i \in 1..(n + 1)
      BY <2>1
    <3>3. \A e : e \in About(k) => e \in About(k)'
      BY <1>2, <2>1, <3>2, AboutMember
    <3> QED BY <3>1, <3>3
  <2>4. c = k => About(k)' = About(k) \cup {ev}
    <3> SUFFICES ASSUME c = k PROVE About(k)' = About(k) \cup {ev}
      OBVIOUS
    <3>1. \A e : e \in About(k)' => e \in About(k) \cup {ev}
      BY <1>2, <2>1, <2>2, AboutMember
    <3>2. \A i \in 1..n : i \in 1..(n + 1)
      BY <2>1
    <3>3. \A e : e \in About(k) => e \in About(k)'
      BY <1>2, <2>1, <3>2, AboutMember
    <3>4. ev \in About(k)'
      BY <1>2, <2>1, AboutMember
    <3> QED BY <3>1, <3>3, <3>4
  <2>5. ASSUME ForkFirst(k), c # k \/ type # "fork" \/ About(k) = {} PROVE ForkFirst(k)'
    <3>1. SUFFICES ASSUME NEW i \in 1..(n + 1), events'[i].key = k, events'[i].type = "fork",
                          NEW j \in 1..(i - 1)
                   PROVE  events'[j].key # k
      BY <1>2, <2>1 DEF ForkFirst
    <3>2. j \in 1..n /\ events'[j] = events[j]
      BY <1>2, <2>1, <3>1
    <3>3. CASE i \in 1..n
      <4>1. events[i].key = k /\ events[i].type = "fork"
        BY <1>2, <2>1, <3>1, <3>3
      <4> QED BY <2>1, <2>5, <3>1, <3>2, <3>3, <4>1 DEF ForkFirst
    <3>4. CASE i = n + 1
      <4>1. About(k) = {}
        BY <1>2, <2>1, <2>5, <3>1, <3>4
      <4> QED BY <2>1, <3>2, <4>1, AboutMember
    <3> QED BY <2>2, <3>3, <3>4
  <2> QED BY <1>2, <2>3, <2>4, <2>5 DEF RingSame, Told
<1>3. \/ events' = events /\ lost' = lost \cup {c} /\ Lossy
      \/ /\ lost' = lost /\ Len(events) \in Nat /\ Len(events') = Len(events) + 1
         /\ \A i \in 1..Len(events) : events'[i] = events[i]
         /\ events'[Len(events) + 1] =
              [type |-> type, key |-> c, parentKey |-> pk, hasMark |-> CanInherit(found),
               value |-> ValueOf(v), comm |-> comm[c]]
  <2>1. CASE Len(events) < RingCap
    BY <2>1, SubmitFacts DEF Submit
  <2>2. CASE ~(Len(events) < RingCap)
    BY <2>2 DEF Submit
  <2> QED BY <2>1, <2>2
<1> QED BY <1>1, <1>2, <1>3

(* The daemon reads the event at the head. *)
LEMMA ReceiveTakes ==
  ASSUME events \in Seq(Event), events # <<>>, events' = Tail(events), UNCHANGED lost,
         NEW k \in Key
  PROVE  /\ Head(events).key # k => RingSame(k)
         /\ Head(events).key = k => Taken(k, Head(events))
<1>1. /\ Len(events) \in Nat \ {0} /\ Len(events') = Len(events) - 1
      /\ Head(events) = events[1]
      /\ \A i \in 1..Len(events') : events'[i] = events[i + 1]
  BY HeadTailProperties, LenProperties, EmptySeq
<1>2. PICK n \in Nat : n = Len(events') /\ Len(events) = n + 1
  <2>1. \A m \in Nat \ {0} : m - 1 \in Nat /\ m = (m - 1) + 1
    OBVIOUS
  <2> QED BY <1>1, <2>1
<1>3. /\ \A i \in 1..n : i + 1 \in 1..(n + 1)
      /\ \A i \in 1..(n + 1) : i = 1 \/ (i - 1 \in 1..n /\ events'[i - 1] = events[i])
  BY <1>1, <1>2
<1>4. ForkFirst(k) => ForkFirst(k)'
  <2>1. SUFFICES ASSUME ForkFirst(k), NEW i \in 1..n, events'[i].key = k,
                        events'[i].type = "fork", NEW j \in 1..(i - 1)
                 PROVE  events'[j].key # k
    BY <1>2 DEF ForkFirst
  <2>2. /\ events[i + 1].key = k /\ events[i + 1].type = "fork" /\ i + 1 \in 1..(n + 1)
        /\ j + 1 \in 1..((i + 1) - 1) /\ events'[j] = events[j + 1]
    BY <1>1, <1>2, <2>1
  <2> QED BY <1>2, <2>1, <2>2 DEF ForkFirst
<1>5. About(k)' \subseteq About(k)
  BY <1>1, <1>2, <1>3, AboutMember
<1>6. \A e \in About(k) : e \in About(k)' \/ (e = Head(events) /\ Head(events).key = k)
  <2> SUFFICES ASSUME NEW e \in About(k)
               PROVE  e \in About(k)' \/ (e = Head(events) /\ Head(events).key = k)
    OBVIOUS
  <2>1. PICK i \in 1..(n + 1) : events[i].key = k /\ e = events[i]
    BY <1>2, AboutMember
  <2>2. CASE i = 1
    BY <1>1, <2>1, <2>2
  <2>3. CASE i - 1 \in 1..n /\ events'[i - 1] = events[i]
    <3>1. e = events'[i - 1] /\ events'[i - 1].key = k
      BY <2>1, <2>3
    <3> QED BY <1>2, <2>3, <3>1, AboutMember
  <2> QED BY <1>3, <2>2, <2>3
<1>7. CASE Head(events).key # k
  <2>1. About(k)' = About(k)
    BY <1>5, <1>6, <1>7
  <2> QED BY <1>4, <1>7, <2>1 DEF RingSame
<1>8. CASE Head(events).key = k
  <2>1. 1 \in 1..Len(events)
    BY <1>1
  <2>2. Head(events) \in About(k)
    BY <1>1, <1>8, <2>1, AboutMember
  <2>3. ASSUME ForkFirst(k), NEW f \in About(k), f.type = "fork"
        PROVE  f = Head(events)
    <3>1. PICK i \in 1..Len(events) : events[i].key = k /\ f = events[i]
      BY <2>3, AboutMember
    <3>2. CASE i # 1
      <4>1. 1 \in 1..(i - 1)
        BY <1>1, <3>1, <3>2
      <4> QED BY <1>1, <1>8, <2>3, <3>1, <4>1 DEF ForkFirst
    <3> QED BY <1>1, <3>1, <3>2
  <2>4. ASSUME ForkFirst(k), NEW f \in About(k)', f.type = "fork"
        PROVE  FALSE
    <3>1. PICK i \in 1..n : events'[i].key = k /\ f = events'[i]
      BY <1>2, <2>4, AboutMember
    <3>2. /\ i + 1 \in 1..(n + 1) /\ events[i + 1].key = k /\ events[i + 1].type = "fork"
          /\ 1 \in 1..((i + 1) - 1)
      BY <1>1, <1>2, <2>4, <3>1
    <3> QED BY <1>1, <1>2, <1>8, <2>4, <3>2 DEF ForkFirst
  <2>5. ForkFirst(k) => ~Queued("fork", k)'
    BY <2>4 DEF Queued
  <2> QED BY <1>4, <1>5, <1>6, <1>8, <2>2, <2>3, <2>5 DEF Taken
<1> QED BY <1>7, <1>8

-----------------------------------------------------------------------------
(* What a step of the kernel does to process k, if k has not ended after it *)

\* Another process does something, or time passes.
KernelElsewhere(k) ==
    /\ life'[k] = life[k] /\ comm'[k] = comm[k] /\ bpf'[k] = bpf[k]
    /\ processes'[k] = processes[k] /\ RingSame(k)

\* k is forked.
Born(k) ==
    /\ life[k] = "unborn" /\ life'[k] = "running" /\ bpf'[k].stage = "clone"
    /\ processes'[k] = processes[k] /\ RingSame(k)

\* k has another command name.
Renamed(k) ==
    /\ life[k] = "running" /\ life'[k] = "running"
    /\ bpf[k].stage = "idle" /\ bpf'[k].stage = "execve"
    /\ processes'[k] = processes[k] /\ RingSame(k)

\* A program has looked k's entry up.
LookedUp(k) ==
    /\ life'[k] = life[k] /\ comm'[k] = comm[k]
    /\ processes'[k] = processes[k] /\ RingSame(k)
    /\ \/ bpf[k].stage = "clone" /\ bpf'[k].stage = "fork"
       \/ bpf[k].stage = "execve" /\ bpf'[k].stage = "exec" /\ bpf'[k].seen = processes[k]
       \/ bpf[k].stage = "idle" /\ bpf'[k].stage = "exit" /\ bpf'[k].seen = processes[k]

\* The fork's event: the entry that k has, or a copy of its parent's, stored or not.
ForkTold(k) ==
    /\ life'[k] = life[k] /\ comm'[k] = comm[k]
    /\ bpf[k].stage \in {"clone", "fork"} /\ bpf'[k].stage = "idle"
    /\ \/ processes'[k] = processes[k] /\ Told("fork", k, processes[k], processes[k])
       \/ /\ bpf[k].stage = "fork" /\ processes[k] = Absent
          /\ \E t \in Nat :
               LET copy == ForkCopy(bpf[k].seen, t)
               IN  \/ processes'[k] = copy /\ Told("fork", k, copy, copy)
                   \/ processes'[k] = Absent /\ Told("fork", k, Absent, copy)

\* The exec's event: the entry that k has or had, or what the kernel decides.
ExecTold(k) ==
    /\ life'[k] = life[k] /\ comm'[k] = comm[k]
    /\ bpf[k].stage \in {"execve", "exec"} /\ bpf'[k].stage = "idle"
    /\ \E v \in Entry :
         /\ Told("exec", k, v, v)
         /\ \/ /\ processes'[k] = processes[k]
               /\ v = processes[k] \/ (bpf[k].stage = "exec" /\ v = bpf[k].seen)
            \/ processes'[k] = v /\ v # Absent /\ ~v.tombstone

\* No program is attached that would notice.
Unnoticed(k) ==
    /\ life'[k] = life[k] /\ comm'[k] = comm[k]
    /\ \/ bpf[k].stage = "clone" /\ "fork" \notin attached
       \/ bpf[k].stage = "execve" /\ "exec" \notin attached
    /\ bpf'[k].stage = "idle"
    /\ processes'[k] = processes[k] /\ RingSame(k)

KernelDoes(k) ==
    \/ KernelElsewhere(k) \/ Born(k) \/ Renamed(k) \/ LookedUp(k)
    \/ ForkTold(k) \/ ExecTold(k) \/ Unnoticed(k)

(* These are all. *)
LEMMA KernelCases ==
  ASSUME IInv, LifeInv, LeaderExits = FALSE, KernelNext \/ Tick, UNCHANGED uvars,
         NEW k \in Key, life[k] # "leaderless", ~Ended(k)'
  PROVE  KernelDoes(k)
<1> KernelTypeOK /\ HandsOK
  BY DEF IInv, TypeOK
<1> /\ events \in Seq(Event) /\ processes \in [Key -> Entry] /\ life \in [Key -> Life]
    /\ comm \in [Key -> Comm] /\ bpf \in [Key -> InFlight] /\ active.generation \in Nat
    /\ Program = {"fork", "exec", "exit"}
  BY DEF KernelTypeOK, ActivePolicy, Program
<1> USE KernelAssumption, IdleType
<1>1. UNCHANGED <<events, lost>> => RingSame(k)
  BY DEF RingSame, About, ForkFirst
<1>2. ASSUME NEW j \in Key, Finish(j)
      PROVE  (j # k => bpf'[k] = bpf[k]) /\ (j = k => bpf'[k].stage = "idle")
  BY <1>2 DEF Finish
<1>3. ASSUME NEW c \in Key, NEW p, NEW pk, Clone(p, c, pk) PROVE KernelDoes(k)
  <2>1. /\ life[c] = "unborn" /\ UNCHANGED <<processes, events, lost>>
        /\ c # k => life'[k] = life[k] /\ comm'[k] = comm[k] /\ bpf'[k] = bpf[k]
        /\ c = k => life'[k] = "running" /\ bpf'[k].stage = "clone"
    BY <1>3 DEF Clone, Idle
  <2> QED BY <1>1, <2>1 DEF KernelDoes, KernelElsewhere, Born
<1>4. ASSUME NEW j \in Key, NEW c, Execve(j, c) PROVE KernelDoes(k)
  <2>1. /\ UNCHANGED <<processes, events, lost>> /\ Alive(j) /\ bpf[j].stage = "idle"
        /\ j # k => life'[k] = life[k] /\ comm'[k] = comm[k] /\ bpf'[k] = bpf[k]
        /\ j = k => life'[k] = "running" /\ bpf'[k].stage = "execve"
    BY <1>4 DEF Execve, Idle, Busy
  <2> QED BY <1>1, <2>1 DEF KernelDoes, KernelElsewhere, Renamed, Alive
<1>5. ASSUME NEW c \in Key, ForkLookup(c) PROVE KernelDoes(k)
  <2>1. PICK pk, pv : pk = bpf[c].forker /\ pv = Lookup(processes, pk)
    OBVIOUS
  <2>2. UNCHANGED <<life, comm, processes>> /\ bpf[c].stage = "clone"
    BY <1>5 DEF ForkLookup
  <2>3. CASE processes[c] = Absent /\ CanInherit(pv)
    <3>1. PICK v : v = [Idle EXCEPT !.stage = "fork", !.forker = pk, !.seen = pv, !.time = Now]
      OBVIOUS
    <3>2. v.stage = "fork"
      BY <3>1 DEF Idle
    <3>3. bpf' = [bpf EXCEPT ![c] = v] /\ UNCHANGED <<events, lost>>
      BY <1>5, <2>1, <2>3, <3>1 DEF ForkLookup
    <3> QED BY <1>1, <2>2, <3>2, <3>3 DEF KernelDoes, KernelElsewhere, LookedUp
  <2>4. CASE ~(processes[c] = Absent /\ CanInherit(pv))
    <3>1. Submit("fork", c, pk, processes[c], processes[c]) /\ Finish(c)
      BY <1>5, <2>1, <2>4 DEF ForkLookup
    <3>2. /\ c # k => RingSame(k)
          /\ c = k => Told("fork", k, processes[k], processes[k])
      BY <3>1, SubmitTells
    <3> QED BY <1>2, <2>2, <3>1, <3>2 DEF KernelDoes, KernelElsewhere, ForkTold
  <2> QED BY <2>3, <2>4
<1>6. ASSUME NEW c \in Key, ForkCommit(c) PROVE KernelDoes(k)
  <2>1. PICK t \in Stamp(c) :
         LET copy == ForkCopy(bpf[c].seen, t)
             now == processes[c]
             put == now = Absent /\ CanPut(c)
         IN  /\ processes' = IF put THEN [processes EXCEPT ![c] = copy] ELSE processes
             /\ Submit("fork", c, bpf[c].forker,
                       IF put THEN copy ELSE now,
                       IF now = Absent THEN copy ELSE now)
    BY <1>6 DEF ForkCommit
  <2>2. PICK copy : copy = ForkCopy(bpf[c].seen, t)
    OBVIOUS
  <2>3. UNCHANGED <<life, comm>> /\ bpf[c].stage = "fork" /\ Finish(c) /\ t \in Nat
    BY <1>6, InFlightFields DEF ForkCommit
  <2>4. ASSUME NEW found, NEW v, Submit("fork", c, bpf[c].forker, found, v)
        PROVE  (c # k => RingSame(k)) /\ (c = k => Told("fork", k, found, v))
    BY <2>4, SubmitTells
  <2>5. CASE c # k
    BY <1>2, <2>1, <2>3, <2>4, <2>5 DEF KernelDoes, KernelElsewhere
  <2>6. CASE c = k
    <3>1. CASE processes[k] = Absent /\ CanPut(k)
      <4>1. processes'[k] = copy /\ Told("fork", k, copy, copy)
        BY <2>1, <2>2, <2>4, <2>6, <3>1
      <4> QED BY <1>2, <2>2, <2>3, <2>6, <3>1, <4>1 DEF KernelDoes, ForkTold
    <3>2. CASE processes[k] = Absent /\ ~CanPut(k)
      <4>1. processes'[k] = Absent /\ Told("fork", k, Absent, copy)
        BY <2>1, <2>2, <2>4, <2>6, <3>2
      <4> QED BY <1>2, <2>2, <2>3, <2>6, <3>2, <4>1 DEF KernelDoes, ForkTold
    <3>3. CASE processes[k] # Absent
      <4>1. processes'[k] = processes[k] /\ Told("fork", k, processes[k], processes[k])
        BY <2>1, <2>4, <2>6, <3>3
      <4> QED BY <1>2, <2>3, <2>6, <4>1 DEF KernelDoes, ForkTold
    <3> QED BY <3>1, <3>2, <3>3
  <2> QED BY <2>5, <2>6
<1>7. ASSUME NEW j \in Key, ExecLookup(j) PROVE KernelDoes(k)
  <2>1. UNCHANGED <<life, comm, processes>> /\ bpf[j].stage = "execve" /\ processes[j] \in Entry
    BY <1>7 DEF ExecLookup
  <2>2. CASE active.generation # 0 /\ active.mode # "userspace-only"
    <3>1. PICK v : v = [Idle EXCEPT !.stage = "exec", !.seen = processes[j],
                          !.rule = active.rules[comm[j]], !.generation = active.generation,
                          !.time = Now]
      OBVIOUS
    <3>2. v.seen = processes[j] /\ v.stage = "exec"
      BY <3>1 DEF Idle
    <3>3. bpf' = [bpf EXCEPT ![j] = v] /\ UNCHANGED <<events, lost>>
      BY <1>7, <2>2, <3>1 DEF ExecLookup
    <3> QED BY <1>1, <2>1, <3>2, <3>3 DEF KernelDoes, KernelElsewhere, LookedUp
  <2>3. CASE ~(active.generation # 0 /\ active.mode # "userspace-only")
    <3>1. Submit("exec", j, Foreign, processes[j], processes[j]) /\ Finish(j)
      BY <1>7, <2>3 DEF ExecLookup
    <3>2. /\ j # k => RingSame(k)
          /\ j = k => Told("exec", k, processes[k], processes[k])
      BY <3>1, SubmitTells
    <3> QED BY <1>2, <2>1, <3>1, <3>2 DEF KernelDoes, KernelElsewhere, ExecTold
  <2> QED BY <2>2, <2>3
<1>8. ASSUME NEW j \in Key, ExecCommit(j) PROVE KernelDoes(k)
  <2> DEFINE seen == bpf[j].seen
             decided(rule) == rule # NoMatch \/ (active.mode = "authoritative" /\ seen # Absent)
             candidate(t, rule) == IF rule # NoMatch
                                   THEN NewProcessValue(rule, active.generation, t)
                                   ELSE ExecMiss(seen, active.generation, t)
             put(t, rule) == /\ decided(rule)
                             /\ seen = Absent \/ NextProcessValueWins(seen, candidate(t, rule))
                             /\ CanPut(j)
             value(t, rule) == IF put(t, rule) THEN candidate(t, rule) ELSE seen
  <2>1. PICK t \in Stamp(j), rule \in RuleFound(j) :
          /\ processes' = IF put(t, rule) THEN [processes EXCEPT ![j] = candidate(t, rule)]
                          ELSE processes
          /\ Submit("exec", j, Foreign, value(t, rule), value(t, rule))
    BY <1>8 DEF ExecCommit
  <2>2. /\ t \in Nat /\ seen \in Entry /\ rule \in Decision \cup {NoMatch}
        /\ UNCHANGED <<life, comm>> /\ Finish(j) /\ bpf[j].stage = "exec"
    BY <1>8, InFlightFields DEF RuleFound, ExecCommit
  <2>3. ASSUME put(t, rule)
        PROVE  candidate(t, rule) \in ProcessValue /\ candidate(t, rule).tombstone = FALSE
    <3>1. CASE rule # NoMatch
      <4>1. NewProcessValue(rule, active.generation, t).tombstone = FALSE
        BY DEF NewProcessValue
      <4> QED BY <2>2, <3>1, <4>1, ExplicitType DEF Decision
    <3>2. CASE rule = NoMatch
      <4>1. seen \in ProcessValue
        BY <2>2, <2>3, <3>2 DEF Entry
      <4>2. ExecMiss(seen, active.generation, t) \in ProcessValue
        BY <2>2, <4>1, ConstructorTypes DEF ExecMiss
      <4>3. ExecMiss(seen, active.generation, t).tombstone = FALSE
        BY DEF ExecMiss, NewNoMarkProcessValue, ZeroValue
      <4> QED BY <3>2, <4>2, <4>3
    <3> QED BY <3>1, <3>2
  <2>4. PICK v : v = value(t, rule)
    OBVIOUS
  <2>5. \/ processes' = processes /\ v = seen
        \/ /\ processes' = [processes EXCEPT ![j] = v]
           /\ v \in ProcessValue /\ v.tombstone = FALSE
    BY <2>1, <2>3, <2>4
  <2>6. /\ j # k => RingSame(k)
        /\ j = k => Told("exec", k, v, v)
    BY <2>1, <2>4, SubmitTells
  <2>7. CASE j # k
    BY <1>2, <2>2, <2>5, <2>6, <2>7 DEF KernelDoes, KernelElsewhere
  <2>8. CASE j = k
    <3>1. v \in Entry
      BY <2>2, <2>5 DEF Entry
    <3>2. \/ /\ processes'[k] = processes[k]
             /\ v = processes[k] \/ (bpf[k].stage = "exec" /\ v = bpf[k].seen)
          \/ processes'[k] = v /\ v # Absent /\ ~v.tombstone
      BY <2>2, <2>5, <2>8, AbsentAssumption
    <3>3. bpf'[k].stage = "idle" /\ bpf[k].stage \in {"execve", "exec"}
      BY <1>2, <2>2, <2>8
    <3> QED BY <2>2, <2>6, <2>8, <3>1, <3>2, <3>3 DEF KernelDoes, ExecTold
  <2> QED BY <2>7, <2>8
<1>9. ASSUME NEW j \in Key, ExitLookup(j) PROVE KernelDoes(k)
  <2>1. PICK v : v = [Idle EXCEPT !.stage = "exit", !.seen = processes[j], !.time = Now]
    OBVIOUS
  <2>2. v.seen = processes[j] /\ v.stage = "exit" /\ bpf[j].stage = "idle"
    BY <1>9, <2>1 DEF Idle, ExitLookup, Busy
  <2>3. bpf' = [bpf EXCEPT ![j] = v] /\ UNCHANGED <<life, comm, processes, events, lost>>
    BY <1>9, <2>1 DEF ExitLookup
  <2> QED BY <1>1, <2>2, <2>3 DEF KernelDoes, KernelElsewhere, LookedUp
<1>10. ASSUME NEW j \in Key, NEW others \in BOOLEAN, Die(j, others), others => LeaderExits
       PROVE  j # k /\ life'[k] = life[k]
  BY <1>10 DEF Die, Ended
<1>11. ASSUME NEW j \in Key, NEW others \in BOOLEAN, ExitCommit(j, others) PROVE KernelDoes(k)
  <2>1. j # k /\ life'[k] = life[k] /\ UNCHANGED comm /\ Finish(j)
    BY <1>10, <1>11 DEF ExitCommit
  <2>2. processes'[k] = processes[k]
    BY <1>11, <2>1 DEF ExitCommit
  <2>3. \E found, e : Submit("exit", j, Foreign, found, e)
    BY <1>11 DEF ExitCommit
  <2>4. RingSame(k)
    BY <2>1, <2>3, SubmitTells
  <2> QED BY <1>2, <2>1, <2>2, <2>4 DEF KernelDoes, KernelElsewhere
<1>12. ASSUME NEW j \in Key, LastThreadExit(j) \/ Reap(j) PROVE KernelDoes(k)
  <2>1. UNCHANGED <<comm, processes, bpf, events, lost>>
    BY <1>12 DEF LastThreadExit, Reap
  <2>2. life'[k] = life[k]
    <3>1. CASE LastThreadExit(j)
      BY <1>10, <3>1 DEF LastThreadExit
    <3>2. CASE Reap(j)
      BY <3>2 DEF Reap, Ended
    <3> QED BY <1>12, <3>1, <3>2
  <2> QED BY <1>1, <2>1, <2>2 DEF KernelDoes, KernelElsewhere
<1>13. ASSUME NEW j \in Key, UnobservedStep(j) PROVE KernelDoes(k)
  <2>1. UNCHANGED <<comm, processes, events, lost>>
    BY <1>13 DEF UnobservedStep
  <2>2. CASE Finish(j) /\ UNCHANGED life /\ (\/ bpf[j].stage = "clone" /\ "fork" \notin attached
                                             \/ bpf[j].stage = "execve" /\ "exec" \notin attached)
    BY <1>1, <1>2, <2>1, <2>2 DEF KernelDoes, KernelElsewhere, Unnoticed
  <2>3. CASE Die(j, FALSE) /\ UNCHANGED bpf
    BY <1>1, <1>10, <2>1, <2>3 DEF KernelDoes, KernelElsewhere
  <2> QED BY <1>13, <2>2, <2>3 DEF UnobservedStep, Unobserved
<1>14. CASE Tick
  BY <1>1, <1>14 DEF Tick, KernelDoes, KernelElsewhere
<1> QED BY <1>3, <1>4, <1>5, <1>6, <1>7, <1>8, <1>9, <1>11, <1>12, <1>13, <1>14 DEF KernelNext

-----------------------------------------------------------------------------
(* What a step of the daemon does to process k, if k has not ended *)

EntrySame(k) ==
    /\ mirror'[k] = mirror[k] /\ processes'[k] = processes[k] /\ notified'[k] = notified[k]
    /\ k \in unsynced' <=> k \in unsynced

\* upsertProcessWithLog of v
Upserted(k, v) ==
    /\ mirror'[k] = MergeEntry(mirror[k], v)
    /\ \/ EntrySame(k)
       \/ /\ mirror'[k] # mirror[k] /\ notified'[k] = mirror'[k]
          /\ processes'[k] \in {Absent, mirror'[k]}

\* The same for a new value, if there is one.
UpsertedNow(k, v) ==
    \/ v = Absent /\ EntrySame(k)
    \/ v # Absent /\ Upserted(k, v)

PolicySame == UNCHANGED <<generation, policy, boot>>

\* The step is about other processes, or only about the mutex.
DaemonElsewhere(k) ==
    /\ EntrySame(k) /\ RingSame(k) /\ UNCHANGED <<generation, policy>>
    /\ boot' = "steady" => boot = "steady"
    /\ Handling(k) \/ Handling(k)' => UNCHANGED <<pc, job>>
    /\ Waiting(k) => Waiting(k)'
    /\ pc' = "walk" /\ k \in trav'.todo /\ Deciding' =>
         pc = "walk" /\ k \in trav.todo /\ Deciding /\ trav'.comm[k] = trav.comm[k]
    /\ pc' = "sweep" /\ k \in trav'.todo => pc = "sweep" /\ k \in trav.todo

PolicySet(k) ==
    /\ EntrySame(k) /\ RingSame(k)
    /\ generation' = generation + 1 /\ pc = "free" /\ pc' = "refresh"

\* The first halves of handleEvent.
ForkTaken(k) ==
    \E e \in Event :
        /\ Taken(k, e) /\ e.type = "fork" /\ PolicySame
        /\ pc = "free" /\ pc' = "fork" /\ job'.key = k
        /\ life[k] = "running" => job'.comm = comm[k]
        /\ \/ e.hasMark /\ job'.value = e.value /\ Upserted(k, e.value)
           \/ /\ ~e.hasMark /\ CanInherit(mirror[k]) /\ job'.value = mirror[k]
              /\ processes'[k] \in {Absent, mirror[k]}
              /\ mirror'[k] = mirror[k] /\ notified'[k] = notified[k]
           \/ ~e.hasMark /\ ~CanInherit(mirror[k]) /\ job'.value = Absent /\ EntrySame(k)

ExecTaken(k) ==
    \E e \in Event :
        /\ Taken(k, e) /\ e.type = "exec" /\ PolicySame
        /\ pc = "free" /\ pc' = "exec" /\ job'.key = k /\ job'.value = mirror'[k]
        /\ life[k] = "running" => job'.comm = comm[k]
        /\ mirror'[k] \in Entry /\ notified'[k] = notified[k]
        /\ \/ mirror'[k] = mirror[k]
           \/ mirror'[k] = MergeEntry(mirror[k], e.value)
        /\ \/ processes'[k] = processes[k] /\ (k \in unsynced' <=> k \in unsynced)
           \/ processes'[k] \in {Absent, mirror'[k]} /\ mirror'[k] # Absent

\* The second halves.
EventDecided(k) ==
    /\ RingSame(k) /\ PolicySame
    /\ job.key = k /\ pc' = "free"
    /\ \/ pc = "fork" /\ UpsertedNow(k, ForkValue(job))
       \/ pc = "exec" /\ UpsertedNow(k, ExecValue(job))

Visited(k) ==
    /\ RingSame(k) /\ PolicySame /\ UNCHANGED owner
    /\ pc = "walk" /\ pc' = "walk" /\ k \in trav.todo /\ k \notin trav'.todo
    /\ \E p \in Entry : UpsertedNow(k, WalkValue(k, p))

Refreshed(k) ==
    /\ About(k)' = About(k) /\ (ForkFirst(k) => ForkFirst(k)') /\ k \notin lost'
    /\ PolicySame /\ pc = "refresh" /\ pc' = "repair"
    /\ mirror'[k] = MergeKernelEntry(k) /\ processes'[k] = processes[k]
    /\ notified'[k] = notified[k] /\ (k \in unsynced' <=> k \in unsynced)

Listed(k) ==
    /\ RingSame(k) /\ PolicySame /\ pc = "repair" /\ pc' = "walk"
    /\ life[k] = "running" => k \in trav'.todo
    /\ trav'.comm[k] = comm[k]
    /\ mirror'[k] = mirror[k] /\ processes'[k] \in {mirror[k], processes[k]}
    /\ notified'[k] = notified[k] /\ (k \in unsynced' => k \in unsynced)

\* A new consumer.
Hooked(k) ==
    /\ RingSame(k) /\ UNCHANGED <<generation, policy, pc, owner, job, trav, boot>>
    /\ pc = "free"
    /\ mirror'[k] = mirror[k] /\ processes'[k] = processes[k]
    /\ notified'[k] = (IF Live(mirror[k]) THEN mirror[k] ELSE Absent)
    /\ k \in unsynced' <=> k \in unsynced

DaemonDoes(k) ==
    \/ DaemonElsewhere(k) \/ PolicySet(k) \/ ForkTaken(k) \/ ExecTaken(k)
    \/ EventDecided(k) \/ Visited(k) \/ Refreshed(k) \/ Listed(k) \/ Hooked(k)

(* A Put, seen from its process and from the others. *)
LEMMA SyncCases ==
  ASSUME MapsOK, NEW j \in Key, NEW v, SyncKernel(j, v), NEW k \in Key
  PROVE  /\ j # k => processes'[k] = processes[k] /\ (k \in unsynced' <=> k \in unsynced)
         /\ j = k => processes'[k] \in {Absent, v}
BY DEF MapsOK, SyncKernel, CanPut

(* An upsert, seen from its process and from the others. *)
LEMMA UpsertCases ==
  ASSUME MapsOK, notified \in [Key -> Entry], NEW j \in Key, NEW v, NEW log, Upsert(j, v, log),
         NEW k \in Key
  PROVE  /\ j # k => EntrySame(k)
         /\ j = k /\ log = TRUE => Upserted(k, v)
<1>1. PICK w : w = MergeEntry(mirror[j], v)
  OBVIOUS
<1>2. CASE w = mirror[j]
  <2>1. UNCHANGED <<mirror, processes, unsynced, notified>>
    BY <1>1, <1>2 DEF Upsert
  <2> QED BY <1>1, <1>2, <2>1 DEF EntrySame, Upserted
<1>3. CASE w # mirror[j]
  <2>1. /\ mirror' = [mirror EXCEPT ![j] = w] /\ SyncKernel(j, w)
        /\ notified' = IF log THEN [notified EXCEPT ![j] = w] ELSE notified
    BY <1>1, <1>3 DEF Upsert
  <2>2. /\ j # k => processes'[k] = processes[k] /\ (k \in unsynced' <=> k \in unsynced)
        /\ j = k => processes'[k] \in {Absent, w}
    BY <2>1, SyncCases
  <2>3. CASE j # k
    BY <2>1, <2>2, <2>3 DEF EntrySame, MapsOK
  <2>4. CASE j = k /\ log = TRUE
    BY <1>1, <1>3, <2>1, <2>2, <2>4 DEF Upserted, MapsOK
  <2> QED BY <2>3, <2>4
<1> QED BY <1>2, <1>3

(* The same for a new value. *)
LEMMA UpsertNowCases ==
  ASSUME MapsOK, notified \in [Key -> Entry], NEW j \in Key, NEW v, UpsertNow(j, v),
         NEW k \in Key
  PROVE  /\ j # k => EntrySame(k)
         /\ j = k => UpsertedNow(k, v)
<1>1. CASE v = Absent
  BY <1>1 DEF UpsertNow, NoUpsert, EntrySame, UpsertedNow
<1>2. CASE v # Absent
  <2>1. Upsert(j, v, TRUE)
    BY <1>2 DEF UpsertNow
  <2> QED BY <1>2, <2>1, UpsertCases DEF UpsertedNow
<1> QED BY <1>1, <1>2

(* The daemon does not rename processes. *)
LEMMA DaemonFrame == ASSUME DaemonNext PROVE UNCHANGED <<life, comm, bpf>>
<1>1. UNCHANGED <<life, bpf>>
  BY DaemonShape
<1>2. CASE RecvFork \/ RecvExec \/ RecvExit
  BY <1>1, <1>2 DEF RecvFork, RecvExec, RecvExit, KernelFrame
<1>3. CASE DecideFork \/ DecideExec
  BY <1>1, <1>3 DEF DecideFork, DecideExec, KernelFrame
<1>4. CASE CollectTombstones \/ SweepDone
  BY <1>1, <1>4 DEF CollectTombstones, SweepDone, KernelFrame
<1>5. ASSUME NEW k \in Key, SweepDead(k) PROVE UNCHANGED comm
  BY <1>5 DEF SweepDead, KernelFrame
<1>6. CASE ForeignEvent \/ RunTraverse
  BY <1>1, <1>6 DEF ForeignEvent, RunTraverse, kvars
<1>7. CASE Refresh \/ RefreshAbort \/ RepairAndList \/ TraversalDone
  BY <1>1, <1>7 DEF Refresh, RefreshAbort, RepairAndList, TraversalDone, KernelFrame
<1>8. ASSUME NEW k \in Key, ListMiss(k) \/ Walk(k) \/ WalkOrphan(k) PROVE UNCHANGED comm
  BY <1>8 DEF ListMiss, Walk, WalkOrphan, Visit, KernelFrame, kvars
<1>9. CASE RunAttach
  BY <1>1, <1>9 DEF RunAttach, Attach, KernelFrame
<1>10. CASE ApiStep
  BY <1>1, <1>10 DEF ApiStep, SetPolicy, SetProcessMark, ForceProcessTraversal, UpdateHooks
<1> QED BY <1>1, <1>2, <1>3, <1>4, <1>5, <1>6, <1>7, <1>8, <1>9, <1>10
        DEF DaemonNext, EventLoopStep, TraversalStep, RunStep

(* Run starts one thing after the other, and the mutex has one holder. *)
LEMMA OrderStep == ASSUME IInv, OrderInv, [Next]_vars PROVE OrderInv'
<1> attached \subseteq {"fork", "exec", "exit"}
  BY DEF IInv, TypeOK, KernelTypeOK, Program
<1> USE DEF OrderInv, Up
<1>1. CASE UNCHANGED <<attached, boot, pc, owner>>
  BY <1>1
<1>2. CASE KernelStep \/ TimePasses \/ UNCHANGED vars
  <2>1. UNCHANGED attached
    BY <1>2 DEF KernelStep, TimePasses, KernelNext, Clone, ForkLookup, ForkCommit, Execve,
                ExecLookup, ExecCommit, ExitLookup, ExitCommit, LastThreadExit, Reap,
                UnobservedStep, Tick, vars, kvars
  <2> QED BY <1>1, <1>2, <2>1 DEF KernelStep, TimePasses, uvars, vars
<1>3. CASE RecvFork \/ RecvExec \/ RecvExit
  BY <1>3 DEF RecvFork, RecvExec, RecvExit, Receive, Acquire
<1>4. CASE DecideFork \/ DecideExec
  BY <1>4 DEF DecideFork, DecideExec, EventDone
<1>5. CASE CollectTombstones
  BY <1>5 DEF CollectTombstones, Acquire
<1>6. CASE SweepDone
  BY <1>6 DEF SweepDone, Release
<1>7. ASSUME NEW k \in Key, SweepDead(k) \/ ListMiss(k) \/ Walk(k) \/ WalkOrphan(k)
      PROVE  OrderInv'
  <2>1. UNCHANGED <<attached, boot, pc, owner>>
    BY <1>7 DEF SweepDead, ListMiss, Walk, WalkOrphan, Visit, kvars
  <2> QED BY <1>1, <2>1
<1>8. CASE ForeignEvent \/ UpdateHooks \/ (\E k \in Key, d \in ApiMarks : SetProcessMark(k, d))
  <2>1. UNCHANGED <<attached, boot, pc, owner>>
    BY <1>8 DEF ForeignEvent, UpdateHooks, SetProcessMark, kvars
  <2> QED BY <1>1, <2>1
<1>9. CASE Refresh \/ RepairAndList
  BY <1>9 DEF Refresh, RepairAndList
<1>10. CASE RefreshAbort \/ TraversalDone
  BY <1>10 DEF RefreshAbort, TraversalDone, Release, NextBoot
<1>11. CASE RunTraverse
  BY <1>11 DEF RunTraverse, Acquire, kvars
<1>12. CASE RunAttach
  <2>1. UNCHANGED <<pc, owner>> /\ owner # "run"
    BY <1>12 DEF RunAttach, Attach
  <2>2. CASE Attach("fork", "attachFork", "attachExit")
    BY <2>1, <2>2 DEF Attach
  <2>3. CASE Attach("exit", "attachExit", "attachExec")
    BY <2>1, <2>3 DEF Attach
  <2>4. CASE Attach("exec", "attachExec", "second")
    BY <2>1, <2>4 DEF Attach, Program
  <2> QED BY <1>12, <2>2, <2>3, <2>4 DEF RunAttach
<1>13. CASE ForceProcessTraversal \/ (\E p \in Policies : SetPolicy(p))
  BY <1>13 DEF ForceProcessTraversal, SetPolicy, Acquire
<1> QED BY <1>2, <1>3, <1>4, <1>5, <1>6, <1>7, <1>8, <1>9, <1>10, <1>11, <1>12, <1>13
        DEF Next, EventLoopStep, TraversalStep, RunStep, ApiStep

(* It holds of a daemon that is new and of one that has started. *)
LEMMA OrderInit == Init => OrderInv
BY DEF Init, FreshInit, BootedInit, KernelInit, MarkerInit, OrderInv, Up

(* Nothing else happens to a process that has not ended. *)
LEMMA DaemonCases ==
  ASSUME IInv, ClockInv, UnbornInv, AliveInv, OrderInv, ApiMarks = {}, AbortIteration = FALSE,
         DaemonNext, NEW k \in Key, ~Ended(k)
  PROVE  DaemonDoes(k)
<1> TypeOK /\ HandsOK
  BY DEF IInv
<1> /\ MapsOK /\ notified \in [Key -> Entry] /\ events \in Seq(Event) /\ trav \in Traversal
    /\ life \in [Key -> Life]
  BY TypeFacts DEF TypeOK, MarkerTypeOK, KernelTypeOK
<1> /\ life[k] # "leaderless" /\ ~Tombstone(mirror[k]) /\ ~Tombstone(processes[k])
    /\ \A e \in About(k) : e.type # "exit" /\ ~e.value.tombstone
  BY DEF AliveInv, Living
<1>1. UNCHANGED <<life, comm, bpf>>
  BY DaemonFrame
<1>2. life[k] = "unborn" \/ life[k] = "running"
  BY DEF Life, Ended
<1>3. Visible(k) \/ life[k] = "unborn"
  BY <1>2 DEF Visible
<1>4. UNCHANGED <<events, lost>> => RingSame(k)
  BY DEF RingSame, About, ForkFirst
<1>5. UNCHANGED <<mirror, processes, notified, unsynced>> => EntrySame(k)
  BY DEF EntrySame
<1>6. ASSUME NEW type, NEW at, Receive(type, at), UNCHANGED lost
      PROVE  LET e == Head(events)
             IN  /\ e \in Event /\ e.key \in Key /\ e.value \in ProcessValue /\ e.type = type
                 /\ e.key # k => RingSame(k)
                 /\ e.key = k => Taken(k, e)
                 /\ \A v : /\ JobOf(e, v).key = e.key /\ JobOf(e, v).value = v
                           /\ e.key = k /\ life[k] = "running" => JobOf(e, v).comm = comm[k]
                 /\ Up /\ pc = "free" /\ pc' = at
  <2>1. /\ events # <<>> /\ events' = Tail(events) /\ Head(events).type = type
        /\ Up /\ pc = "free" /\ pc' = at
    BY <1>6 DEF Receive, Acquire
  <2>2. /\ Head(events) \in Event /\ Head(events).key \in Key
        /\ Head(events).value \in ProcessValue
    BY <2>1, HeadFacts
  <2>3. /\ Head(events).key # k => RingSame(k)
        /\ Head(events).key = k => Taken(k, Head(events))
    BY <1>6, <2>1, ReceiveTakes
  <2>4. ASSUME NEW v
        PROVE  /\ JobOf(Head(events), v).key = Head(events).key
               /\ JobOf(Head(events), v).value = v
               /\ Head(events).key = k /\ life[k] = "running" =>
                    JobOf(Head(events), v).comm = comm[k]
    BY DEF JobOf, EventComm, Visible
  <2> QED BY <2>1, <2>2, <2>3, <2>4
<1>7. CASE RecvFork
  <2>1. PICK e : e = Head(events)
    OBVIOUS
  <2>2. Receive("fork", "fork") /\ UNCHANGED <<generation, policy, boot, trav, lost>>
    BY <1>7 DEF RecvFork
  <2>3. /\ e \in Event /\ e.key \in Key /\ e.value \in ProcessValue /\ e.type = "fork"
        /\ e.key # k => RingSame(k)
        /\ e.key = k => Taken(k, e)
        /\ \A v : /\ JobOf(e, v).key = e.key /\ JobOf(e, v).value = v
                  /\ e.key = k /\ life[k] = "running" => JobOf(e, v).comm = comm[k]
        /\ Up /\ pc = "free" /\ pc' = "fork"
    BY <1>6, <2>1, <2>2
  <2>4. \/ e.hasMark /\ job' = JobOf(e, e.value) /\ Upsert(e.key, e.value, TRUE)
        \/ /\ ~e.hasMark /\ CanInherit(mirror[e.key]) /\ job' = JobOf(e, mirror[e.key])
           /\ SyncKernel(e.key, mirror[e.key]) /\ UNCHANGED <<mirror, notified>>
        \/ /\ ~e.hasMark /\ ~CanInherit(mirror[e.key]) /\ job' = JobOf(e, Absent)
           /\ UNCHANGED <<mirror, processes, unsynced, notified>>
    BY <1>7, <2>1 DEF RecvFork, NoUpsert
  <2>5. CASE e.key # k
    <3>1. EntrySame(k)
      <4>1. CASE Upsert(e.key, e.value, TRUE)
        BY <2>3, <2>5, <4>1, UpsertCases
      <4>2. CASE SyncKernel(e.key, mirror[e.key]) /\ UNCHANGED <<mirror, notified>>
        BY <2>3, <2>5, <4>2, SyncCases DEF EntrySame
      <4> QED BY <1>5, <2>4, <4>1, <4>2
    <3>2. job'.key # k
      BY <2>3, <2>4, <2>5
    <3>3. ~Waiting(k)
      BY <2>3 DEF Waiting, Deciding
    <3> QED BY <2>2, <2>3, <2>5, <3>1, <3>2, <3>3 DEF DaemonDoes, DaemonElsewhere, Handling
  <2>6. CASE e.key = k
    <3>1. /\ job'.key = k
          /\ life[k] = "running" => job'.comm = comm[k]
      BY <2>3, <2>4, <2>6
    <3>2. \/ e.hasMark /\ job'.value = e.value /\ Upserted(k, e.value)
          \/ /\ ~e.hasMark /\ CanInherit(mirror[k]) /\ job'.value = mirror[k]
             /\ processes'[k] \in {Absent, mirror[k]}
             /\ mirror'[k] = mirror[k] /\ notified'[k] = notified[k]
          \/ ~e.hasMark /\ ~CanInherit(mirror[k]) /\ job'.value = Absent /\ EntrySame(k)
      <4>1. Upsert(k, e.value, TRUE) => Upserted(k, e.value)
        BY UpsertCases
      <4>2. SyncKernel(k, mirror[k]) => processes'[k] \in {Absent, mirror[k]}
        BY SyncCases
      <4> QED BY <1>5, <2>3, <2>4, <2>6, <4>1, <4>2
    <3> QED BY <2>2, <2>3, <2>6, <3>1, <3>2 DEF DaemonDoes, ForkTaken, PolicySame
  <2> QED BY <2>5, <2>6
<1>8. CASE RecvExec
  <2>1. PICK e : e = Head(events)
    OBVIOUS
  <2>2. PICK value : value = IF e.value = ZeroValue THEN mirror[e.key]
                             ELSE MergeEntry(mirror[e.key], e.value)
    OBVIOUS
  <2>3. PICK at : at = IF Tombstone(value) THEN "free" ELSE "exec"
    OBVIOUS
  <2>4. Receive("exec", at) /\ UNCHANGED <<generation, policy, boot, trav, lost, notified>>
    BY <1>8, <2>1, <2>2, <2>3 DEF RecvExec
  <2>5. /\ e \in Event /\ e.key \in Key /\ e.value \in ProcessValue /\ e.type = "exec"
        /\ e.key # k => RingSame(k)
        /\ e.key = k => Taken(k, e)
        /\ \A v : /\ JobOf(e, v).key = e.key /\ JobOf(e, v).value = v
                  /\ e.key = k /\ life[k] = "running" => JobOf(e, v).comm = comm[k]
        /\ Up /\ pc = "free" /\ pc' = at
    BY <1>6, <2>1, <2>4
  <2>6. /\ mirror' = [mirror EXCEPT ![e.key] = value]
        /\ \/ value # Absent /\ SyncKernel(e.key, value)
           \/ UNCHANGED <<processes, unsynced>>
        /\ ~Tombstone(value) => job' = JobOf(e, value)
    BY <1>8, <2>1, <2>2 DEF RecvExec, NeedsSync
  <2>7. CASE e.key # k
    <3>1. EntrySame(k)
      BY <2>4, <2>5, <2>6, <2>7, SyncCases DEF EntrySame, MapsOK
    <3>2. ~Handling(k)'
      BY <2>3, <2>5, <2>6, <2>7 DEF Handling
    <3>3. ~Waiting(k) /\ ~Handling(k)
      BY <2>5 DEF Waiting, Deciding, Handling
    <3>4. pc' # "walk" /\ pc' # "sweep"
      BY <2>3, <2>5
    <3> QED BY <2>4, <2>5, <2>7, <3>1, <3>2, <3>3, <3>4 DEF DaemonDoes, DaemonElsewhere
  <2>8. CASE e.key = k
    <3>1. mirror[k] \in Entry /\ value \in Entry /\ ~Tombstone(value)
      <4>1. mirror[k] \in Entry /\ Taken(k, e)
        BY <2>5, <2>8 DEF MapsOK
      <4>2. ~e.value.tombstone
        BY <4>1 DEF Taken
      <4>3. value = mirror[k] \/ (value = e.value /\ value \in Entry)
        BY <2>2, <2>5, <2>8, <4>1, MergeEntryFacts DEF Entry
      <4> QED BY <4>1, <4>2, <4>3 DEF Tombstone
    <3>2. pc' = "exec" /\ job'.key = k /\ job'.value = value /\ mirror'[k] = value
          /\ (life[k] = "running" => job'.comm = comm[k])
      BY <2>3, <2>5, <2>6, <2>8, <3>1 DEF MapsOK
    <3>3. value = mirror[k] \/ value = MergeEntry(mirror[k], e.value)
      BY <2>2, <2>8
    <3>4. \/ processes'[k] = processes[k] /\ (k \in unsynced' <=> k \in unsynced)
          \/ processes'[k] \in {Absent, value} /\ value # Absent
      BY <2>6, <2>8, SyncCases
    <3> QED BY <2>4, <2>5, <2>8, <3>1, <3>2, <3>3, <3>4 DEF DaemonDoes, ExecTaken, PolicySame
  <2> QED BY <2>7, <2>8
<1>9. CASE RecvExit
  <2>1. PICK e : e = Head(events)
    OBVIOUS
  <2>2. Receive("exit", "free") /\ UNCHANGED <<generation, policy, boot, trav, lost>>
    BY <1>9 DEF RecvExit
  <2>3. /\ e.key \in Key /\ e.type = "exit"
        /\ e.key # k => RingSame(k)
        /\ e.key = k => Taken(k, e)
        /\ Up /\ pc = "free" /\ pc' = "free"
    BY <1>6, <2>1, <2>2
  <2>4. e.key # k
    BY <2>3 DEF Taken
  <2>5. \/ UNCHANGED <<mirror, processes, unsynced, notified>>
        \/ \E v, log : Upsert(e.key, v, log)
    BY <1>9, <2>1 DEF RecvExit, NoUpsert
  <2>6. EntrySame(k)
    BY <1>5, <2>3, <2>4, <2>5, UpsertCases
  <2>7. ~Waiting(k)
    BY <2>3 DEF Waiting, Deciding
  <2> QED BY <2>2, <2>3, <2>4, <2>6, <2>7 DEF DaemonDoes, DaemonElsewhere, Handling
<1>10. CASE DecideFork \/ DecideExec
  <2>1. /\ job.key \in Key /\ UNCHANGED <<events, lost, generation, policy, trav, boot>>
        /\ pc' = "free" /\ owner' = "none" /\ pc \in {"fork", "exec"}
        /\ \/ pc = "fork" /\ UpsertNow(job.key, ForkValue(job))
           \/ pc = "exec" /\ UpsertNow(job.key, ExecValue(job))
    BY <1>10 DEF DecideFork, DecideExec, EventDone, HandsOK
  <2>2. CASE job.key # k
    <3>1. EntrySame(k)
      BY <2>1, <2>2, UpsertNowCases
    <3>2. Up
      BY <2>1 DEF OrderInv
    <3>3. ~Waiting(k)
      BY <2>1, <3>2 DEF Waiting, Deciding
    <3> QED BY <1>4, <2>1, <2>2, <3>1, <3>3 DEF DaemonDoes, DaemonElsewhere, Handling
  <2>3. CASE job.key = k
    BY <1>4, <2>1, <2>3, UpsertNowCases DEF DaemonDoes, EventDecided, PolicySame
  <2> QED BY <2>2, <2>3
<1>11. CASE CollectTombstones
  <2>1. /\ pc = "free" /\ pc' = "sweep" /\ owner' = "events"
        /\ UNCHANGED <<events, lost, generation, policy, job, boot, notified>>
        /\ mirror' = [j \in Key |-> IF j \in Expired THEN Absent ELSE mirror[j]]
        /\ processes' = [j \in Key |-> IF j \in Expired THEN Absent ELSE processes[j]]
        /\ unsynced' = unsynced \ Expired
        /\ trav'.todo = DeadKeys([j \in Key |-> IF j \in Expired THEN Absent ELSE mirror[j]])
    BY <1>11 DEF CollectTombstones, Acquire, NoTraversal
  <2>2. k \notin Expired
    BY DEF Expired
  <2>3. EntrySame(k)
    BY <2>1, <2>2 DEF EntrySame
  <2>4. k \notin trav'.todo
    <3>1. life[k] = "unborn" => ~Live(mirror[k])
      BY DEF UnbornInv, Live
    <3> QED BY <1>3, <2>1, <2>2, <3>1 DEF DeadKeys
  <2>5. Waiting(k) => Waiting(k)'
    BY <2>1 DEF Waiting, Deciding, Up
  <2> QED BY <1>4, <2>1, <2>3, <2>4, <2>5 DEF DaemonDoes, DaemonElsewhere, Handling
<1>12. ASSUME NEW j \in Key, SweepDead(j) PROVE DaemonDoes(k)
  <2>1. /\ pc = "sweep" /\ j \in trav.todo /\ UpsertNow(j, TombstoneOf(mirror[j], Now))
        /\ trav' = [trav EXCEPT !.todo = trav.todo \ {j}]
        /\ UNCHANGED <<events, lost, generation, policy, pc, owner, job, boot>>
    BY <1>12 DEF SweepDead
  <2>2. k \notin trav.todo
    BY <2>1 DEF AliveInv, Living
  <2>3. EntrySame(k)
    BY <2>1, <2>2, UpsertNowCases
  <2>4. trav'.todo \subseteq trav.todo
    BY <2>1 DEF Traversal
  <2>5. Waiting(k) => Waiting(k)'
    BY <2>1 DEF Waiting, Deciding, Up
  <2> QED BY <1>4, <2>1, <2>3, <2>4, <2>5 DEF DaemonDoes, DaemonElsewhere, Handling
<1>13. CASE SweepDone
  <2>1. /\ pc = "sweep" /\ trav.todo = {} /\ owner = "events"
        /\ UNCHANGED <<events, lost, generation, policy, job, boot, mirror, processes, notified,
                       unsynced>>
        /\ pc' = "refresh" \/ (pc' = "free" /\ owner' = "none")
    BY <1>13 DEF SweepDone, Release, OrderInv
  <2>2. Waiting(k) => Waiting(k)'
    BY <2>1 DEF Waiting, Deciding, Up
  <2> QED BY <1>4, <1>5, <2>1, <2>2 DEF DaemonDoes, DaemonElsewhere, Handling
<1>14. CASE ForeignEvent
  <2>1. UNCHANGED <<events, lost, mirror, processes, notified, unsynced, generation, policy, pc,
                    owner, job, trav, boot>>
    BY <1>14 DEF ForeignEvent, kvars
  <2>2. (Waiting(k) => Waiting(k)') /\ (Deciding' => Deciding)
    BY <2>1 DEF Waiting, Deciding, Up
  <2> QED BY <1>4, <1>5, <2>1, <2>2 DEF DaemonDoes, DaemonElsewhere
<1>15. CASE Refresh
  <2>1. /\ mirror' = [j \in Key |-> MergeKernelEntry(j)] /\ lost' = {}
        /\ pc = "refresh" /\ pc' = "repair"
        /\ UNCHANGED <<events, processes, generation, policy, boot, notified, unsynced>>
    BY <1>15 DEF Refresh
  <2>2. About(k)' = About(k) /\ (ForkFirst(k) => ForkFirst(k)')
    BY <2>1 DEF About, ForkFirst
  <2> QED BY <2>1, <2>2 DEF DaemonDoes, Refreshed, PolicySame
<1>16. CASE RepairAndList
  <2>1. /\ pc = "repair" /\ pc' = "walk" /\ unsynced' \subseteq unsynced
        /\ processes' = [j \in Key |-> Repaired(j)]
        /\ trav'.todo = {j \in Key : Visible(j)} /\ trav'.comm = comm
        /\ UNCHANGED <<events, lost, mirror, generation, policy, boot, notified>>
    BY <1>16 DEF RepairAndList
  <2>2. processes'[k] \in {mirror[k], processes[k]}
    BY <2>1 DEF Repaired
  <2>3. life[k] = "running" => k \in trav'.todo
    BY <2>1 DEF Visible
  <2> QED BY <1>4, <2>1, <2>2, <2>3 DEF DaemonDoes, Listed, PolicySame
<1>17. ASSUME NEW j \in Key, ListMiss(j) PROVE DaemonDoes(k)
  <2>1. /\ pc = "walk" /\ j \in trav.todo /\ ~Visible(j)
        /\ trav' = [trav EXCEPT !.todo = trav.todo \ {j}, !.listed = trav.listed \ {j}]
        /\ UNCHANGED <<events, lost, mirror, processes, notified, unsynced, generation, policy, pc,
                       owner, job, boot>>
    BY <1>17 DEF ListMiss, kvars
  <2>2. j # k
    BY <1>3, <2>1 DEF UnbornInv
  <2>3. trav'.todo = trav.todo \ {j} /\ trav'.comm = trav.comm
    BY <2>1 DEF Traversal
  <2>4. (Waiting(k) => Waiting(k)') /\ (Deciding' => Deciding)
    BY <2>1, <2>2, <2>3 DEF Waiting, Deciding, Up
  <2> QED BY <1>4, <1>5, <2>1, <2>3, <2>4 DEF DaemonDoes, DaemonElsewhere
<1>18. ASSUME NEW j \in Key, Walk(j) \/ WalkOrphan(j) PROVE DaemonDoes(k)
  <2>1. \E p \in Entry : Visit(j, p)
    <3>1. CASE Walk(j)
      <4>1. trav.parent[j] \in Key \cup {Foreign} /\ trav.value \in [Key -> Entry]
        BY DEF Traversal
      <4>2. Lookup(trav.value, trav.parent[j]) \in Entry
        BY <4>1, LookupType
      <4> QED BY <3>1, <4>2 DEF Walk
    <3>2. CASE WalkOrphan(j)
      <4>1. trav.listed \subseteq Key
        BY DEF Traversal
      <4>2. PICK p : p = IF trav.parent[j] \in trav.listed THEN mirror[trav.parent[j]]
                         ELSE Absent
        OBVIOUS
      <4>3. p \in Entry
        BY <4>1, <4>2 DEF MapsOK, Entry
      <4> QED BY <3>2, <4>2, <4>3 DEF WalkOrphan
    <3> QED BY <1>18, <3>1, <3>2
  <2>2. PICK p \in Entry : Visit(j, p)
    BY <2>1
  <2>3. pc = "walk" /\ j \in trav.todo
    BY <1>18 DEF Walk, WalkOrphan
  <2>4. /\ UpsertNow(j, WalkValue(j, p))
        /\ trav' = [trav EXCEPT !.todo = trav.todo \ {j}, !.value[j] = WalkValue(j, p)]
        /\ UNCHANGED <<events, lost, generation, policy, pc, owner, job, boot>>
    BY <2>2 DEF Visit
  <2>5. trav'.todo = trav.todo \ {j} /\ trav'.comm = trav.comm
    BY <2>4 DEF Traversal
  <2>6. CASE j # k
    <3>1. EntrySame(k)
      BY <2>4, <2>6, UpsertNowCases
    <3>2. (Waiting(k) => Waiting(k)') /\ (Deciding' => Deciding)
      BY <2>4, <2>5, <2>6 DEF Waiting, Deciding, Up
    <3> QED BY <1>4, <2>3, <2>4, <2>5, <3>1, <3>2 DEF DaemonDoes, DaemonElsewhere
  <2>7. CASE j = k
    <3>1. UpsertedNow(k, WalkValue(k, p))
      BY <2>4, <2>7, UpsertNowCases
    <3> QED BY <1>4, <2>3, <2>4, <2>5, <2>7, <3>1 DEF DaemonDoes, Visited, PolicySame
  <2> QED BY <2>6, <2>7
<1>19. CASE TraversalDone
  <2>1. /\ pc = "walk" /\ trav.todo = {} /\ pc' = "free" /\ owner' = "none"
        /\ boot' = IF owner = "run" THEN NextBoot ELSE boot
        /\ UNCHANGED <<events, lost, mirror, processes, generation, policy, job, notified, unsynced>>
    BY <1>19 DEF TraversalDone, Release
  <2>2. boot' = "steady" => boot = "steady"
    BY <2>1 DEF NextBoot
  <2>3. Waiting(k) => Waiting(k)'
    BY <2>1 DEF Waiting, Deciding, Up, NextBoot, OrderInv
  <2> QED BY <1>4, <1>5, <2>1, <2>2, <2>3 DEF DaemonDoes, DaemonElsewhere, Handling
<1>20. CASE RunTraverse \/ ForceProcessTraversal
  <2>1. /\ pc = "free" /\ pc' = "refresh"
        /\ UNCHANGED <<events, lost, mirror, processes, generation, policy, boot, notified, unsynced>>
    BY <1>20 DEF RunTraverse, ForceProcessTraversal, Acquire, kvars
  <2>2. Waiting(k)'
    BY <2>1 DEF Waiting
  <2> QED BY <1>4, <1>5, <2>1, <2>2 DEF DaemonDoes, DaemonElsewhere, Handling
<1>21. CASE RunAttach
  <2>1. /\ boot \in {"attachFork", "attachExit", "attachExec"}
        /\ boot' \in {"attachExit", "attachExec", "second"}
        /\ UNCHANGED <<events, lost, mirror, processes, generation, policy, pc, owner, job, trav,
                       notified, unsynced>>
    BY <1>21 DEF RunAttach, Attach
  <2>2. ~Deciding'
    BY <2>1 DEF Deciding, Up, OrderInv
  <2>3. Waiting(k)'
    BY <2>2 DEF Waiting
  <2> QED BY <1>4, <1>5, <2>1, <2>2, <2>3 DEF DaemonDoes, DaemonElsewhere
<1>22. ASSUME NEW p \in Policies, SetPolicy(p) PROVE DaemonDoes(k)
  <2>1. /\ generation' = generation + 1 /\ pc = "free" /\ pc' = "refresh"
        /\ UNCHANGED <<events, lost, mirror, processes, notified, unsynced>>
    BY <1>22 DEF SetPolicy, Acquire
  <2> QED BY <1>4, <1>5, <2>1 DEF DaemonDoes, PolicySet
<1>23. CASE UpdateHooks
  <2>1. /\ notified' = [j \in Key |-> IF Live(mirror[j]) THEN mirror[j] ELSE Absent]
        /\ pc = "free"
        /\ UNCHANGED <<events, lost, mirror, processes, generation, policy, pc, owner, job, trav,
                       boot, unsynced>>
    BY <1>23 DEF UpdateHooks
  <2> QED BY <1>4, <2>1 DEF DaemonDoes, Hooked
<1> QED BY <1>7, <1>8, <1>9, <1>10, <1>11, <1>12, <1>13, <1>14, <1>15, <1>16, <1>17, <1>18,
           <1>19, <1>20, <1>21, <1>22, <1>23
        DEF DaemonNext, EventLoopStep, TraversalStep, RefreshAbort, RunStep, ApiStep

-----------------------------------------------------------------------------
(* Processes that have not ended *)

(* The values that the daemon makes are live, and explicit only if the      *)
(* check matches.                                                           *)
LEMMA NewValueMarks ==
  ASSUME TypeOK
  PROVE  /\ \A j \in Job : j.key \in Key =>
              /\ ~Tombstone(ForkValue(j)) /\ ~Tombstone(ExecValue(j))
              /\ policy.check[j.comm] = NoMatch =>
                   ~Explicit(ForkValue(j)) /\ ~Explicit(ExecValue(j))
         /\ \A k \in Key, p \in Entry :
              /\ ~Tombstone(WalkValue(k, p))
              /\ policy.check[trav.comm[k]] = NoMatch => ~Explicit(WalkValue(k, p))
<1> MapsOK
  BY TypeFacts
<1>1. ASSUME NEW d, NEW g, NEW t PROVE ~Tombstone(NewProcessValue(d, g, t))
  BY DEF Tombstone, NewProcessValue
<1>2. ASSUME NEW v, NEW g, NEW t
      PROVE  ~Tombstone(NewNoMarkProcessValue(v, g, t)) /\ ~Explicit(NewNoMarkProcessValue(v, g, t))
  BY DEF Tombstone, Explicit, CanInherit, NewNoMarkProcessValue
<1>3. ASSUME NEW v \in ProcessValue, NEW g, NEW t
      PROVE  ~Tombstone(InheritedValue(v, g, t)) /\ ~Explicit(InheritedValue(v, g, t))
  BY DEF Tombstone, Explicit, CanInherit, InheritedValue, ProcessValue
<1>4. ~Tombstone(Absent) /\ ~Explicit(Absent)
  BY DEF Tombstone, Explicit, CanInherit, Live
<1>5. ASSUME NEW j \in Job, j.key \in Key
      PROVE  /\ ~Tombstone(ForkValue(j)) /\ ~Tombstone(ExecValue(j))
             /\ policy.check[j.comm] = NoMatch =>
                  ~Explicit(ForkValue(j)) /\ ~Explicit(ExecValue(j))
  <2>1. Lookup(mirror, j.parentKey) \in Entry
    BY LookupType DEF MapsOK, Job
  <2>2. CanInherit(Lookup(mirror, j.parentKey)) => Lookup(mirror, j.parentKey) \in ProcessValue
    BY <2>1, CanInheritFacts
  <2> QED BY <1>1, <1>2, <1>3, <1>4, <2>2 DEF ForkValue, ExecValue
<1>6. ASSUME NEW k \in Key, NEW p \in Entry
      PROVE  /\ ~Tombstone(WalkValue(k, p))
             /\ policy.check[trav.comm[k]] = NoMatch => ~Explicit(WalkValue(k, p))
  <2>1. CanInheritCurrent(p) => p \in ProcessValue
    BY CanInheritFacts DEF CanInheritCurrent
  <2> QED BY <1>1, <1>2, <1>3, <1>4, <2>1 DEF WalkValue
<1> QED BY <1>5, <1>6

(* An upsert leaves one of the two values. *)
LEMMA UpsertedEntry ==
  ASSUME MapsOK, NEW k \in Key, NEW v, v # Absent => v \in ProcessValue,
         (v # Absent /\ Upserted(k, v)) \/ UpsertedNow(k, v)
  PROVE  /\ mirror'[k] \in {mirror[k], v} /\ processes'[k] \in {processes[k], Absent, mirror'[k]}
         /\ mirror'[k] \in Entry
         /\ mirror[k] # Absent => mirror'[k] # Absent
         /\ mirror'[k] # mirror[k] => mirror'[k] = v /\ v # Absent
<1>1. mirror[k] \in Entry
  BY DEF MapsOK
<1>2. CASE v = Absent /\ EntrySame(k)
  BY <1>1, <1>2 DEF EntrySame
<1>3. CASE v # Absent /\ Upserted(k, v)
  <2>1. mirror'[k] \in {mirror[k], v} /\ mirror'[k] \in ProcessValue
    BY <1>1, <1>3, MergeEntryFacts DEF Upserted
  <2>2. processes'[k] \in {processes[k], Absent, mirror'[k]}
    BY <1>3 DEF Upserted, EntrySame
  <2> QED BY <1>3, <2>1, <2>2, AbsentAssumption DEF Entry
<1> QED BY <1>2, <1>3 DEF UpsertedNow

(* The kernel leaves a process without a tombstone until it exits. *)
LEMMA KernelLiving ==
  ASSUME IInv, UNCHANGED uvars, NEW k \in Key, KernelDoes(k), Living(k)
  PROVE  Living(k)'
<1> UNCHANGED <<mirror, pc, trav>> /\ processes[k] \in Entry
  BY DEF uvars, IInv, TypeOK, KernelTypeOK
<1>1. ASSUME NEW type, NEW found, NEW v, Told(type, k, found, v), type # "exit", ~Tombstone(v)
      PROVE  \A e \in About(k)' : e.type # "exit" /\ ~e.value.tombstone
  <2>1. ~ValueOf(v).tombstone
    BY <1>1 DEF ValueOf, ZeroValue, Tombstone
  <2> QED BY <1>1, <2>1 DEF Told, Living
<1>2. CASE KernelElsewhere(k)
  BY <1>2 DEF KernelElsewhere, Living, RingSame
<1>3. CASE Born(k)
  BY <1>3 DEF Born, Living, RingSame
<1>4. CASE Renamed(k)
  BY <1>4 DEF Renamed, Living, RingSame
<1>5. CASE LookedUp(k)
  BY <1>5 DEF LookedUp, Living, RingSame
<1>6. CASE ForkTold(k)
  <2>1. CASE processes'[k] = processes[k] /\ Told("fork", k, processes[k], processes[k])
    BY <1>1, <1>6, <2>1 DEF ForkTold, Living
  <2>2. ASSUME NEW t, NEW copy, copy = ForkCopy(bpf[k].seen, t), bpf[k].stage = "fork",
               \/ processes'[k] = copy /\ Told("fork", k, copy, copy)
               \/ processes'[k] = Absent /\ Told("fork", k, Absent, copy)
        PROVE  Living(k)'
    <3>1. bpf[k].seen \in ProcessValue
      BY <2>2 DEF IInv, HandsOK
    <3>2. ~Tombstone(copy) /\ ~Tombstone(Absent)
      BY <2>2, <3>1 DEF Tombstone, ForkCopy, InheritedValue, ProcessValue
    <3> QED BY <1>1, <1>6, <2>2, <3>2 DEF ForkTold, Living
  <2> QED BY <1>6, <2>1, <2>2 DEF ForkTold
<1>7. CASE ExecTold(k)
  <2>1. PICK v \in Entry :
         /\ Told("exec", k, v, v)
         /\ \/ /\ processes'[k] = processes[k]
               /\ v = processes[k] \/ (bpf[k].stage = "exec" /\ v = bpf[k].seen)
            \/ processes'[k] = v /\ v # Absent /\ ~v.tombstone
    BY <1>7 DEF ExecTold
  <2>2. ~Tombstone(v) /\ ~Tombstone(processes'[k])
    BY <2>1 DEF Living, Tombstone
  <2> QED BY <1>1, <1>7, <2>1, <2>2 DEF ExecTold, Living
<1>8. CASE Unnoticed(k)
  BY <1>8 DEF Unnoticed, Living, RingSame
<1> QED BY <1>2, <1>3, <1>4, <1>5, <1>6, <1>7, <1>8 DEF KernelDoes

(* So does the daemon. *)
LEMMA DaemonLiving ==
  ASSUME IInv, UNCHANGED bpf, NEW k \in Key, DaemonDoes(k), Living(k)
  PROVE  Living(k)'
<1> TypeOK /\ HandsOK /\ MapsOK
  BY TypeFacts DEF IInv
<1> mirror[k] \in Entry /\ processes[k] \in Entry /\ job \in Job
  BY DEF MapsOK, TypeOK, MarkerTypeOK
<1>1. ASSUME About(k)' \subseteq About(k), pc' # "sweep",
             ~Tombstone(mirror'[k]), ~Tombstone(processes'[k])
      PROVE  Living(k)'
  BY <1>1 DEF Living
<1>2. ~Tombstone(Absent) /\ ~Tombstone(mirror[k]) /\ ~Tombstone(processes[k])
  BY DEF Tombstone, Living
<1>3. RingSame(k) => About(k)' \subseteq About(k)
  BY DEF RingSame
<1>4. ASSUME NEW v, v # Absent => v \in ProcessValue, ~Tombstone(v),
             (v # Absent /\ Upserted(k, v)) \/ UpsertedNow(k, v)
      PROVE  ~Tombstone(mirror'[k]) /\ ~Tombstone(processes'[k])
  BY <1>2, <1>4, UpsertedEntry
<1>5. CASE DaemonElsewhere(k)
  BY <1>5 DEF DaemonElsewhere, EntrySame, RingSame, Living
<1>6. CASE PolicySet(k)
  BY <1>1, <1>2, <1>3, <1>6 DEF PolicySet, EntrySame
<1>7. CASE ForkTaken(k)
  <2>1. PICK e \in Event :
        /\ Taken(k, e) /\ pc' = "fork"
        /\ \/ Upserted(k, e.value)
           \/ processes'[k] \in {Absent, mirror[k]} /\ mirror'[k] = mirror[k]
           \/ EntrySame(k)
    BY <1>7 DEF ForkTaken
  <2>2. e.value \in ProcessValue /\ ~Tombstone(e.value) /\ About(k)' \subseteq About(k)
    BY <2>1 DEF Event, Taken, Living, Tombstone
  <2> QED BY <1>1, <1>2, <1>4, <2>1, <2>2, AbsentAssumption DEF EntrySame
<1>8. CASE ExecTaken(k)
  <2>1. PICK e \in Event :
        /\ Taken(k, e) /\ pc' = "exec"
        /\ mirror'[k] = mirror[k] \/ mirror'[k] = MergeEntry(mirror[k], e.value)
        /\ processes'[k] \in {processes[k], Absent, mirror'[k]}
    BY <1>8 DEF ExecTaken
  <2>2. e.value \in ProcessValue /\ ~Tombstone(e.value) /\ About(k)' \subseteq About(k)
    BY <2>1 DEF Event, Taken, Living, Tombstone
  <2>3. ~Tombstone(mirror'[k])
    BY <1>2, <2>1, <2>2, MergeEntryFacts
  <2> QED BY <1>1, <1>2, <2>1, <2>2, <2>3
<1>9. CASE EventDecided(k)
  <2>1. PICK v \in {ForkValue(job), ExecValue(job)} : UpsertedNow(k, v)
    BY <1>9 DEF EventDecided
  <2>2. v \in Entry /\ ~Tombstone(v)
    BY <1>9, <2>1, CandidateTypes, NewValueMarks DEF EventDecided
  <2> QED BY <1>1, <1>3, <1>4, <1>9, <2>1, <2>2 DEF EventDecided, Entry
<1>10. CASE Visited(k)
  <2>1. PICK p \in Entry : UpsertedNow(k, WalkValue(k, p))
    BY <1>10 DEF Visited
  <2>2. WalkValue(k, p) \in Entry /\ ~Tombstone(WalkValue(k, p))
    BY CandidateTypes, NewValueMarks
  <2> QED BY <1>1, <1>3, <1>4, <1>10, <2>1, <2>2 DEF Visited, Entry
<1>11. CASE Refreshed(k)
  <2>1. ~Tombstone(MergeKernelEntry(k))
    BY <1>2, MergeEntryFacts DEF MergeKernelEntry, Entry
  <2> QED BY <1>1, <1>2, <1>11, <2>1 DEF Refreshed
<1>12. CASE Listed(k)
  BY <1>1, <1>2, <1>3, <1>12 DEF Listed
<1>13. CASE Hooked(k)
  BY <1>1, <1>2, <1>3, <1>13 DEF Hooked
<1> QED BY <1>5, <1>6, <1>7, <1>8, <1>9, <1>10, <1>11, <1>12, <1>13 DEF DaemonDoes

(* With LeaderExits = FALSE no process runs on without its leader. *)
LEMMA LeaderStays ==
  ASSUME IInv, LeaderExits = FALSE, [Next]_vars, NEW k \in Key, life[k] # "leaderless"
  PROVE  life'[k] # "leaderless"
<1> life \in [Key -> Life]
  BY DEF IInv, TypeOK, KernelTypeOK
<1>1. ASSUME NEW j \in Key, NEW l, life' = [life EXCEPT ![j] = l], l # "leaderless"
      PROVE  life'[k] # "leaderless"
  BY <1>1
<1>2. CASE UNCHANGED life
  BY <1>2
<1>3. CASE KernelNext
  <2>1. ASSUME NEW c \in Key, NEW p, NEW pk, Clone(p, c, pk) PROVE life'[k] # "leaderless"
    BY <1>1, <2>1 DEF Clone
  <2>2. ASSUME NEW j \in Key, NEW c, Execve(j, c) PROVE life'[k] # "leaderless"
    BY <1>1, <2>2 DEF Execve
  <2>3. ASSUME NEW j \in Key, NEW others \in BOOLEAN, ExitCommit(j, others)
        PROVE  life'[k] # "leaderless"
    BY <1>1, <2>3 DEF ExitCommit, Die
  <2>4. ASSUME NEW j \in Key, LastThreadExit(j) \/ Reap(j) \/ UnobservedStep(j)
        PROVE  life'[k] # "leaderless"
    BY <1>1, <1>2, <2>4 DEF LastThreadExit, Reap, UnobservedStep, Unobserved, Die
  <2>5. ASSUME NEW j \in Key, ForkLookup(j) \/ ForkCommit(j) \/ ExecLookup(j) \/ ExecCommit(j)
                              \/ ExitLookup(j)
        PROVE  life'[k] # "leaderless"
    <3>1. UNCHANGED life
      BY <2>5 DEF ForkLookup, ForkCommit, ExecLookup, ExecCommit, ExitLookup
    <3> QED BY <1>2, <3>1
  <2> QED BY <1>3, <2>1, <2>2, <2>3, <2>4, <2>5 DEF KernelNext
<1>4. CASE Tick \/ DaemonNext \/ UNCHANGED vars
  <2>1. UNCHANGED life
    BY <1>4, DaemonFrame DEF Tick, vars, kvars
  <2> QED BY <1>2, <2>1
<1> QED BY <1>3, <1>4 DEF Next, KernelStep, TimePasses, DaemonNext

(* The part of the invariant that the three properties share. *)
BaseInv(P) == IInv /\ CInv /\ UnbornInv /\ AliveInv /\ OrderInv /\ ValueInv(P)

(* A step, seen from a process that has not ended after it. *)
LEMMA StepCases ==
  ASSUME AbortIteration = FALSE, ApiMarks = {}, LeaderExits = FALSE,
         NEW P, BaseInv(P), [Next]_vars, NEW k \in Key, ~Ended(k)'
  PROVE  /\ ~Ended(k) /\ Living(k)
         /\ \/ KernelDoes(k) /\ UNCHANGED uvars
            \/ DaemonDoes(k) /\ UNCHANGED <<life, comm, bpf>>
<1> IInv /\ LifeInv /\ ClockInv /\ UnbornInv /\ AliveInv /\ OrderInv
  BY DEF BaseInv, CInv
<1>1. life[k] # "leaderless"
  BY DEF AliveInv
<1>2. CASE (KernelNext \/ Tick) /\ UNCHANGED uvars
  <2>1. KernelDoes(k)
    BY <1>1, <1>2, KernelCases
  <2>2. ~Ended(k)
    BY <2>1 DEF KernelDoes, KernelElsewhere, Born, Renamed, LookedUp, ForkTold, ExecTold,
                Unnoticed, Ended
  <2> QED BY <1>2, <2>1, <2>2 DEF AliveInv
<1>3. CASE UNCHANGED vars
  <2>1. UNCHANGED <<life, comm, bpf, processes, events, lost>> /\ UNCHANGED uvars
    BY <1>3 DEF vars, kvars
  <2>2. RingSame(k) /\ ~Ended(k)
    BY <2>1 DEF RingSame, About, ForkFirst, Ended
  <2>3. KernelDoes(k)
    BY <2>1, <2>2 DEF KernelDoes, KernelElsewhere
  <2> QED BY <2>1, <2>2, <2>3 DEF AliveInv
<1>4. CASE DaemonNext
  <2>1. UNCHANGED <<life, comm, bpf>>
    BY <1>4, DaemonFrame
  <2>2. ~Ended(k)
    BY <2>1 DEF Ended
  <2>3. DaemonDoes(k)
    BY <1>4, <2>2, DaemonCases
  <2> QED BY <2>1, <2>2, <2>3 DEF AliveInv
<1> QED BY <1>2, <1>3, <1>4 DEF Next, KernelStep, TimePasses, DaemonNext

(* A stuttering step keeps the values. *)
LEMMA ValueStutter ==
  ASSUME NEW P, ValueInv(P), UNCHANGED vars
  PROVE  ValueInv(P)'
BY DEF vars, kvars, uvars, ValueInv, KernelSane, DaemonSane

(* The shared part is inductive. *)
LEMMA BaseStep ==
  ASSUME AbortIteration = FALSE, ApiMarks = {}, LeaderExits = FALSE,
         NEW P, BaseInv(P), [Next]_vars
  PROVE  BaseInv(P)'
<1> IInv /\ CInv /\ ClockInv /\ UnbornInv /\ AliveInv /\ OrderInv /\ ValueInv(P)
  BY DEF BaseInv, CInv
<1>1. IInv' /\ CInv' /\ UnbornInv' /\ OrderInv'
  BY IInvStep, CInvStep, UnbornStep, OrderStep
<1>2. AliveInv'
  <2> SUFFICES ASSUME NEW k \in Key PROVE life'[k] # "leaderless" /\ (~Ended(k)' => Living(k)')
    BY DEF AliveInv
  <2>1. life'[k] # "leaderless"
    BY LeaderStays DEF AliveInv
  <2>2. ASSUME ~Ended(k)' PROVE Living(k)'
    <3>1. /\ Living(k)
          /\ \/ KernelDoes(k) /\ UNCHANGED uvars
             \/ DaemonDoes(k) /\ UNCHANGED bpf
      BY <2>2, StepCases
    <3> QED BY <3>1, KernelLiving, DaemonLiving
  <2> QED BY <2>1, <2>2
<1>3. ValueInv(P)'
  <2>1. CASE (KernelNext \/ Tick) /\ UNCHANGED uvars
    BY <2>1, KernelValues
  <2>2. CASE UNCHANGED vars
    BY <2>2, ValueStutter
  <2>3. CASE DaemonNext
    BY <2>3, DaemonValues
  <2> QED BY <2>1, <2>2, <2>3 DEF Next, KernelStep, TimePasses, DaemonNext
<1> QED BY <1>1, <1>2, <1>3 DEF BaseInv

(* When the daemon starts there are no events. *)
LEMMA InitFacts ==
  ASSUME Init
  PROVE  /\ processes = [k \in Key |-> Absent] /\ mirror = [k \in Key |-> Absent]
         /\ notified = [k \in Key |-> Absent] /\ unsynced = {} /\ lost = {}
         /\ bpf = [k \in Key |-> Idle] /\ Idle.stage = "idle"
         /\ events = <<>> /\ Len(events) = 0 /\ \A k \in Key : About(k) = {}
         /\ pc = "free" /\ life \in [Key -> {"running", "unborn"}]
<1>1. /\ processes = [k \in Key |-> Absent] /\ mirror = [k \in Key |-> Absent]
      /\ notified = [k \in Key |-> Absent] /\ unsynced = {} /\ lost = {}
      /\ bpf = [k \in Key |-> Idle] /\ events = <<>>
      /\ pc = "free" /\ life \in [Key -> {"running", "unborn"}]
  BY DEF Init, FreshInit, BootedInit, KernelInit, MarkerInit
<1>2. Idle.stage = "idle" /\ Len(events) = 0
  BY <1>1, EmptySeq DEF Idle
<1>3. ASSUME NEW k \in Key PROVE About(k) = {}
  BY <1>2 DEF About
<1> QED BY <1>1, <1>2, <1>3

(* The shared part holds of them. *)
LEMMA BaseInit == ASSUME NEW P, Init PROVE BaseInv(P)
<1>1. IInv /\ CInv /\ OrderInv /\ ValueInv(P)
  BY IInvInit, CInvInit, OrderInit, ValueInvInit
<1>2. UnbornInv
  BY InitFacts DEF UnbornInv
<1>3. AliveInv
  BY InitFacts DEF AliveInv, Living, Tombstone
<1> QED BY <1>1, <1>2, <1>3 DEF BaseInv

-----------------------------------------------------------------------------
(* A match is enforced *)

(* The entry of a process that has not ended, next to a value made now. *)
LEMMA EntryFacts ==
  ASSUME NEW P, BaseInv(P), NEW k \in Key, ~Ended(k)
  PROVE  /\ mirror[k] \in Entry /\ processes[k] \in Entry
         /\ ~Tombstone(mirror[k]) /\ ~Tombstone(processes[k])
         /\ generation \in Nat /\ Now \in Nat
         /\ mirror[k] # Absent =>
              /\ mirror[k] \in ProcessValue
              /\ mirror[k].timestamp < Now /\ mirror[k].generation <= generation
              /\ OnePriority(P) => /\ mirror[k].priority <= P
                                   /\ mirror[k].hasMark => mirror[k].priority = P
<1> TypeOK /\ ClockInv /\ AliveInv /\ DaemonSane(P)
  BY DEF BaseInv, IInv, CInv, ValueInv
<1>1. mirror[k] \in Entry /\ processes[k] \in Entry /\ generation \in Nat /\ Now \in Nat
      /\ clock \in Nat
  BY TypeFacts DEF MapsOK
<1>2. ~Tombstone(mirror[k]) /\ ~Tombstone(processes[k])
  BY DEF AliveInv, Living
<1>3. ASSUME mirror[k] # Absent
      PROVE  /\ mirror[k] \in ProcessValue
             /\ mirror[k].timestamp < Now /\ mirror[k].generation <= generation
             /\ OnePriority(P) => /\ mirror[k].priority <= P
                                  /\ mirror[k].hasMark => mirror[k].priority = P
  <2>1. mirror[k] \in ProcessValue /\ mirror[k].timestamp \in Int
    BY <1>1, <1>3, ProcessValueFields DEF Entry
  <2>2. mirror[k].timestamp <= clock
    BY <1>3 DEF ClockInv, Stamped
  <2>3. mirror[k].timestamp < Now
    BY <1>1, <2>1, <2>2 DEF Now
  <2>4. Sane(mirror[k], P, generation)
    BY DEF DaemonSane, SaneMap
  <2> QED BY <1>3, <2>1, <2>3, <2>4 DEF Sane
<1> QED BY <1>1, <1>2, <1>3

(* An explicit match replaces whatever the process has. *)
LEMMA MatchWins ==
  ASSUME NEW P, OnePriority(P), BaseInv(P), NEW k \in Key, ~Ended(k),
         NEW c \in Comm, policy.check[c] # NoMatch
  PROVE  LET v == NewProcessValue(policy.check[c], generation, Now)
         IN  v \in ProcessValue /\ MergeEntry(mirror[k], v) = v /\ v # mirror[k]
<1>1. PICK d : d = policy.check[c]
  OBVIOUS
<1>2. d \in Decision /\ d.priority = P /\ P \in Int
  <2>1. d \in Decision \cup {NoMatch}
    BY <1>1, CheckType DEF BaseInv, IInv
  <2>2. d.priority = P
    BY <1>1 DEF BaseInv, ValueInv, DaemonSane, SaneTable
  <2> QED BY <1>1, <2>1, <2>2 DEF OnePriority
<1>3. PICK v : v = NewProcessValue(d, generation, Now)
  OBVIOUS
<1>4. /\ v \in ProcessValue /\ v.tombstone = FALSE /\ v.inheritance = TRUE
      /\ v.priority = P /\ v.generation = generation /\ v.timestamp = Now
  BY <1>2, <1>3, EntryFacts, ExplicitType DEF NewProcessValue, Decision
<1>5. mirror[k] # Absent =>
         /\ mirror[k].generation <= v.generation /\ mirror[k].timestamp < v.timestamp
         /\ \/ mirror[k].priority < v.priority
            \/ mirror[k].priority = v.priority /\ (v.inheritance \/ ~mirror[k].inheritance)
  <2> SUFFICES ASSUME mirror[k] # Absent
               PROVE  /\ mirror[k].generation <= v.generation /\ mirror[k].timestamp < v.timestamp
                      /\ \/ mirror[k].priority < v.priority
                         \/ mirror[k].priority = v.priority /\ v.inheritance
    OBVIOUS
  <2>1. /\ mirror[k] \in ProcessValue
        /\ mirror[k].timestamp < Now /\ mirror[k].generation <= generation
        /\ mirror[k].priority <= P
    BY EntryFacts
  <2>2. mirror[k].priority \in Int
    BY <2>1, ProcessValueFields
  <2>3. mirror[k].priority < P \/ mirror[k].priority = P
    BY <1>2, <2>1, <2>2
  <2> QED BY <1>4, <2>1, <2>3
<1>6. mirror[k] \in Entry /\ ~Tombstone(mirror[k])
  BY EntryFacts
<1>7. MergeEntry(mirror[k], v) = v /\ v # mirror[k]
  BY <1>4, <1>5, <1>6, NewerWins
<1> QED BY <1>1, <1>3, <1>4, <1>7

(* A program's event is one that the daemon will handle, or a drop that it  *)
(* knows nothing of.                                                        *)
LEMMA ToldFacts ==
  ASSUME NEW type, NEW k, NEW found, NEW v, Told(type, k, found, v)
  PROVE  /\ Queued(type, k)' \/ k \in lost'
         /\ k \in lost => k \in lost'
         /\ \A t : Queued(t, k) => Queued(t, k)'
         /\ \A t : t # type /\ Queued(t, k)' => Queued(t, k)
         /\ About(k) \subseteq About(k)'
BY DEF Told, Queued

(* The daemon decides with the name that a process has. *)
LEMMA CommStep ==
  ASSUME NEW P, BaseInv(P), NEW k \in Key, CommInv(k), Living(k),
         \/ KernelDoes(k) /\ UNCHANGED uvars
         \/ DaemonDoes(k) /\ UNCHANGED <<life, comm, bpf>>
  PROVE  CommInv(k)'
<1> OrderInv /\ UnbornInv
  BY DEF BaseInv
<1>1. CASE KernelDoes(k) /\ UNCHANGED uvars
  <2>1. (Handling(k)' <=> Handling(k)) /\ (Deciding' <=> Deciding) /\ UNCHANGED <<pc, job, trav>>
    BY <1>1 DEF uvars, Handling, Deciding, Up
  <2>2. ASSUME Later(k) => Later(k)', comm'[k] = comm[k], life'[k] = life[k] PROVE CommInv(k)'
    BY <2>1, <2>2 DEF CommInv
  <2>3. ASSUME Later(k)' PROVE CommInv(k)'
    BY <2>3 DEF CommInv
  <2>4. RingSame(k) => (Queued("exec", k)' <=> Queued("exec", k)) /\ (k \in lost' <=> k \in lost)
    BY DEF RingSame, Queued
  <2>5. CASE KernelElsewhere(k)
    BY <2>2, <2>4, <2>5 DEF KernelElsewhere, Later
  <2>6. CASE Born(k)
    <3>1. ~Handling(k) /\ ~(pc = "walk" /\ k \in trav.todo)
      BY <2>6 DEF Born, UnbornInv, Handling
    <3> QED BY <2>1, <3>1 DEF CommInv
  <2>7. CASE Renamed(k)
    BY <2>3, <2>7 DEF Renamed, Later
  <2>8. CASE LookedUp(k)
    BY <2>2, <2>4, <2>8 DEF LookedUp, Later
  <2>9. CASE ForkTold(k)
    <3>1. (Queued("exec", k) => Queued("exec", k)') /\ (k \in lost => k \in lost')
      BY <2>9, ToldFacts DEF ForkTold
    <3> QED BY <2>2, <2>9, <3>1 DEF ForkTold, Later
  <2>10. CASE ExecTold(k)
    BY <2>3, <2>10, ToldFacts DEF ExecTold, Later
  <2>11. CASE Unnoticed(k)
    <3>1. ~Deciding /\ ~Handling(k)
      BY <2>11 DEF Unnoticed, OrderInv, Deciding, Up, Handling, Program
    <3> QED BY <2>1, <3>1 DEF CommInv
  <2> QED BY <1>1, <2>5, <2>6, <2>7, <2>8, <2>9, <2>10, <2>11 DEF KernelDoes
<1>2. CASE DaemonDoes(k) /\ UNCHANGED <<life, comm, bpf>>
  <2>1. ASSUME ~Handling(k)', ~(pc' = "walk" /\ k \in trav'.todo) PROVE CommInv(k)'
    BY <2>1 DEF CommInv
  <2>2. ASSUME NEW e \in Event, pc' \in {"fork", "exec"}, job'.key = k,
               life[k] = "running" => job'.comm = comm[k]
        PROVE  CommInv(k)'
    BY <1>2, <2>2 DEF CommInv
  <2>3. CASE DaemonElsewhere(k)
    <3>1. Later(k)' <=> Later(k)
      BY <1>2, <2>3 DEF DaemonElsewhere, RingSame, Later, Queued
    <3> QED BY <1>2, <2>3, <3>1 DEF DaemonElsewhere, CommInv, Handling
  <2>4. CASE PolicySet(k)
    BY <2>1, <2>4 DEF PolicySet, Handling
  <2>5. CASE ForkTaken(k)
    BY <2>2, <2>5 DEF ForkTaken
  <2>6. CASE ExecTaken(k)
    BY <2>2, <2>6 DEF ExecTaken
  <2>7. CASE EventDecided(k)
    BY <2>1, <2>7 DEF EventDecided, Handling
  <2>8. CASE Visited(k)
    BY <2>1, <2>8 DEF Visited, Handling
  <2>9. CASE Refreshed(k)
    BY <2>1, <2>9 DEF Refreshed, Handling
  <2>10. CASE Listed(k)
    BY <1>2, <2>10 DEF Listed, CommInv, Handling
  <2>11. CASE Hooked(k)
    BY <2>1, <2>11 DEF Hooked, Handling
  <2> QED BY <1>2, <2>3, <2>4, <2>5, <2>6, <2>7, <2>8, <2>9, <2>10, <2>11 DEF DaemonDoes
<1> QED BY <1>1, <1>2

(* Whoever is not waited for has the mark that the check gives it. *)
LEMMA MatchStep ==
  ASSUME NEW P, OnePriority(P), BaseInv(P), NEW k \in Key, ~Ended(k), CommInv(k), MatchInv(k),
         \/ KernelDoes(k) /\ UNCHANGED uvars
         \/ DaemonDoes(k) /\ UNCHANGED <<life, comm, bpf>>
  PROVE  MatchInv(k)'
<1> OrderInv /\ UnbornInv /\ TypeOK /\ MapsOK
  BY TypeFacts DEF BaseInv, IInv
<1>1. ASSUME NEW c \in Comm, c = comm[k], UNCHANGED <<policy, generation>>,
             comm'[k] = comm[k], NEW v, mirror'[k] = MergeEntry(mirror[k], v),
             policy.check[c] # NoMatch => v = NewProcessValue(policy.check[c], generation, Now)
      PROVE  Decided(k)'
  <2> SUFFICES ASSUME policy.check[c] # NoMatch
               PROVE  /\ Explicit(mirror'[k])
                      /\ mirror'[k].mark = policy.check[c].mark
                      /\ mirror'[k].generation = generation
    BY <1>1 DEF Decided, Explicit, CanInherit, Live
  <2>1. mirror'[k] = v /\ v \in ProcessValue
    BY <1>1, MatchWins
  <2>2. /\ v.tombstone = FALSE /\ v.hasMark = TRUE /\ v.inheritance = TRUE
        /\ v.mark = policy.check[c].mark /\ v.generation = generation
    BY <1>1 DEF NewProcessValue
  <2> QED BY <2>1, <2>2, AbsentAssumption DEF Explicit, CanInherit, Live
<1>2. comm[k] \in Comm
  BY DEF TypeOK, KernelTypeOK
<1>3. CASE KernelDoes(k) /\ UNCHANGED uvars
  <2>1. (Handling(k)' <=> Handling(k)) /\ (Waiting(k)' <=> Waiting(k))
        /\ UNCHANGED <<mirror, policy, generation>>
    BY <1>3 DEF uvars, Handling, Waiting, Deciding, Up
  <2>2. ASSUME Undecided(k) => Undecided(k)', comm'[k] = comm[k], life'[k] = life[k]
        PROVE  MatchInv(k)'
    BY <2>1, <2>2 DEF MatchInv, Decided, Explicit, CanInherit, Live
  <2>3. ASSUME Undecided(k)' PROVE MatchInv(k)'
    BY <2>3 DEF MatchInv
  <2>4. RingSame(k) => /\ Queued("exec", k)' <=> Queued("exec", k)
                       /\ Queued("fork", k)' <=> Queued("fork", k)
                       /\ k \in lost' <=> k \in lost
    BY DEF RingSame, Queued
  <2>5. CASE KernelElsewhere(k)
    BY <2>1, <2>2, <2>4, <2>5 DEF KernelElsewhere, Later, Undecided
  <2>6. CASE Born(k)
    BY <2>3, <2>6 DEF Born, Undecided
  <2>7. CASE Renamed(k)
    BY <2>3, <2>7 DEF Renamed, Later, Undecided
  <2>8. CASE LookedUp(k)
    BY <2>1, <2>2, <2>4, <2>8 DEF LookedUp, Later, Undecided
  <2>9. CASE ForkTold(k)
    BY <2>3, <2>9, ToldFacts DEF ForkTold, Later, Undecided
  <2>10. CASE ExecTold(k)
    BY <2>3, <2>10, ToldFacts DEF ExecTold, Later, Undecided
  <2>11. CASE Unnoticed(k)
    <3>1. ~Deciding
      BY <2>11 DEF Unnoticed, OrderInv, Deciding, Up, Program
    <3> QED BY <2>1, <2>3, <3>1 DEF Waiting, Undecided
  <2> QED BY <1>3, <2>5, <2>6, <2>7, <2>8, <2>9, <2>10, <2>11 DEF KernelDoes
<1>4. CASE DaemonDoes(k) /\ UNCHANGED <<life, comm, bpf>>
  <2>1. ASSUME Undecided(k)' PROVE MatchInv(k)'
    BY <2>1 DEF MatchInv
  <2>2. ASSUME Undecided(k) => Undecided(k)', mirror'[k] = mirror[k],
               UNCHANGED <<policy, generation>>
        PROVE  MatchInv(k)'
    BY <1>4, <2>2 DEF MatchInv, Decided, Explicit, CanInherit, Live
  <2>3. RingSame(k) => (Later(k)' <=> Later(k)) /\ (Queued("fork", k)' <=> Queued("fork", k))
    BY <1>4 DEF RingSame, Queued, Later
  <2>4. CASE DaemonElsewhere(k)
    <3>1. Handling(k) => Handling(k)'
      BY <2>4 DEF DaemonElsewhere, Handling
    <3> QED BY <1>4, <2>2, <2>3, <2>4, <3>1 DEF DaemonElsewhere, EntrySame, Undecided
  <2>5. CASE PolicySet(k)
    BY <2>1, <2>5 DEF PolicySet, Undecided, Waiting
  <2>6. CASE ForkTaken(k) \/ ExecTaken(k)
    BY <2>1, <2>6 DEF ForkTaken, ExecTaken, Undecided, Handling
  <2>7. CASE EventDecided(k)
    <3> SUFFICES ASSUME life[k] = "running", ~Undecided(k)' PROVE Decided(k)'
      BY <1>4 DEF MatchInv
    <3>1. job.comm = comm[k]
      <4>1. ~Later(k) /\ Handling(k)
        BY <2>3, <2>7 DEF EventDecided, Undecided, Handling
      <4> QED BY <4>1 DEF CommInv
    <3>2. UNCHANGED <<policy, generation>> /\ comm'[k] = comm[k]
      BY <1>4, <2>7 DEF EventDecided, PolicySame
    <3>3. PICK v \in {ForkValue(job), ExecValue(job)} : UpsertedNow(k, v)
      BY <2>7 DEF EventDecided
    <3>4. policy.check[comm[k]] # NoMatch =>
             v = NewProcessValue(policy.check[comm[k]], generation, Now)
      BY <3>1, <3>3 DEF ForkValue, ExecValue
    <3>5. CASE policy.check[comm[k]] = NoMatch
      BY <3>2, <3>5 DEF Decided
    <3>6. CASE policy.check[comm[k]] # NoMatch
      <4>1. v # Absent
        BY <1>2, <3>4, <3>6, MatchWins, AbsentAssumption
      <4>2. mirror'[k] = MergeEntry(mirror[k], v)
        BY <3>3, <4>1 DEF UpsertedNow, Upserted
      <4> QED BY <1>1, <1>2, <3>2, <3>4, <4>2
    <3> QED BY <3>5, <3>6
  <2>8. CASE Visited(k)
    <3> SUFFICES ASSUME life[k] = "running", ~Undecided(k)' PROVE Decided(k)'
      BY <1>4 DEF MatchInv
    <3>1. trav.comm[k] = comm[k]
      <4>1. ~Later(k) /\ ~Waiting(k)'
        BY <2>3, <2>8 DEF Visited, Undecided
      <4>2. Deciding
        BY <2>8, <4>1 DEF Visited, PolicySame, Waiting, Deciding, Up
      <4> QED BY <2>8, <4>1, <4>2 DEF CommInv, Visited
    <3>2. UNCHANGED <<policy, generation>> /\ comm'[k] = comm[k]
      BY <1>4, <2>8 DEF Visited, PolicySame
    <3>3. PICK p \in Entry : UpsertedNow(k, WalkValue(k, p))
      BY <2>8 DEF Visited
    <3>4. PICK v : v = WalkValue(k, p)
      OBVIOUS
    <3>5. policy.check[comm[k]] # NoMatch =>
             v = NewProcessValue(policy.check[comm[k]], generation, Now)
      BY <3>1, <3>4 DEF WalkValue
    <3>6. CASE policy.check[comm[k]] = NoMatch
      BY <3>2, <3>6 DEF Decided
    <3>7. CASE policy.check[comm[k]] # NoMatch
      <4>1. v # Absent
        BY <1>2, <3>5, <3>7, MatchWins, AbsentAssumption
      <4>2. mirror'[k] = MergeEntry(mirror[k], v)
        BY <3>3, <3>4, <4>1 DEF UpsertedNow, Upserted
      <4> QED BY <1>1, <1>2, <3>2, <3>5, <4>2
    <3> QED BY <3>6, <3>7
  <2>9. CASE Refreshed(k)
    BY <2>1, <2>9 DEF Refreshed, Undecided, Waiting
  <2>10. CASE Listed(k)
    <3> SUFFICES ASSUME life[k] = "running" PROVE Undecided(k)'
      BY <1>4, <2>1 DEF MatchInv
    <3> QED BY <2>10 DEF Listed, Undecided, Waiting
  <2>11. CASE Hooked(k)
    <3>1. Undecided(k) => Undecided(k)'
      BY <1>4, <2>3, <2>11 DEF Hooked, Undecided, Handling, Waiting, Deciding, Up
    <3> QED BY <2>2, <2>11, <3>1 DEF Hooked
  <2> QED BY <1>4, <2>4, <2>5, <2>6, <2>7, <2>8, <2>9, <2>10, <2>11 DEF DaemonDoes
<1> QED BY <1>3, <1>4

(* MatchEnforced: when nothing about a running process is under way, a      *)
(* process that the check matches has exactly that explicit mark, at the    *)
(* current generation, although its forks and execs race with policy        *)
(* switches, traversals and the start of the daemon and events are dropped. *)
(* Assumed: one priority for all rules, an iteration of the kernel map that *)
(* does not fail, no SetProcessMark and no leader that exits before its     *)
(* threads; without any one of the four TLC finds a counterexample.         *)
THEOREM MatchIsEnforced ==
  ASSUME AbortIteration = FALSE, ApiMarks = {}, LeaderExits = FALSE,
         NEW CONSTANT P, OnePriority(P)
  PROVE  Spec => []MatchEnforced
<1> DEFINE Inv == BaseInv(P) /\ \A k \in Key : ~Ended(k) => CommInv(k) /\ MatchInv(k)
<1>1. Init => Inv
  <2> SUFFICES ASSUME Init PROVE BaseInv(P) /\ \A k \in Key : CommInv(k) /\ MatchInv(k)
    OBVIOUS
  <2>0. BaseInv(P)
    BY BaseInit
  <2> SUFFICES ASSUME NEW k \in Key PROVE CommInv(k) /\ MatchInv(k)
    BY <2>0
  <2>1. CommInv(k)
    BY InitFacts DEF CommInv, Handling
  <2>2. MatchInv(k)
    <3>1. CASE boot = "first" /\ owner = "none"
      BY <3>1 DEF MatchInv, Undecided, Waiting, Deciding, Up
    <3>2. CASE BootedInit /\ "booted" \in Starts
      <4>1. policy.check[comm[k]] = NoMatch
        BY <3>2, PMarkAssumption DEF BootedInit, KernelInit, MarkerInit
      <4> QED BY <4>1 DEF MatchInv, Decided
    <3> QED BY <3>1, <3>2 DEF Init, FreshInit, MarkerInit
  <2> QED BY <2>1, <2>2
<1>2. Inv /\ [Next]_vars => Inv'
  <2> SUFFICES ASSUME Inv, [Next]_vars PROVE Inv'
    OBVIOUS
  <2>1. BaseInv(P)'
    BY BaseStep
  <2>2. ASSUME NEW k \in Key, ~Ended(k)' PROVE CommInv(k)' /\ MatchInv(k)'
    <3>1. /\ ~Ended(k) /\ Living(k)
          /\ \/ KernelDoes(k) /\ UNCHANGED uvars
             \/ DaemonDoes(k) /\ UNCHANGED <<life, comm, bpf>>
      BY <2>2, StepCases
    <3>2. CommInv(k) /\ MatchInv(k)
      BY <3>1
    <3> QED BY <3>1, <3>2, CommStep, MatchStep
  <2> QED BY <2>1, <2>2
<1>3. Inv => MatchEnforced
  <2> SUFFICES ASSUME Inv, NEW k \in Key, Settled(k), life[k] = "running"
               PROVE  Decided(k)
    BY DEF MatchEnforced, Decided
  <2>1. /\ Up /\ pc = "free" /\ k \notin lost /\ bpf[k].stage = "idle"
        /\ \A i \in 1..Len(events) : events[i].key # k
    BY DEF Settled, Idle
  <2>2. About(k) = {}
    BY <2>1, AboutMember
  <2>3. ~Undecided(k) /\ ~Ended(k)
    BY <2>1, <2>2 DEF Undecided, Later, Handling, Waiting, Deciding, Queued, Ended
  <2> QED BY <2>3 DEF MatchInv
<1> QED BY <1>1, <1>2, <1>3, PTL DEF Spec

-----------------------------------------------------------------------------
(* What the other two properties add to the invariant *)

(* Until its fork is reported nothing is known of a process, and the fork's *)
(* event is handled before any other.                                       *)
FirstInv(k) ==
    /\ Newborn(k) => ~Handling(k) /\ About(k) = {}
    /\ ForkFirst(k)
    /\ Queued("fork", k) => ~Handling(k)

\* A Put that failed has left its value in the mirror.
UnsyncedInv(k) == k \in unsynced => mirror[k] # Absent

(* An exec is decided from the mirror's entry.  If there is none, and no    *)
(* later exec, the kernel has none either.                                  *)
JobInv(k) ==
    pc = "exec" /\ job.key = k =>
        /\ job.value = mirror[k]
        /\ mirror[k] = Absent /\ ~Queued("exec", k) /\ k \notin lost => processes[k] = Absent

OldMark(v, g) == Explicit(v) => v.generation < g

(* An explicit mark of a process that the check does not match dates from   *)
(* an earlier policy, wherever it is kept.                                  *)
MissInv(k) ==
    /\ life[k] = "running" /\ boot = "steady" /\ policy.check[comm[k]] = NoMatch
    /\ ~Later(k) /\ ~(pc = "exec" /\ job.key = k)
    => /\ OldMark(mirror[k], generation) /\ OldMark(processes[k], generation)
       /\ \A e \in About(k) : OldMark(e.value, generation)

\* The handling of an exec will tell the consumers.
Reporting(k) == Queued("exec", k) \/ (pc = "exec" /\ job.key = k)

\* A refresh does not change the mirror.
Dominated(k) ==
    \/ processes[k] = Absent
    \/ mirror[k] # Absent /\ MergeEntry(mirror[k], processes[k]) = mirror[k]

\* e reports v, a mark inherited by its process.
Reports(e, v) ==
    /\ e.type = "fork" /\ e.hasMark /\ e.value = v
    /\ v # Absent /\ v.hasMark /\ ~v.inheritance

(* What a refresh may bring into the mirror without the consumers' knowing  *)
(* is what a fork's event, or an exec's, will tell them.                    *)
DomInv(k) == Dominated(k) \/ Reporting(k) \/ \E e \in About(k) : Reports(e, processes[k])

\* The handling of the fork will tell the consumers.
Silent(k) ==
    \/ \E e \in About(k) : Reports(e, mirror[k])
    \/ /\ pc = "fork" /\ job.key = k /\ job.value = mirror[k]
       /\ mirror[k] # Absent /\ mirror[k].hasMark /\ ~mirror[k].inheritance

ConsInv(k) ==
    /\ mirror[k] = Absent => notified[k] = Absent
    /\ Reporting(k) \/ notified[k] = mirror[k] \/ Silent(k)

-----------------------------------------------------------------------------
(* Forks come first *)

(* A ring that is never full drops nothing. *)
LEMMA NothingLost ==
  ASSUME Lossy = FALSE, NEW k \in Key, k \notin lost,
         KernelDoes(k) \/ DaemonDoes(k)
  PROVE  k \notin lost'
<1>1. RingSame(k) => k \notin lost'
  BY DEF RingSame
<1>2. ASSUME NEW type, NEW found, NEW v, Told(type, k, found, v) PROVE k \notin lost'
  BY <1>2 DEF Told
<1>3. ASSUME NEW e, Taken(k, e) PROVE k \notin lost'
  BY <1>3 DEF Taken
<1>4. CASE ForkTold(k)
  BY <1>2, <1>4 DEF ForkTold
<1>5. CASE ExecTold(k)
  BY <1>2, <1>5 DEF ExecTold
<1>6. CASE KernelDoes(k) /\ ~ForkTold(k) /\ ~ExecTold(k)
  BY <1>1, <1>6 DEF KernelDoes, KernelElsewhere, Born, Renamed, LookedUp, Unnoticed
<1>7. CASE ForkTaken(k)
  BY <1>3, <1>7 DEF ForkTaken
<1>8. CASE ExecTaken(k)
  BY <1>3, <1>8 DEF ExecTaken
<1>9. CASE DaemonDoes(k) /\ ~ForkTaken(k) /\ ~ExecTaken(k)
  BY <1>1, <1>9 DEF DaemonDoes, DaemonElsewhere, PolicySet, EventDecided, Visited, Refreshed,
                    Listed, Hooked
<1> QED BY <1>4, <1>5, <1>6, <1>7, <1>8, <1>9

(* What a step of the kernel does to the events about k. *)
LEMMA KernelRing ==
  ASSUME NEW k \in Key, KernelDoes(k)
  PROVE  /\ About(k) \subseteq About(k)'
         /\ Queued("exec", k) => Queued("exec", k)'
         /\ ForkTold(k) \/ ExecTold(k) \/ RingSame(k)
<1>1. RingSame(k) => About(k) \subseteq About(k)'
  BY DEF RingSame
<1>2. ASSUME NEW type, NEW found, NEW v, Told(type, k, found, v) PROVE About(k) \subseteq About(k)'
  BY <1>2 DEF Told
<1>3. ForkTold(k) \/ ExecTold(k) \/ RingSame(k)
  BY DEF KernelDoes, KernelElsewhere, Born, Renamed, LookedUp, Unnoticed
<1>4. ForkTold(k) => About(k) \subseteq About(k)'
  BY <1>2 DEF ForkTold
<1>5. ExecTold(k) => About(k) \subseteq About(k)'
  BY <1>2 DEF ExecTold
<1> QED BY <1>1, <1>3, <1>4, <1>5 DEF Queued

(* And one of the daemon: it takes an event when it begins to handle it. *)
LEMMA DaemonRing ==
  ASSUME NEW k \in Key, DaemonDoes(k), UNCHANGED bpf
  PROVE  /\ About(k)' \subseteq About(k)
         /\ ForkFirst(k) => ForkFirst(k)'
         /\ ~ExecTaken(k) => (Queued("exec", k) => Queued("exec", k)')
         /\ ~ExecTaken(k) /\ ~ForkTaken(k) => About(k)' = About(k) /\ (Handling(k)' => Handling(k))
         /\ ExecTaken(k) \/ ForkTaken(k) => pc = "free" /\ About(k) # {}
         /\ (ExecTaken(k) \/ ForkTaken(k)) /\ ForkFirst(k) => ~Queued("fork", k)'
<1>1. RingSame(k) => About(k)' = About(k) /\ (ForkFirst(k) => ForkFirst(k)')
  BY DEF RingSame
<1>2. ASSUME NEW e, Taken(k, e)
      PROVE  /\ About(k)' \subseteq About(k) /\ About(k) # {} /\ (ForkFirst(k) => ForkFirst(k)')
             /\ ForkFirst(k) => ~Queued("fork", k)'
             /\ e.type # "exec" => (Queued("exec", k) => Queued("exec", k)')
  BY <1>2 DEF Taken, Queued
<1>3. CASE ForkTaken(k)
  <2>1. PICK e \in Event : Taken(k, e) /\ e.type = "fork" /\ pc = "free"
    BY <1>3 DEF ForkTaken
  <2> QED BY <1>2, <1>3, <2>1
<1>4. CASE ExecTaken(k)
  <2>1. PICK e \in Event : Taken(k, e) /\ pc = "free"
    BY <1>4 DEF ExecTaken
  <2> QED BY <1>2, <1>4, <2>1
<1>5. CASE ~ForkTaken(k) /\ ~ExecTaken(k)
  <2>1. About(k)' = About(k) /\ (ForkFirst(k) => ForkFirst(k)')
    BY <1>1, <1>5 DEF DaemonDoes, DaemonElsewhere, PolicySet, EventDecided, Visited, Refreshed,
                      Listed, Hooked
  <2>2. Handling(k)' => Handling(k)
    BY <1>5 DEF DaemonDoes, DaemonElsewhere, PolicySet, EventDecided, Visited, Refreshed,
                Listed, Hooked, Handling
  <2> QED BY <1>5, <2>1, <2>2 DEF Queued
<1> QED BY <1>3, <1>4, <1>5

(* A fork's event is the first about its process, and is handled first. *)
LEMMA FirstStep ==
  ASSUME NEW P, BaseInv(P), NEW k \in Key, FirstInv(k),
         \/ KernelDoes(k) /\ UNCHANGED uvars
         \/ DaemonDoes(k) /\ UNCHANGED <<life, comm, bpf>>
  PROVE  FirstInv(k)'
<1>1. CASE KernelDoes(k) /\ UNCHANGED uvars
  <2>1. Handling(k)' <=> Handling(k)
    BY <1>1 DEF uvars, Handling
  <2>2. RingSame(k) => About(k)' = About(k) /\ (ForkFirst(k) => ForkFirst(k)')
                       /\ (Queued("fork", k)' <=> Queued("fork", k))
    BY DEF RingSame, Queued
  <2>3. CASE Born(k)
    <3>1. /\ ~Handling(k) /\ \A i \in 1..Len(events) : events[i].key # k
      BY <2>3 DEF Born, BaseInv, UnbornInv, Handling
    <3>2. About(k) = {}
      BY <3>1, AboutMember
    <3> QED BY <2>1, <2>2, <2>3, <3>1, <3>2 DEF Born, FirstInv
  <2>4. CASE ForkTold(k)
    <3>1. Newborn(k) /\ ~Newborn(k)'
      <4>1. life[k] = "running"
        BY <2>4 DEF ForkTold, BaseInv, CInv, LifeInv
      <4> QED BY <2>4, <4>1 DEF ForkTold, Newborn
    <3>2. About(k) = {} /\ ~Handling(k)' /\ ForkFirst(k)
      BY <2>1, <3>1 DEF FirstInv
    <3>3. ASSUME NEW found, NEW v, Told("fork", k, found, v) PROVE ForkFirst(k)'
      BY <3>2, <3>3 DEF Told
    <3>4. ForkFirst(k)'
      BY <2>4, <3>3 DEF ForkTold
    <3> QED BY <3>1, <3>2, <3>4 DEF FirstInv
  <2>5. CASE ExecTold(k)
    <3>1. PICK v : Told("exec", k, v, v)
      BY <2>5 DEF ExecTold
    <3>2. ~Newborn(k)'
      <4>1. life[k] = "running"
        BY <2>5 DEF ExecTold, BaseInv, CInv, LifeInv
      <4> QED BY <2>5, <4>1 DEF ExecTold, Newborn
    <3>3. ForkFirst(k)'
      BY <3>1 DEF Told, FirstInv
    <3>4. Queued("fork", k)' => Queued("fork", k)
      BY <3>1, ToldFacts
    <3> QED BY <2>1, <3>2, <3>3, <3>4 DEF FirstInv
  <2>6. CASE ~Born(k) /\ ~ForkTold(k) /\ ~ExecTold(k)
    <3>1. RingSame(k) /\ (Newborn(k)' => Newborn(k))
      BY <1>1, <2>6 DEF KernelDoes, KernelElsewhere, Renamed, LookedUp, Unnoticed, Newborn
    <3> QED BY <2>1, <2>2, <3>1 DEF FirstInv
  <2> QED BY <2>3, <2>4, <2>5, <2>6
<1>2. CASE DaemonDoes(k) /\ UNCHANGED <<life, comm, bpf>>
  <2>1. Newborn(k)' <=> Newborn(k)
    BY <1>2 DEF Newborn
  <2>2. CASE ForkTaken(k) \/ ExecTaken(k)
    BY <1>2, <2>1, <2>2, DaemonRing DEF FirstInv
  <2>3. CASE ~ForkTaken(k) /\ ~ExecTaken(k)
    BY <1>2, <2>1, <2>3, DaemonRing DEF FirstInv, Queued
  <2> QED BY <2>2, <2>3
<1> QED BY <1>1, <1>2

(* Events that are left about a process, when it has not ended. *)
LEMMA OnlyForkOrExec ==
  ASSUME NEW s \in Seq(Event), NEW k \in Key,
         \A i \in 1..Len(s) : s[i].key = k => s[i].type \notin {"fork", "exec", "exit"}
  PROVE  \A i \in 1..Len(s) : s[i].key # k
<1> SUFFICES ASSUME NEW i \in 1..Len(s), s[i].key = k PROVE FALSE
  OBVIOUS
<1>1. s[i] \in Event
  OBVIOUS
<1>2. s[i].type \in {"fork", "exec", "exit"}
  BY <1>1 DEF Event, Program
<1> QED BY <1>2

(* What the daemon upserts for k is a value of the right kind. *)
LEMMA DaemonUpserts ==
  ASSUME NEW P, BaseInv(P), NEW k \in Key
  PROVE  /\ job.key = k => ForkValue(job) \in Entry /\ ExecValue(job) \in Entry
         /\ \A p \in Entry : WalkValue(k, p) \in Entry
         /\ MapsOK /\ mirror[k] \in Entry /\ processes[k] \in Entry /\ notified[k] \in Entry
         /\ \A e \in About(k) : e \in Event /\ e.value \in ProcessValue
<1> TypeOK /\ HandsOK
  BY DEF BaseInv, IInv
<1>1. MapsOK /\ mirror[k] \in Entry /\ processes[k] \in Entry /\ notified[k] \in Entry
  BY TypeFacts DEF MapsOK
<1>2. job.key = k => ForkValue(job) \in Entry /\ ExecValue(job) \in Entry
  BY CandidateTypes DEF TypeOK, MarkerTypeOK
<1>3. \A p \in Entry : WalkValue(k, p) \in Entry
  BY CandidateTypes
<1>4. ASSUME NEW e \in About(k) PROVE e \in Event /\ e.value \in ProcessValue
  <2>1. events \in Seq(Event)
    BY DEF TypeOK, KernelTypeOK
  <2>2. PICK i \in 1..Len(events) : e = events[i]
    BY AboutMember
  <2>3. e \in Event
    BY <2>1, <2>2
  <2> QED BY <2>3 DEF Event
<1> QED BY <1>1, <1>2, <1>3, <1>4

(* The daemon does not forget a process that has not ended. *)
LEMMA EntryStays ==
  ASSUME NEW P, BaseInv(P), NEW k \in Key, DaemonDoes(k), mirror[k] # Absent
  PROVE  mirror'[k] # Absent
<1> MapsOK /\ mirror[k] \in Entry /\ processes[k] \in Entry
  BY DaemonUpserts
<1>1. ASSUME NEW v \in ProcessValue, mirror'[k] = MergeEntry(mirror[k], v) PROVE mirror'[k] # Absent
  BY <1>1, MergeEntryFacts, AbsentAssumption
<1>2. ASSUME NEW v \in Entry, UpsertedNow(k, v) PROVE mirror'[k] # Absent
  BY <1>2, UpsertedEntry DEF Entry
<1>3. CASE mirror'[k] = mirror[k]
  BY <1>3
<1>4. CASE ForkTaken(k)
  <2>1. PICK e \in Event : mirror'[k] = mirror[k] \/ mirror'[k] = MergeEntry(mirror[k], e.value)
    BY <1>4 DEF ForkTaken, Upserted, EntrySame
  <2> QED BY <1>1, <2>1 DEF Event
<1>5. CASE ExecTaken(k)
  <2>1. PICK e \in Event : mirror'[k] = mirror[k] \/ mirror'[k] = MergeEntry(mirror[k], e.value)
    BY <1>5 DEF ExecTaken
  <2> QED BY <1>1, <2>1 DEF Event
<1>6. CASE EventDecided(k)
  BY <1>2, <1>6, DaemonUpserts DEF EventDecided
<1>7. CASE Visited(k)
  BY <1>2, <1>7, DaemonUpserts DEF Visited
<1>8. CASE Refreshed(k)
  BY <1>1, <1>8 DEF Refreshed, MergeKernelEntry, Entry
<1> QED BY <1>3, <1>4, <1>5, <1>6, <1>7, <1>8
        DEF DaemonDoes, DaemonElsewhere, EntrySame, PolicySet, Listed, Hooked

(* A key whose Put failed stays in the mirror. *)
LEMMA UnsyncedStep ==
  ASSUME NEW P, BaseInv(P), NEW k \in Key, UnsyncedInv(k),
         \/ KernelDoes(k) /\ UNCHANGED uvars
         \/ DaemonDoes(k) /\ UNCHANGED <<life, comm, bpf>>
  PROVE  UnsyncedInv(k)'
<1>1. CASE KernelDoes(k) /\ UNCHANGED uvars
  BY <1>1 DEF uvars, UnsyncedInv
<1>2. CASE DaemonDoes(k) /\ UNCHANGED <<life, comm, bpf>>
  <2>1. CASE k \in unsynced' => k \in unsynced
    BY <1>2, <2>1, EntryStays DEF UnsyncedInv
  <2>2. CASE mirror'[k] # Absent
    BY <2>2 DEF UnsyncedInv
  <2>3. ASSUME NEW v \in Entry, v # Absent, Upserted(k, v)
        PROVE  mirror'[k] # Absent
    <3>1. v \in ProcessValue /\ mirror[k] \in Entry
      BY <2>3, DaemonUpserts DEF Entry
    <3> QED BY <2>3, <3>1, MergeEntryFacts, AbsentAssumption DEF Upserted
  <2>4. ASSUME NEW v \in Entry, UpsertedNow(k, v) PROVE UnsyncedInv(k)'
    BY <2>1, <2>2, <2>3, <2>4 DEF UpsertedNow, EntrySame
  <2>5. CASE ForkTaken(k)
    <3>1. PICK e \in Event :
           \/ Upserted(k, e.value)
           \/ CanInherit(mirror[k]) /\ mirror'[k] = mirror[k]
           \/ EntrySame(k)
      BY <2>5 DEF ForkTaken
    <3>2. e.value \in Entry /\ e.value # Absent
      BY AbsentAssumption DEF Event, Entry
    <3> QED BY <2>1, <2>2, <2>3, <3>1, <3>2 DEF EntrySame, CanInherit, Live
  <2>6. CASE ExecTaken(k)
    BY <2>1, <2>2, <2>6 DEF ExecTaken
  <2>7. CASE EventDecided(k)
    BY <2>4, <2>7, DaemonUpserts DEF EventDecided
  <2>8. CASE Visited(k)
    BY <2>4, <2>8, DaemonUpserts DEF Visited
  <2> QED BY <1>2, <2>1, <2>5, <2>6, <2>7, <2>8
          DEF DaemonDoes, DaemonElsewhere, EntrySame, PolicySet, Refreshed, Listed, Hooked
<1> QED BY <1>1, <1>2

(* The value with which an exec is decided is the mirror's. *)
LEMMA JobStep ==
  ASSUME NEW P, BaseInv(P), BaseInv(P)', NEW k \in Key, ~Ended(k)', FirstInv(k), JobInv(k),
         UnsyncedInv(k)',
         \/ KernelDoes(k) /\ UNCHANGED uvars
         \/ DaemonDoes(k) /\ UNCHANGED <<life, comm, bpf>>
  PROVE  JobInv(k)'
<1> SUFFICES ASSUME pc' = "exec", job'.key = k
             PROVE  /\ job'.value = mirror'[k]
                    /\ mirror'[k] = Absent /\ ~Queued("exec", k)' /\ k \notin lost'
                         => processes'[k] = Absent
  BY DEF JobInv
<1>1. CASE KernelDoes(k) /\ UNCHANGED uvars
  <2>1. /\ pc = "exec" /\ job.key = k /\ Handling(k)
        /\ UNCHANGED <<job, mirror>>
    BY <1>1 DEF uvars, Handling
  <2>2. CASE processes'[k] = processes[k] /\ RingSame(k)
    <3>1. (Queued("exec", k)' <=> Queued("exec", k)) /\ (k \in lost' <=> k \in lost)
      BY <2>2 DEF RingSame, Queued
    <3> QED BY <2>1, <2>2, <3>1 DEF JobInv
  <2>3. CASE ForkTold(k)
    BY <2>1, <2>3 DEF ForkTold, FirstInv, Newborn
  <2>4. CASE ExecTold(k)
    <3>1. Queued("exec", k)' \/ k \in lost'
      BY <2>4, ToldFacts DEF ExecTold
    <3> QED BY <2>1, <3>1 DEF JobInv
  <2> QED BY <1>1, <2>2, <2>3, <2>4
          DEF KernelDoes, KernelElsewhere, Born, Renamed, LookedUp, Unnoticed
<1>2. CASE DaemonDoes(k) /\ UNCHANGED <<life, comm, bpf>>
  <2>1. CASE DaemonElsewhere(k)
    <3>1. UNCHANGED <<pc, job>> /\ mirror'[k] = mirror[k] /\ processes'[k] = processes[k]
      BY <2>1 DEF DaemonElsewhere, Handling, EntrySame
    <3>2. (Queued("exec", k)' <=> Queued("exec", k)) /\ (k \in lost' <=> k \in lost)
      BY <2>1 DEF DaemonElsewhere, RingSame, Queued
    <3> QED BY <3>1, <3>2 DEF JobInv
  <2>2. CASE ExecTaken(k)
    <3>1. job'.value = mirror'[k]
      BY <2>2 DEF ExecTaken
    <3>2. ASSUME mirror'[k] = Absent, ~Queued("exec", k)', k \notin lost'
          PROVE  processes'[k] = Absent
      <4>1. ~Queued("fork", k)'
        BY <1>2, <2>2, DaemonRing DEF FirstInv
      <4>2. Living(k)' /\ IInv' /\ Accounted(k)'
        BY DEF BaseInv, AliveInv, CInv, MapInv
      <4>3. \A i \in 1..Len(events') :
              events'[i].key = k => events'[i].type \notin {"fork", "exec", "exit"}
        BY <3>2, <4>1, <4>2, AboutMember DEF Queued, Living
      <4>4. ~Reported(k)'
        <5>1. events' \in Seq(Event)
          BY <4>2 DEF IInv, TypeOK, KernelTypeOK
        <5>2. \A i \in 1..Len(events') : events'[i].key # k
          BY <4>3, <5>1, OnlyForkOrExec
        <5> QED BY <5>2 DEF Reported
      <4>5. Synced(k)'
        BY <3>2, <4>2, <4>4 DEF Accounted
      <4> QED BY <3>2, <4>5 DEF Synced, UnsyncedInv
    <3> QED BY <3>1, <3>2
  <2> QED BY <1>2, <2>1, <2>2
          DEF DaemonDoes, PolicySet, ForkTaken, EventDecided, Visited, Refreshed, Listed, Hooked
<1> QED BY <1>1, <1>2

-----------------------------------------------------------------------------
(* A miss is enforced *)

(* A no-mark value takes the place of the entry that it is made from. *)
LEMMA NoMarkWins ==
  ASSUME NEW P, BaseInv(P), NEW k \in Key, ~Ended(k), mirror[k] # Absent
  PROVE  LET v == NewNoMarkProcessValue(mirror[k], generation, Now)
         IN  v \in ProcessValue /\ MergeEntry(mirror[k], v) = v /\ v # mirror[k] /\ ~Explicit(v)
<1>1. PICK m : m = mirror[k]
  OBVIOUS
<1>2. /\ m \in ProcessValue /\ m \in Entry /\ ~Tombstone(m) /\ generation \in Nat /\ Now \in Nat
      /\ m.timestamp < Now /\ m.generation <= generation
  BY <1>1, EntryFacts
<1>3. PICK v : v = NewNoMarkProcessValue(m, generation, Now)
  OBVIOUS
<1>4. v \in ProcessValue
  BY <1>2, <1>3, ConstructorTypes
<1>5. /\ v.tombstone = FALSE /\ v.inheritance = m.inheritance /\ v.priority = m.priority
      /\ v.generation = generation /\ v.timestamp = Now /\ v.hasMark = FALSE
  BY <1>3 DEF NewNoMarkProcessValue
<1>6. v.inheritance \in BOOLEAN
  BY <1>4, ProcessValueFields
<1>7. v.inheritance \/ ~m.inheritance
  BY <1>5, <1>6
<1>8. MergeEntry(m, v) = v /\ v # m
  BY <1>2, <1>4, <1>5, <1>7, NewerWins
<1>9. ~Explicit(v)
  BY <1>5 DEF Explicit, CanInherit
<1> QED BY <1>1, <1>3, <1>4, <1>8, <1>9

(* The second half of an exec that misses: the mark is gone. *)
LEMMA ExecMissDecides ==
  ASSUME NEW P, BaseInv(P), NEW k \in Key, ~Ended(k), JobInv(k),
         pc = "exec", job.key = k, policy.check[job.comm] = NoMatch,
         UpsertedNow(k, ExecValue(job))
  PROVE  \/ mirror[k] = Absent /\ EntrySame(k)
         \/ /\ mirror[k] # Absent /\ mirror'[k] # Absent /\ ~Explicit(mirror'[k])
            /\ notified'[k] = mirror'[k] /\ processes'[k] \in {Absent, mirror'[k]}
<1>1. job.value = mirror[k]
  BY DEF JobInv
<1>2. CASE mirror[k] = Absent
  <2>1. ExecValue(job) = Absent
    BY <1>1, <1>2 DEF ExecValue
  <2> QED BY <1>2, <2>1 DEF UpsertedNow
<1>3. CASE mirror[k] # Absent
  <2>1. PICK v : v = NewNoMarkProcessValue(mirror[k], generation, Now)
    OBVIOUS
  <2>2. ExecValue(job) = v
    BY <1>1, <1>3, <2>1 DEF ExecValue
  <2>3. v \in ProcessValue /\ MergeEntry(mirror[k], v) = v /\ v # mirror[k] /\ ~Explicit(v)
    BY <1>3, <2>1, NoMarkWins
  <2>4. Upserted(k, v) /\ v # Absent
    BY <2>2, <2>3, AbsentAssumption DEF UpsertedNow
  <2>5. mirror'[k] = v /\ ~EntrySame(k)
    BY <2>3, <2>4 DEF Upserted, EntrySame
  <2> QED BY <1>3, <2>3, <2>4, <2>5 DEF Upserted
<1> QED BY <1>2, <1>3

(* Whoever is handled and has no exec to come has no event to come. *)
LEMMA HandledLast ==
  ASSUME NEW P, BaseInv(P), NEW k \in Key, ~Ended(k), FirstInv(k), Handling(k), ~Queued("exec", k)
  PROVE  About(k) = {}
<1>1. ~Queued("fork", k) /\ Living(k) /\ events \in Seq(Event)
  BY DEF FirstInv, BaseInv, AliveInv, IInv, TypeOK, KernelTypeOK
<1>2. \A i \in 1..Len(events) :
        events[i].key = k => events[i].type \notin {"fork", "exec", "exit"}
  BY <1>1, AboutMember DEF Queued, Living
<1>3. \A i \in 1..Len(events) : events[i].key # k
  BY <1>1, <1>2, OnlyForkOrExec
<1> QED BY <1>3, AboutMember

(* Explicit marks of a process that does not match are of the past. *)
LEMMA MissStep ==
  ASSUME NEW P, BaseInv(P), NEW k \in Key, ~Ended(k), k \notin lost,
         CommInv(k), FirstInv(k), JobInv(k), MissInv(k),
         \/ KernelDoes(k) /\ UNCHANGED uvars
         \/ DaemonDoes(k) /\ UNCHANGED <<life, comm, bpf>>
  PROVE  MissInv(k)'
<1> TypeOK /\ MapsOK /\ mirror[k] \in Entry /\ processes[k] \in Entry /\ generation \in Nat
  BY DaemonUpserts, TypeFacts DEF BaseInv, IInv
<1>1. SUFFICES ASSUME life'[k] = "running", boot' = "steady", policy'.check[comm'[k]] = NoMatch,
                      ~Later(k)', ~(pc' = "exec" /\ job'.key = k)
               PROVE  /\ OldMark(mirror'[k], generation') /\ OldMark(processes'[k], generation')
                      /\ \A e \in About(k)' : OldMark(e.value, generation')
  BY DEF MissInv
<1>2. OldMark(Absent, generation) /\ OldMark(ZeroValue, generation)
  BY DEF OldMark, Explicit, CanInherit, Live, ZeroValue
<1>3. ASSUME NEW v, ~Explicit(v) PROVE OldMark(v, generation)
  BY <1>3 DEF OldMark
<1>4. CASE KernelDoes(k) /\ UNCHANGED uvars
  <2>1. UNCHANGED <<mirror, generation, boot, policy, pc, job>>
    BY <1>4 DEF uvars
  <2>2. ASSUME ~Later(k), life[k] = "running", comm'[k] = comm[k]
        PROVE  /\ OldMark(mirror[k], generation) /\ OldMark(processes[k], generation)
               /\ \A e \in About(k) : OldMark(e.value, generation)
    BY <1>1, <2>1, <2>2 DEF MissInv
  <2>3. RingSame(k) => /\ About(k)' = About(k)
                       /\ Queued("exec", k)' <=> Queued("exec", k)
                       /\ k \in lost' <=> k \in lost
    BY DEF RingSame, Queued
  <2>4. CASE KernelElsewhere(k)
    BY <1>1, <2>1, <2>2, <2>3, <2>4 DEF KernelElsewhere, Later
  <2>5. CASE Born(k)
    <3>1. mirror[k] = Absent /\ processes[k] = Absent /\ \A i \in 1..Len(events) : events[i].key # k
      BY <2>5 DEF Born, BaseInv, UnbornInv
    <3>2. About(k) = {}
      BY <3>1, AboutMember
    <3> QED BY <1>2, <2>1, <2>3, <2>5, <3>1, <3>2 DEF Born
  <2>6. CASE Renamed(k) \/ ExecTold(k)
    <3>1. Later(k)'
      BY <2>6, ToldFacts DEF Renamed, ExecTold, Later
    <3> QED BY <1>1, <3>1
  <2>7. CASE LookedUp(k)
    BY <1>1, <2>1, <2>2, <2>3, <2>7 DEF LookedUp, Later
  <2>8. CASE ForkTold(k)
    <3>1. ~Later(k) /\ life[k] = "running" /\ comm'[k] = comm[k]
      <4>1. (Queued("exec", k) => Queued("exec", k)') /\ (k \in lost => k \in lost')
        BY <2>8, ToldFacts DEF ForkTold
      <4> QED BY <1>1, <2>8, <4>1 DEF ForkTold, Later
    <3>2. ASSUME NEW found, NEW v, Told("fork", k, found, v), OldMark(v, generation)
          PROVE  \A e \in About(k)' : OldMark(e.value, generation)
      <4>1. OldMark(ValueOf(v), generation)
        BY <1>2, <3>2 DEF ValueOf
      <4> QED BY <2>2, <3>1, <3>2, <4>1 DEF Told
    <3>3. CASE processes'[k] = processes[k] /\ Told("fork", k, processes[k], processes[k])
      BY <2>1, <2>2, <3>1, <3>2, <3>3
    <3>4. ASSUME NEW t, NEW copy, copy = ForkCopy(bpf[k].seen, t), bpf[k].stage = "fork",
                 \/ processes'[k] = copy /\ Told("fork", k, copy, copy)
                 \/ processes'[k] = Absent /\ Told("fork", k, Absent, copy)
          PROVE  /\ OldMark(processes'[k], generation)
                 /\ \A e \in About(k)' : OldMark(e.value, generation)
      <4>1. bpf[k].seen \in ProcessValue
        BY <3>4 DEF BaseInv, IInv, HandsOK
      <4>2. ~Explicit(copy)
        BY <3>4, <4>1 DEF ForkCopy, InheritedValue, Explicit, ProcessValue
      <4>3. OldMark(copy, generation)
        BY <1>3, <4>2
      <4> QED BY <1>2, <3>2, <3>4, <4>3
    <3> QED BY <2>1, <2>2, <2>8, <3>1, <3>3, <3>4 DEF ForkTold
  <2>9. CASE Unnoticed(k)
    BY <1>1, <2>1, <2>9 DEF Unnoticed, BaseInv, OrderInv, Program
  <2> QED BY <1>4, <2>4, <2>5, <2>6, <2>7, <2>8, <2>9 DEF KernelDoes
<1>5. CASE DaemonDoes(k) /\ UNCHANGED <<life, comm, bpf>>
  <2>1. life[k] = "running" /\ comm'[k] = comm[k] /\ bpf'[k] = bpf[k]
    BY <1>1, <1>5
  <2>2. ASSUME ~Later(k), ~(pc = "exec" /\ job.key = k), boot = "steady",
               policy.check[comm[k]] = NoMatch
        PROVE  /\ OldMark(mirror[k], generation) /\ OldMark(processes[k], generation)
               /\ \A e \in About(k) : OldMark(e.value, generation)
    BY <2>1, <2>2 DEF MissInv
  <2>3. ~ExecTaken(k)
    BY <1>1 DEF ExecTaken
  <2>4. About(k)' \subseteq About(k) /\ ~Queued("exec", k) /\ ~Later(k)
    <3>1. About(k)' \subseteq About(k) /\ (Queued("exec", k) => Queued("exec", k)')
      BY <1>5, <2>3, DaemonRing
    <3>2. bpf[k].stage \notin {"execve", "exec"} /\ ~Queued("exec", k)'
      BY <1>1, <2>1 DEF Later
    <3> QED BY <3>1, <3>2 DEF Later
  <2>5. CASE PolicySet(k)
    <3>1. ASSUME NEW v \in Entry, Sane(v, P, generation) PROVE OldMark(v, generation')
      <4>1. CASE v = Absent
        BY <4>1 DEF OldMark, Explicit, CanInherit, Live
      <4>2. CASE v # Absent
        <5>1. v.generation \in Int /\ v.generation <= generation
          BY <3>1, <4>2, ProcessValueFields DEF Entry, Sane
        <5> QED BY <2>5, <5>1 DEF OldMark, PolicySet
      <4> QED BY <4>1, <4>2
    <3>2. Sane(mirror[k], P, generation) /\ Sane(processes[k], P, generation)
      BY DEF BaseInv, ValueInv, KernelSane, DaemonSane, SaneMap
    <3>3. ASSUME NEW e \in About(k) PROVE OldMark(e.value, generation')
      <4>1. PICK i \in 1..Len(events) : e = events[i]
        BY AboutMember
      <4>2. Sane(e.value, P, generation)
        BY <4>1 DEF BaseInv, ValueInv, KernelSane, SaneEvents
      <4>3. e.value \in Entry
        BY DaemonUpserts DEF Entry
      <4> QED BY <3>1, <4>2, <4>3
    <3> QED BY <2>4, <2>5, <3>1, <3>2, <3>3 DEF PolicySet, EntrySame
  <2>6. ASSUME ~PolicySet(k)
        PROVE  generation' = generation /\ policy' = policy /\ boot = "steady"
               /\ policy.check[comm[k]] = NoMatch
    <3>1. generation' = generation /\ policy' = policy /\ (boot' = "steady" => boot = "steady")
      BY <1>5, <2>6 DEF DaemonDoes, DaemonElsewhere, ForkTaken, ExecTaken, EventDecided, Visited,
                        Refreshed, Listed, Hooked, PolicySame
    <3> QED BY <1>1, <2>1, <3>1
  <2>7. ASSUME ~PolicySet(k), ~(pc = "exec" /\ job.key = k),
               mirror'[k] = mirror[k] \/ mirror'[k] = processes[k] \/ ~Explicit(mirror'[k])
                 \/ \E e \in About(k) : mirror'[k] = e.value,
               processes'[k] \in {Absent, processes[k], mirror[k], mirror'[k]}
        PROVE  /\ OldMark(mirror'[k], generation') /\ OldMark(processes'[k], generation')
               /\ \A e \in About(k)' : OldMark(e.value, generation')
    <3>1. /\ OldMark(mirror[k], generation) /\ OldMark(processes[k], generation)
          /\ \A e \in About(k) : OldMark(e.value, generation)
      BY <2>2, <2>4, <2>6, <2>7
    <3>2. OldMark(mirror'[k], generation)
      BY <1>3, <2>7, <3>1
    <3> QED BY <1>2, <2>4, <2>6, <2>7, <3>1, <3>2
  <2>8. ASSUME NEW v \in Entry, UpsertedNow(k, v), ~Explicit(v), ~PolicySet(k),
               ~(pc = "exec" /\ job.key = k)
        PROVE  /\ OldMark(mirror'[k], generation') /\ OldMark(processes'[k], generation')
               /\ \A e \in About(k)' : OldMark(e.value, generation')
    <3>1. mirror'[k] \in {mirror[k], v} /\ processes'[k] \in {processes[k], Absent, mirror'[k]}
      BY <2>8, UpsertedEntry DEF Entry
    <3> QED BY <2>7, <2>8, <3>1
  <2>9. CASE DaemonElsewhere(k)
    <3>1. ~(pc = "exec" /\ job.key = k)
      BY <1>1, <2>9 DEF DaemonElsewhere, Handling
    <3> QED BY <2>5, <2>7, <2>9, <3>1 DEF DaemonElsewhere, EntrySame
  <2>10. CASE ForkTaken(k)
    <3>1. PICK e \in Event :
           /\ e \in About(k) /\ pc = "free"
           /\ \/ Upserted(k, e.value)
              \/ processes'[k] \in {Absent, mirror[k]} /\ mirror'[k] = mirror[k]
              \/ EntrySame(k)
      BY <2>10 DEF ForkTaken, Taken
    <3>2. e.value \in ProcessValue /\ e.value # Absent
      BY AbsentAssumption DEF Event
    <3>3. Upserted(k, e.value) => /\ mirror'[k] \in {mirror[k], e.value}
                                  /\ processes'[k] \in {processes[k], Absent, mirror'[k]}
      BY <3>2, UpsertedEntry
    <3> QED BY <2>5, <2>7, <3>1, <3>3 DEF EntrySame
  <2>11. CASE EventDecided(k) /\ ~PolicySet(k)
    <3>1. job \in Job /\ job.key = k /\ Handling(k)
      <4>1. job \in Job
        BY DEF TypeOK, MarkerTypeOK
      <4> QED BY <2>11, <4>1 DEF EventDecided, Handling
    <3>2. policy.check[job.comm] = NoMatch
      BY <2>1, <2>4, <2>6, <2>11, <3>1 DEF CommInv
    <3>3. CASE pc = "fork"
      <4>1. ~Explicit(ForkValue(job)) /\ ForkValue(job) \in Entry
        BY <3>1, <3>2, NewValueMarks, DaemonUpserts
      <4> QED BY <2>8, <2>11, <3>3, <4>1 DEF EventDecided
    <3>4. CASE pc = "exec"
      <4>1. UpsertedNow(k, ExecValue(job))
        BY <2>11, <3>4 DEF EventDecided
      <4>2. About(k)' = {}
        BY <2>4, <3>1, HandledLast
      <4>3. CASE mirror[k] = Absent /\ EntrySame(k)
        <5>1. processes[k] = Absent
          BY <2>4, <3>1, <3>4, <4>3 DEF JobInv
        <5> QED BY <1>2, <2>6, <2>11, <4>2, <4>3, <5>1 DEF EntrySame
      <4>4. CASE ~Explicit(mirror'[k]) /\ processes'[k] \in {Absent, mirror'[k]}
        BY <1>2, <1>3, <2>6, <2>11, <4>2, <4>4
      <4> QED BY <3>1, <3>2, <3>4, <4>1, <4>3, <4>4, ExecMissDecides
    <3> QED BY <2>11, <3>3, <3>4 DEF EventDecided
  <2>12. CASE Visited(k) /\ ~PolicySet(k)
    <3>1. PICK p \in Entry : UpsertedNow(k, WalkValue(k, p))
      BY <2>12 DEF Visited
    <3>2. trav.comm[k] = comm[k]
      BY <2>1, <2>4, <2>6, <2>12 DEF CommInv, Visited, Deciding, Up
    <3>3. ~Explicit(WalkValue(k, p)) /\ WalkValue(k, p) \in Entry
      BY <2>6, <2>12, <3>2, NewValueMarks, DaemonUpserts
    <3> QED BY <2>8, <2>12, <3>1, <3>3 DEF Visited
  <2>13. CASE Refreshed(k)
    <3>1. mirror'[k] \in {mirror[k], processes[k]}
      BY <2>13, MergeEntryFacts DEF Refreshed, MergeKernelEntry, Entry
    <3> QED BY <2>5, <2>7, <2>13, <3>1 DEF Refreshed
  <2>14. CASE Listed(k)
    BY <2>5, <2>7, <2>14 DEF Listed
  <2>15. CASE Hooked(k)
    BY <2>5, <2>7, <2>15 DEF Hooked
  <2> QED BY <1>5, <2>3, <2>5, <2>9, <2>10, <2>11, <2>12, <2>13, <2>14, <2>15 DEF DaemonDoes
<1> QED BY <1>4, <1>5

(* What both remaining properties need of a process that has not ended. *)
EventInv(k) == k \notin lost /\ FirstInv(k) /\ UnsyncedInv(k) /\ JobInv(k)

(* It is inductive when the ring drops nothing. *)
LEMMA EventStep ==
  ASSUME Lossy = FALSE, NEW P, BaseInv(P), BaseInv(P)', NEW k \in Key, ~Ended(k)', EventInv(k),
         \/ KernelDoes(k) /\ UNCHANGED uvars
         \/ DaemonDoes(k) /\ UNCHANGED <<life, comm, bpf>>
  PROVE  EventInv(k)'
<1>1. k \notin lost /\ FirstInv(k) /\ UnsyncedInv(k) /\ JobInv(k)
  BY DEF EventInv
<1>2. k \notin lost'
  BY <1>1, NothingLost
<1>3. FirstInv(k)' /\ UnsyncedInv(k)'
  BY <1>1, FirstStep, UnsyncedStep
<1>4. JobInv(k)'
  BY <1>1, <1>3, JobStep
<1> QED BY <1>2, <1>3, <1>4 DEF EventInv

(* It holds when the daemon starts. *)
LEMMA EventInit == ASSUME Init, NEW k \in Key PROVE EventInv(k)
<1>1. /\ lost = {} /\ unsynced = {} /\ pc = "free" /\ Len(events) = 0 /\ About(k) = {}
  BY InitFacts
<1>2. FirstInv(k)
  BY <1>1 DEF FirstInv, ForkFirst, Handling, Queued
<1> QED BY <1>1, <1>2 DEF EventInv, UnsyncedInv, JobInv

(* Nothing is under way about a settled process. *)
LEMMA SettledFacts ==
  ASSUME NEW k \in Key, Settled(k), life[k] = "running"
  PROVE  /\ Up /\ pc = "free" /\ ~Ended(k) /\ About(k) = {} /\ ~Queued("exec", k)
         /\ ~Queued("fork", k) /\ ~Later(k) /\ bpf[k].stage = "idle"
<1>1. /\ Up /\ pc = "free" /\ k \notin lost /\ bpf[k].stage = "idle"
      /\ \A i \in 1..Len(events) : events[i].key # k
  BY DEF Settled, Idle
<1>2. About(k) = {}
  BY <1>1, AboutMember
<1> QED BY <1>1, <1>2 DEF Ended, Later, Queued

(* MissEnforced: once the daemon is up and nothing about a running process  *)
(* is under way, a process that the check does not match has no explicit    *)
(* mark, whichever programs it executed before, under whichever policies.   *)
(* Assumed: an iteration of the kernel map that does not fail, no           *)
(* SetProcessMark, no leader that exits before its threads, and a ring that *)
(* drops nothing: after a dropped exec a traversal's inherited value loses  *)
(* to the explicit mark of the program before.  Nothing is assumed of the   *)
(* priorities.  That leaders do not exit early only the proof needs.        *)
THEOREM MissIsEnforced ==
  ASSUME AbortIteration = FALSE, ApiMarks = {}, LeaderExits = FALSE, Lossy = FALSE
  PROVE  Spec => []MissEnforced
<1> DEFINE Inv == /\ BaseInv(0)
                  /\ \A k \in Key : ~Ended(k) => CommInv(k) /\ EventInv(k) /\ MissInv(k)
<1>1. Init => Inv
  <2> SUFFICES ASSUME Init
               PROVE  BaseInv(0) /\ \A k \in Key : CommInv(k) /\ EventInv(k) /\ MissInv(k)
    OBVIOUS
  <2>1. BaseInv(0)
    BY BaseInit
  <2> SUFFICES ASSUME NEW k \in Key PROVE CommInv(k) /\ EventInv(k) /\ MissInv(k)
    BY <2>1
  <2>2. pc = "free" /\ mirror[k] = Absent /\ processes[k] = Absent /\ About(k) = {}
    BY InitFacts
  <2>3. CommInv(k) /\ MissInv(k)
    BY <2>2 DEF CommInv, Handling, MissInv, OldMark, Explicit, CanInherit, Live
  <2> QED BY <2>3, EventInit
<1>2. Inv /\ [Next]_vars => Inv'
  <2> SUFFICES ASSUME Inv, [Next]_vars PROVE Inv'
    OBVIOUS
  <2>1. BaseInv(0)'
    BY BaseStep
  <2>2. ASSUME NEW k \in Key, ~Ended(k)' PROVE CommInv(k)' /\ EventInv(k)' /\ MissInv(k)'
    <3>1. /\ ~Ended(k) /\ Living(k)
          /\ \/ KernelDoes(k) /\ UNCHANGED uvars
             \/ DaemonDoes(k) /\ UNCHANGED <<life, comm, bpf>>
      BY <2>2, StepCases
    <3>2. CommInv(k) /\ EventInv(k) /\ MissInv(k)
      BY <3>1
    <3>3. CommInv(k)' /\ EventInv(k)'
      BY <2>1, <2>2, <3>1, <3>2, CommStep, EventStep
    <3> QED BY <3>1, <3>2, <3>3, MissStep DEF EventInv
  <2> QED BY <2>1, <2>2
<1>3. Inv /\ NoStaleGeneration => MissEnforced
  <2> SUFFICES ASSUME Inv, NoStaleGeneration, NEW k \in Key, Settled(k), boot = "steady",
                      life[k] = "running", policy.check[comm[k]] = NoMatch, Explicit(mirror[k])
               PROVE  FALSE
    BY DEF MissEnforced
  <2>1. pc = "free" /\ ~Ended(k) /\ ~Later(k)
    BY SettledFacts
  <2>2. mirror[k].generation < generation
    BY <2>1 DEF MissInv, OldMark
  <2>3. StaleGeneration(k) /\ Alive(k)
    BY <2>2 DEF StaleGeneration, Explicit, CanInherit, Alive
  <2> QED BY <2>1, <2>3 DEF NoStaleGeneration
<1>4. Spec => []NoStaleGeneration
  BY NobodyForgottenByPolicy
<1> QED BY <1>1, <1>2, <1>3, <1>4, PTL DEF Spec

-----------------------------------------------------------------------------
(* Consumers are in sync *)

(* An upsert that changes the mirror tells the consumers, and the kernel    *)
(* has the mirror's value or none.                                          *)
LEMMA UpsertTells ==
  ASSUME NEW P, BaseInv(P), NEW k \in Key, NEW v \in Entry,
         (v # Absent /\ Upserted(k, v)) \/ UpsertedNow(k, v)
  PROVE  \/ EntrySame(k)
         \/ /\ mirror'[k] # mirror[k] /\ mirror'[k] # Absent /\ notified'[k] = mirror'[k]
            /\ Dominated(k)'
<1>1. CASE EntrySame(k)
  BY <1>1
<1>2. CASE ~EntrySame(k)
  <2>1. /\ v # Absent /\ mirror'[k] # mirror[k] /\ notified'[k] = mirror'[k]
        /\ mirror'[k] = MergeEntry(mirror[k], v) /\ processes'[k] \in {Absent, mirror'[k]}
    BY <1>2 DEF UpsertedNow, Upserted
  <2>2. mirror'[k] \in ProcessValue /\ mirror'[k] # Absent
    <3>1. mirror[k] \in Entry /\ v \in ProcessValue
      BY <2>1, DaemonUpserts DEF Entry
    <3> QED BY <2>1, <3>1, MergeEntryFacts, AbsentAssumption
  <2>3. MergeEntry(mirror'[k], mirror'[k]) = mirror'[k]
    BY <2>2 DEF MergeEntry, PreferProcessValue
  <2> QED BY <2>1, <2>2, <2>3 DEF Dominated
<1> QED BY <1>1, <1>2

(* The second half of an exec tells them, unless there is nothing to tell. *)
LEMMA ExecTells ==
  ASSUME NEW P, OnePriority(P), BaseInv(P), NEW k \in Key, ~Ended(k), JobInv(k),
         pc = "exec", job.key = k, UpsertedNow(k, ExecValue(job))
  PROVE  \/ mirror[k] = Absent /\ EntrySame(k)
         \/ mirror'[k] # Absent /\ notified'[k] = mirror'[k] /\ Dominated(k)'
<1>1. ExecValue(job) \in Entry /\ job.comm \in Comm
  BY DaemonUpserts DEF BaseInv, IInv, TypeOK, MarkerTypeOK, Job
<1>2. CASE policy.check[job.comm] = NoMatch
  <2>1. mirror[k] # Absent => ~EntrySame(k)
    <3> SUFFICES ASSUME mirror[k] # Absent, EntrySame(k) PROVE FALSE
      OBVIOUS
    <3>1. PICK v : v = NewNoMarkProcessValue(mirror[k], generation, Now)
      OBVIOUS
    <3>2. ExecValue(job) = v
      BY <1>2, <3>1 DEF ExecValue, JobInv
    <3>3. v \in ProcessValue /\ MergeEntry(mirror[k], v) = v /\ v # mirror[k]
      BY <3>1, NoMarkWins
    <3>4. mirror'[k] = v
      BY <3>2, <3>3, AbsentAssumption DEF UpsertedNow, Upserted
    <3> QED BY <3>3, <3>4 DEF EntrySame
  <2>2. mirror[k] = Absent => EntrySame(k)
    <3> SUFFICES ASSUME mirror[k] = Absent PROVE EntrySame(k)
      OBVIOUS
    <3>1. ExecValue(job) = Absent
      BY <1>2 DEF ExecValue, JobInv
    <3> QED BY <3>1 DEF UpsertedNow
  <2> QED BY <1>1, <2>1, <2>2, UpsertTells
<1>3. CASE policy.check[job.comm] # NoMatch
  <2>1. PICK v : v = NewProcessValue(policy.check[job.comm], generation, Now)
    OBVIOUS
  <2>2. ExecValue(job) = v
    BY <1>3, <2>1 DEF ExecValue
  <2>3. v \in ProcessValue /\ MergeEntry(mirror[k], v) = v /\ v # mirror[k]
    BY <1>1, <1>3, <2>1, MatchWins
  <2>4. mirror'[k] = v
    BY <2>2, <2>3, AbsentAssumption DEF UpsertedNow, Upserted
  <2>5. ~EntrySame(k)
    BY <2>3, <2>4 DEF EntrySame
  <2> QED BY <1>1, <2>5, UpsertTells
<1> QED BY <1>2, <1>3

(* So does the second half of a fork whose value the consumers do not know. *)
LEMMA ForkTells ==
  ASSUME NEW P, OnePriority(P), BaseInv(P), NEW k \in Key, ~Ended(k),
         pc = "fork", job.key = k, job.value = mirror[k],
         mirror[k] # Absent, mirror[k].hasMark, ~mirror[k].inheritance,
         UpsertedNow(k, ForkValue(job))
  PROVE  mirror'[k] # Absent /\ notified'[k] = mirror'[k]
<1>1. ForkValue(job) \in Entry /\ job \in Job
  BY DaemonUpserts DEF BaseInv, IInv, TypeOK, MarkerTypeOK
<1>2. SUFFICES ASSUME EntrySame(k) PROVE FALSE
  BY <1>1, UpsertTells
<1>3. SUFFICES ASSUME NEW v, v = ForkValue(job)
               PROVE  v \in ProcessValue /\ MergeEntry(mirror[k], v) = v /\ v # mirror[k]
  <2>1. /\ ForkValue(job) \in ProcessValue /\ ForkValue(job) # mirror[k]
        /\ MergeEntry(mirror[k], ForkValue(job)) = ForkValue(job)
    BY <1>3
  <2>2. mirror'[k] = ForkValue(job)
    BY <2>1, AbsentAssumption DEF UpsertedNow, Upserted
  <2> QED BY <1>2, <2>1, <2>2 DEF EntrySame
<1>4. CASE policy.check[job.comm] # NoMatch
  <2>1. v = NewProcessValue(policy.check[job.comm], generation, Now) /\ job.comm \in Comm
    BY <1>1, <1>3, <1>4 DEF ForkValue, Job
  <2> QED BY <1>4, <2>1, MatchWins
<1>5. CASE policy.check[job.comm] = NoMatch /\ ~CanInherit(Lookup(mirror, job.parentKey))
  <2>1. v = NewNoMarkProcessValue(mirror[k], generation, Now)
    BY <1>3, <1>5 DEF ForkValue
  <2> QED BY <2>1, NoMarkWins
<1>6. CASE policy.check[job.comm] = NoMatch /\ CanInherit(Lookup(mirror, job.parentKey))
  <2>1. PICK w : w = Lookup(mirror, job.parentKey)
    OBVIOUS
  <2>2. v = InheritedValue(w, generation, Now)
    BY <1>3, <1>6, <2>1 DEF ForkValue
  <2>3. job.parentKey \in Key /\ w = mirror[job.parentKey]
    BY <1>6, <2>1 DEF Lookup, CanInherit, Live
  <2>4. w \in ProcessValue /\ w.hasMark
    BY <1>6, <2>1, <2>3, DaemonUpserts DEF CanInherit, Live, Entry
  <2>5. w.priority = P
    BY <2>3, <2>4, AbsentAssumption DEF BaseInv, ValueInv, DaemonSane, SaneMap, Sane
  <2>6. /\ v.tombstone = FALSE /\ v.inheritance = FALSE /\ v.priority = P
        /\ v.generation = generation /\ v.timestamp = Now
    BY <2>2, <2>4, <2>5 DEF InheritedValue, ProcessValue
  <2>7. /\ mirror[k] \in Entry /\ ~Tombstone(mirror[k])
        /\ mirror[k].timestamp < Now /\ mirror[k].generation <= generation
        /\ mirror[k].priority = P /\ generation \in Nat /\ Now \in Nat
    BY EntryFacts
  <2>8. v \in ProcessValue
    BY <2>2, <2>4, <2>7, ConstructorTypes
  <2> QED BY <2>6, <2>7, <2>8, NewerWins
<1> QED BY <1>4, <1>5, <1>6

(* The kernel map runs ahead of the mirror only by what events report. *)
LEMMA DomStep ==
  ASSUME Lossy = FALSE, NEW P, OnePriority(P), BaseInv(P), NEW k \in Key, ~Ended(k),
         EventInv(k), DomInv(k),
         \/ KernelDoes(k) /\ UNCHANGED uvars
         \/ DaemonDoes(k) /\ UNCHANGED <<life, comm, bpf>>
  PROVE  DomInv(k)'
<1> FirstInv(k) /\ JobInv(k) /\ k \notin lost
  BY DEF EventInv
<1> mirror[k] \in Entry /\ processes[k] \in Entry
  BY DaemonUpserts
<1>1. ASSUME processes'[k] = Absent \/ (processes'[k] = mirror'[k] /\ mirror'[k] \in Entry)
      PROVE  DomInv(k)'
  <2>1. mirror'[k] \in ProcessValue => MergeEntry(mirror'[k], mirror'[k]) = mirror'[k]
    BY DEF MergeEntry, PreferProcessValue
  <2> QED BY <1>1, <2>1 DEF DomInv, Dominated, Entry
<1>2. CASE KernelDoes(k) /\ UNCHANGED uvars
  <2>1. UNCHANGED <<mirror, pc, job>>
    BY <1>2 DEF uvars
  <2>2. About(k) \subseteq About(k)' /\ (Queued("exec", k) => Queued("exec", k)')
    BY <1>2, KernelRing
  <2>3. CASE processes'[k] = processes[k]
    BY <2>1, <2>2, <2>3 DEF DomInv, Dominated, Reporting
  <2>4. CASE ForkTold(k) /\ processes'[k] # processes[k]
    <3>1. PICK t \in Nat :
            LET copy == ForkCopy(bpf[k].seen, t)
            IN  \/ processes'[k] = copy /\ Told("fork", k, copy, copy)
                \/ processes'[k] = Absent
      BY <2>4 DEF ForkTold
    <3>2. PICK copy : copy = ForkCopy(bpf[k].seen, t)
      OBVIOUS
    <3>3. CASE processes'[k] = Absent
      BY <1>1, <3>3
    <3>4. CASE processes'[k] = copy /\ Told("fork", k, copy, copy)
      <4>1. bpf[k].seen \in ProcessValue /\ bpf[k].seen.generation \in Nat
        <5>1. bpf[k].seen \in ProcessValue
          BY <2>4 DEF ForkTold, BaseInv, IInv, HandsOK
        <5> QED BY <5>1 DEF ProcessValue
      <4>2. copy \in ProcessValue
        BY <3>2, <4>1, ConstructorTypes DEF ForkCopy
      <4>3. copy # Absent /\ copy.hasMark = TRUE /\ copy.inheritance = FALSE /\ copy.tombstone = FALSE
        BY <3>2, <4>1, <4>2, AbsentAssumption DEF ForkCopy, InheritedValue, ProcessValue
      <4>4. CanInherit(copy) /\ ValueOf(copy) = copy
        BY <4>3 DEF CanInherit, Live, ValueOf
      <4>5. PICK e : e \in About(k)' /\ e.type = "fork" /\ e.hasMark = CanInherit(copy)
                     /\ e.value = ValueOf(copy)
        BY <3>4 DEF Told
      <4>6. Reports(e, processes'[k])
        BY <3>4, <4>3, <4>4, <4>5 DEF Reports
      <4> QED BY <4>5, <4>6 DEF DomInv
    <3> QED BY <3>1, <3>2, <3>3, <3>4
  <2>5. CASE ExecTold(k)
    <3>1. Queued("exec", k)' \/ k \in lost'
      BY <2>5, ToldFacts DEF ExecTold
    <3>2. k \notin lost'
      BY <1>2, NothingLost
    <3> QED BY <3>1, <3>2 DEF DomInv, Reporting
  <2> QED BY <1>2, <2>3, <2>4, <2>5
          DEF KernelDoes, KernelElsewhere, Born, Renamed, LookedUp, Unnoticed
<1>3. CASE DaemonDoes(k) /\ UNCHANGED <<life, comm, bpf>>
  <2>1. CASE ExecTaken(k)
    BY <2>1 DEF ExecTaken, DomInv, Reporting
  <2>2. ~ExecTaken(k) /\ Queued("exec", k) => DomInv(k)'
    BY <1>3, DaemonRing DEF DomInv, Reporting
  <2>3. ~ExecTaken(k) /\ ~ForkTaken(k) => About(k)' = About(k)
    BY <1>3, DaemonRing
  <2>4. ASSUME mirror'[k] = mirror[k], processes'[k] = processes[k],
               pc = "exec" /\ job.key = k => pc' = "exec" /\ job'.key = k,
               ~ExecTaken(k), ~ForkTaken(k)
        PROVE  DomInv(k)'
    <3>1. Queued("exec", k) => Queued("exec", k)'
      BY <1>3, <2>4, DaemonRing
    <3> QED BY <2>3, <2>4, <3>1 DEF DomInv, Dominated, Reporting
  <2>5. CASE DaemonElsewhere(k) /\ ~ExecTaken(k) /\ ~ForkTaken(k)
    BY <2>4, <2>5 DEF DaemonElsewhere, EntrySame, Handling
  <2>6. CASE PolicySet(k) /\ ~ExecTaken(k) /\ ~ForkTaken(k)
    BY <2>4, <2>6 DEF PolicySet, EntrySame
  <2>7. CASE ForkTaken(k) /\ ~ExecTaken(k) /\ ~Queued("exec", k)
    <3>1. PICK e \in Event :
           /\ Taken(k, e) /\ pc = "free"
           /\ \/ e.hasMark /\ Upserted(k, e.value)
              \/ ~e.hasMark /\ processes'[k] \in {Absent, mirror[k]} /\ mirror'[k] = mirror[k]
              \/ ~e.hasMark /\ EntrySame(k)
      BY <2>7 DEF ForkTaken
    <3>2. CASE ~e.hasMark /\ processes'[k] \in {Absent, mirror[k]} /\ mirror'[k] = mirror[k]
      BY <1>1, <3>2
    <3>3. ASSUME NEW f \in About(k), Reports(f, processes[k]) PROVE f = e /\ e.hasMark
      BY <3>1, <3>3 DEF Reports, Taken, FirstInv
    <3>4. ~Reporting(k)
      BY <2>7, <3>1 DEF Reporting
    <3>5. CASE ~e.hasMark /\ EntrySame(k)
      BY <3>3, <3>4, <3>5 DEF DomInv, Dominated, EntrySame
    <3>6. CASE e.hasMark /\ Upserted(k, e.value)
      <4>1. e.value \in ProcessValue /\ e.value \in Entry /\ e.value # Absent
        BY AbsentAssumption DEF Event, Entry
      <4>2. CASE ~EntrySame(k)
        BY <3>6, <4>1, <4>2, UpsertTells DEF DomInv
      <4>3. CASE EntrySame(k)
        <5>1. CASE Dominated(k)
          BY <4>3, <5>1 DEF EntrySame, DomInv, Dominated
        <5>2. CASE processes[k] = e.value
          <6>1. mirror[k] = MergeEntry(mirror[k], e.value)
            BY <3>6, <4>3 DEF Upserted, EntrySame
          <6>2. mirror[k] # Absent
            BY <4>1, <6>1, MergeEntryFacts, AbsentAssumption
          <6> QED BY <4>3, <5>2, <6>1, <6>2 DEF EntrySame, DomInv, Dominated
        <5> QED BY <3>3, <3>4, <5>1, <5>2 DEF DomInv, Reports
      <4> QED BY <4>2, <4>3
    <3> QED BY <3>1, <3>2, <3>5, <3>6
  <2>8. CASE EventDecided(k) /\ ~ExecTaken(k) /\ ~ForkTaken(k) /\ ~Queued("exec", k)
    <3>1. job.key = k /\ Handling(k) /\ About(k) = {}
      BY <2>8, HandledLast DEF EventDecided, Handling
    <3>2. CASE pc = "fork"
      <4>1. Dominated(k)
        BY <2>8, <3>1, <3>2 DEF DomInv, Reporting
      <4>2. UpsertedNow(k, ForkValue(job)) /\ ForkValue(job) \in Entry
        BY <2>8, <3>1, <3>2, DaemonUpserts DEF EventDecided
      <4>3. EntrySame(k) => Dominated(k)'
        BY <4>1 DEF EntrySame, Dominated
      <4> QED BY <4>2, <4>3, UpsertTells DEF DomInv
    <3>3. CASE pc = "exec"
      <4>1. UpsertedNow(k, ExecValue(job))
        BY <2>8, <3>3 DEF EventDecided
      <4>2. CASE mirror[k] = Absent /\ EntrySame(k)
        <5>1. processes[k] = Absent
          BY <2>8, <3>1, <3>3, <4>2 DEF JobInv
        <5> QED BY <1>1, <4>2, <5>1 DEF EntrySame
      <4> QED BY <3>1, <3>3, <4>1, <4>2, ExecTells DEF DomInv
    <3> QED BY <2>8, <3>2, <3>3 DEF EventDecided
  <2>9. CASE Visited(k) /\ ~ExecTaken(k) /\ ~ForkTaken(k)
    <3>1. PICK p \in Entry : UpsertedNow(k, WalkValue(k, p))
      BY <2>9 DEF Visited
    <3>2. CASE EntrySame(k)
      BY <2>4, <2>9, <3>2 DEF EntrySame, Visited
    <3>3. CASE ~EntrySame(k)
      BY <3>1, <3>3, UpsertTells, DaemonUpserts DEF DomInv
    <3> QED BY <3>2, <3>3
  <2>10. CASE Refreshed(k)
    <3>1. mirror'[k] = MergeKernelEntry(k) /\ processes'[k] = processes[k]
      BY <2>10 DEF Refreshed
    <3>2. CASE processes[k] = Absent
      BY <1>1, <3>1, <3>2
    <3>3. CASE processes[k] # Absent
      <4>1. processes[k] \in ProcessValue /\ mirror'[k] = MergeEntry(mirror[k], processes[k])
        BY <3>1, <3>3 DEF MergeKernelEntry, Entry
      <4>2. mirror'[k] # Absent
        BY <4>1, MergeEntryFacts, AbsentAssumption
      <4>3. MergeEntry(mirror'[k], processes[k]) = mirror'[k]
        BY <4>1, MergeTwice
      <4> QED BY <3>1, <4>2, <4>3 DEF DomInv, Dominated
    <3> QED BY <3>2, <3>3
  <2>11. CASE Listed(k) /\ ~ExecTaken(k) /\ ~ForkTaken(k)
    <3>1. CASE processes'[k] = processes[k]
      BY <2>4, <2>11, <3>1 DEF Listed
    <3>2. CASE processes'[k] = mirror[k]
      BY <1>1, <2>11, <3>2 DEF Listed
    <3> QED BY <2>11, <3>1, <3>2 DEF Listed
  <2>12. CASE Hooked(k) /\ ~ExecTaken(k) /\ ~ForkTaken(k)
    BY <2>4, <2>12 DEF Hooked
  <2> QED BY <1>3, <2>1, <2>2, <2>5, <2>6, <2>7, <2>8, <2>9, <2>10, <2>11, <2>12 DEF DaemonDoes
<1> QED BY <1>2, <1>3

(* Consumers know what the mirror holds, or an event will tell them. *)
LEMMA ConsStep ==
  ASSUME NEW P, OnePriority(P), BaseInv(P), NEW k \in Key, ~Ended(k),
         EventInv(k), DomInv(k), ConsInv(k),
         \/ KernelDoes(k) /\ UNCHANGED uvars
         \/ DaemonDoes(k) /\ UNCHANGED <<life, comm, bpf>>
  PROVE  ConsInv(k)'
<1> FirstInv(k) /\ JobInv(k) /\ Living(k)
  BY DEF EventInv, BaseInv, AliveInv
<1> mirror[k] \in Entry /\ processes[k] \in Entry
  BY DaemonUpserts
<1>1. CASE KernelDoes(k) /\ UNCHANGED uvars
  <2>1. UNCHANGED <<mirror, notified, pc, job>>
    BY <1>1 DEF uvars
  <2>2. About(k) \subseteq About(k)' /\ (Queued("exec", k) => Queued("exec", k)')
    BY <1>1, KernelRing
  <2>3. Silent(k) => Silent(k)'
    BY <2>1, <2>2 DEF Silent
  <2> QED BY <2>1, <2>2, <2>3 DEF ConsInv, Reporting
<1>2. CASE DaemonDoes(k) /\ UNCHANGED <<life, comm, bpf>>
  <2>1. ASSUME mirror'[k] # Absent, notified'[k] = mirror'[k] PROVE ConsInv(k)'
    BY <2>1 DEF ConsInv
  <2>2. CASE ExecTaken(k)
    <3>1. Reporting(k)' /\ notified'[k] = notified[k]
      BY <2>2 DEF ExecTaken, Reporting
    <3>2. mirror'[k] = Absent => mirror[k] = Absent
      BY <1>2, EntryStays
    <3> QED BY <3>1, <3>2 DEF ConsInv
  <2>3. ~ExecTaken(k) /\ ~ForkTaken(k) => About(k)' = About(k)
    BY <1>2, DaemonRing
  <2>4. ASSUME mirror'[k] = mirror[k], notified'[k] = notified[k],
               pc \in {"fork", "exec"} /\ job.key = k => UNCHANGED <<pc, job>>,
               ~ExecTaken(k), ~ForkTaken(k)
        PROVE  ConsInv(k)'
    <3>1. Reporting(k) => Reporting(k)'
      BY <2>3, <2>4 DEF Reporting, Queued
    <3>2. Silent(k) => Silent(k)'
      BY <2>3, <2>4 DEF Silent
    <3> QED BY <2>4, <3>1, <3>2 DEF ConsInv
  <2>5. CASE DaemonElsewhere(k) /\ ~ExecTaken(k) /\ ~ForkTaken(k)
    BY <2>4, <2>5 DEF DaemonElsewhere, EntrySame, Handling
  <2>6. CASE PolicySet(k) /\ ~ExecTaken(k) /\ ~ForkTaken(k)
    BY <2>4, <2>6 DEF PolicySet, EntrySame
  <2>7. CASE ForkTaken(k) /\ ~ExecTaken(k)
    <3>1. PICK e \in Event :
           /\ Taken(k, e) /\ pc = "free" /\ pc' = "fork" /\ job'.key = k
           /\ \/ e.hasMark /\ job'.value = e.value /\ Upserted(k, e.value)
              \/ ~e.hasMark /\ mirror'[k] = mirror[k] /\ notified'[k] = notified[k]
      BY <2>7 DEF ForkTaken, EntrySame
    <3>2. Reporting(k) => Reporting(k)'
      BY <1>2, <2>7, <3>1, DaemonRing DEF Reporting
    <3>3. ASSUME Silent(k) PROVE Reports(e, mirror[k])
      <4>1. PICK f \in About(k) : Reports(f, mirror[k])
        BY <3>1, <3>3 DEF Silent
      <4> QED BY <3>1, <4>1 DEF Reports, Taken, FirstInv
    <3>4. CASE ~e.hasMark /\ mirror'[k] = mirror[k] /\ notified'[k] = notified[k]
      BY <3>2, <3>3, <3>4 DEF ConsInv, Reports
    <3>5. CASE e.hasMark /\ job'.value = e.value /\ Upserted(k, e.value)
      <4>1. e.value \in Entry /\ e.value # Absent
        BY AbsentAssumption DEF Event, Entry
      <4>2. CASE EntrySame(k)
        <5>1. Silent(k) => Silent(k)'
          BY <3>1, <3>3, <3>5, <4>2 DEF Silent, Reports, EntrySame
        <5> QED BY <3>2, <4>2, <5>1 DEF ConsInv, EntrySame
      <4>3. CASE ~EntrySame(k)
        BY <2>1, <3>5, <4>1, <4>3, UpsertTells
      <4> QED BY <4>2, <4>3
    <3> QED BY <3>1, <3>4, <3>5
  <2>8. CASE EventDecided(k) /\ ~ExecTaken(k) /\ ~ForkTaken(k)
    <3>1. job.key = k /\ Handling(k)
      BY <2>8 DEF EventDecided, Handling
    <3>2. CASE pc = "fork"
      <4>1. UpsertedNow(k, ForkValue(job)) /\ ForkValue(job) \in Entry
        BY <2>8, <3>1, <3>2, DaemonUpserts DEF EventDecided
      <4>2. CASE ~EntrySame(k)
        BY <2>1, <4>1, <4>2, UpsertTells
      <4>3. CASE EntrySame(k) /\ Silent(k)
        <5>1. ~\E e \in About(k) : Reports(e, mirror[k])
          BY <3>1 DEF FirstInv, Queued, Reports
        <5>2. /\ job.value = mirror[k] /\ mirror[k] # Absent
              /\ mirror[k].hasMark /\ ~mirror[k].inheritance
          BY <4>3, <5>1 DEF Silent
        <5> QED BY <2>1, <3>1, <3>2, <4>1, <5>2, ForkTells
      <4>4. CASE EntrySame(k) /\ ~Silent(k)
        <5>1. Reporting(k) => Reporting(k)'
          BY <2>3, <2>8, <3>2 DEF Reporting, Queued
        <5> QED BY <4>4, <5>1 DEF ConsInv, EntrySame
      <4> QED BY <4>2, <4>3, <4>4
    <3>3. CASE pc = "exec"
      <4>1. UpsertedNow(k, ExecValue(job))
        BY <2>8, <3>3 DEF EventDecided
      <4>2. CASE mirror[k] = Absent /\ EntrySame(k)
        BY <4>2 DEF ConsInv, EntrySame
      <4> QED BY <2>1, <3>1, <3>3, <4>1, <4>2, ExecTells
    <3> QED BY <2>8, <3>2, <3>3 DEF EventDecided
  <2>9. CASE Visited(k) /\ ~ExecTaken(k) /\ ~ForkTaken(k)
    <3>1. PICK p \in Entry : UpsertedNow(k, WalkValue(k, p))
      BY <2>9 DEF Visited
    <3>2. CASE EntrySame(k)
      BY <2>4, <2>9, <3>2 DEF EntrySame, Visited
    <3>3. CASE ~EntrySame(k)
      BY <2>1, <3>1, <3>3, UpsertTells, DaemonUpserts
    <3> QED BY <3>2, <3>3
  <2>10. CASE Refreshed(k) /\ ~ExecTaken(k) /\ ~ForkTaken(k)
    <3>1. /\ pc = "refresh" /\ mirror'[k] = MergeKernelEntry(k) /\ notified'[k] = notified[k]
      BY <2>10 DEF Refreshed
    <3>2. CASE mirror'[k] = mirror[k]
      BY <2>4, <2>10, <3>1, <3>2
    <3>3. CASE mirror'[k] # mirror[k]
      <4>1. processes[k] # Absent /\ mirror'[k] = MergeEntry(mirror[k], processes[k])
        BY <3>1, <3>3 DEF MergeKernelEntry
      <4>2. mirror'[k] = processes[k]
        BY <3>3, <4>1, MergeEntryFacts DEF Entry
      <4>3. ~Dominated(k)
        BY <3>3, <4>1 DEF Dominated
      <4>4. CASE Reporting(k)
        <5>1. Reporting(k)'
          BY <2>3, <2>10, <3>1, <4>4 DEF Reporting, Queued
        <5> QED BY <4>1, <4>2, <5>1 DEF ConsInv
      <4>5. ASSUME NEW e \in About(k), Reports(e, processes[k]) PROVE ConsInv(k)'
        <5>1. e \in About(k)' /\ Reports(e, mirror'[k])
          BY <2>3, <2>10, <4>2, <4>5
        <5>2. Silent(k)'
          BY <5>1 DEF Silent
        <5> QED BY <4>1, <4>2, <5>2 DEF ConsInv
      <4> QED BY <4>3, <4>4, <4>5 DEF DomInv
    <3> QED BY <3>2, <3>3
  <2>11. CASE Listed(k) /\ ~ExecTaken(k) /\ ~ForkTaken(k)
    BY <2>4, <2>11 DEF Listed
  <2>12. CASE Hooked(k) /\ ~ExecTaken(k) /\ ~ForkTaken(k)
    <3>1. notified'[k] = mirror'[k]
      BY <2>12 DEF Hooked, Live, Living, Tombstone
    <3> QED BY <3>1 DEF ConsInv
  <2> QED BY <1>2, <2>2, <2>5, <2>6, <2>7, <2>8, <2>9, <2>10, <2>11, <2>12 DEF DaemonDoes
<1> QED BY <1>1, <1>2

(* ConsumersInSync: when nothing about a running process is under way, the  *)
(* consumers of ProcessUpdate hold the mark that the mirror holds for it,   *)
(* although a refresh and the first half of an exec change the mirror       *)
(* without telling them.  Assumed: as for MatchIsEnforced, and a ring that  *)
(* drops nothing, as the event of an exec is what makes up for such a       *)
(* silent change.  That iterations do not fail, and leaders do not exit     *)
(* early, only the proof needs.                                             *)
THEOREM ConsumersFollow ==
  ASSUME AbortIteration = FALSE, ApiMarks = {}, LeaderExits = FALSE, Lossy = FALSE,
         NEW CONSTANT P, OnePriority(P)
  PROVE  Spec => []ConsumersInSync
<1> DEFINE Inv == /\ BaseInv(P)
                  /\ \A k \in Key : ~Ended(k) => EventInv(k) /\ DomInv(k) /\ ConsInv(k)
<1>1. Init => Inv
  <2> SUFFICES ASSUME Init
               PROVE  BaseInv(P) /\ \A k \in Key : EventInv(k) /\ DomInv(k) /\ ConsInv(k)
    OBVIOUS
  <2>1. BaseInv(P)
    BY BaseInit
  <2> SUFFICES ASSUME NEW k \in Key PROVE EventInv(k) /\ DomInv(k) /\ ConsInv(k)
    BY <2>1
  <2>2. mirror[k] = Absent /\ processes[k] = Absent /\ notified[k] = Absent
    BY InitFacts
  <2>3. DomInv(k) /\ ConsInv(k)
    BY <2>2 DEF DomInv, Dominated, ConsInv
  <2> QED BY <2>3, EventInit
<1>2. Inv /\ [Next]_vars => Inv'
  <2> SUFFICES ASSUME Inv, [Next]_vars PROVE Inv'
    OBVIOUS
  <2>1. BaseInv(P)'
    BY BaseStep
  <2>2. ASSUME NEW k \in Key, ~Ended(k)' PROVE EventInv(k)' /\ DomInv(k)' /\ ConsInv(k)'
    <3>1. /\ ~Ended(k)
          /\ \/ KernelDoes(k) /\ UNCHANGED uvars
             \/ DaemonDoes(k) /\ UNCHANGED <<life, comm, bpf>>
      BY <2>2, StepCases
    <3>2. EventInv(k) /\ DomInv(k) /\ ConsInv(k)
      BY <3>1
    <3>3. EventInv(k)'
      BY <2>1, <2>2, <3>1, <3>2, EventStep
    <3> QED BY <3>1, <3>2, <3>3, DomStep, ConsStep
  <2> QED BY <2>1, <2>2
<1>3. Inv => ConsumersInSync
  <2> SUFFICES ASSUME Inv, NEW k \in Key, Settled(k), life[k] = "running"
               PROVE  notified[k] = mirror[k]
    BY DEF ConsumersInSync
  <2>1. pc = "free" /\ ~Ended(k) /\ About(k) = {} /\ ~Queued("exec", k)
    BY SettledFacts
  <2> QED BY <2>1 DEF ConsInv, Reporting, Silent
<1> QED BY <1>1, <1>2, <1>3, PTL DEF Spec
=============================================================================
