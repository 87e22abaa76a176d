---------------------------- MODULE PMarkProofs ----------------------------
(***************************************************************************)
(* Type correctness of the whole system; the proofs that the daemon's      *)
(* mirror implements the abstract registry, that it converges with the     *)
(* pinned map (MapsConverge), and that no policy switch forgets a process  *)
(* (NoStaleGeneration); for any number of processes, policies and events,  *)
(* with a lossy ring, full maps and failing iterations.                    *)
(***************************************************************************)
EXTENDS PMark, ProcessValueProofs, SequenceTheorems

(* What a program in flight and the holder of the mutex have in their       *)
(* hands: a fork that goes on has a parent's value, an event handler works  *)
(* on a tracked process, a sweep on entries that exist.                     *)
HandsOK ==
    /\ \A c \in Key : bpf[c].stage = "fork" => bpf[c].seen \in ProcessValue
    /\ pc \in {"fork", "exec"} => job.key \in Key
    /\ pc = "sweep" => \A k \in trav.todo : mirror[k] \in ProcessValue

IInv == TypeOK /\ HandsOK

-----------------------------------------------------------------------------
(* Helpers of the kernel side *)

(* A lookup yields an entry. *)
LEMMA LookupType ==
  ASSUME NEW m \in [Key -> Entry], NEW k \in Key \cup {Foreign}
  PROVE  Lookup(m, k) \in Entry
BY DEF Lookup, Entry

(* An event always carries a struct. *)
LEMMA ValueOfType == ASSUME NEW e \in Entry PROVE ValueOf(e) \in ProcessValue
BY ZeroType DEF ValueOf, Entry

(* canInherit is a Boolean, and holds of values only. *)
LEMMA CanInheritFacts ==
  ASSUME NEW e \in Entry
  PROVE  /\ CanInherit(e) \in BOOLEAN
         /\ CanInherit(e) => e \in ProcessValue
         /\ Live(e) => e \in ProcessValue
         /\ Tombstone(e) => e \in ProcessValue
BY DEF CanInherit, Live, Tombstone, Entry

(* Submit keeps the ring typed. *)
LEMMA SubmitType ==
  ASSUME KernelTypeOK, NEW type \in Program, NEW k \in Key,
         NEW pk \in Key \cup {Foreign}, NEW found \in Entry, NEW e \in Entry,
         Submit(type, k, pk, found, e)
  PROVE  events' \in Seq(Event) /\ lost' \subseteq Key
<1> DEFINE ev == [type |-> type, key |-> k, parentKey |-> pk, hasMark |-> CanInherit(found),
                  value |-> ValueOf(e), comm |-> comm[k]]
<1>1. ev \in Event
  <2>1. CanInherit(found) \in BOOLEAN /\ ValueOf(e) \in ProcessValue /\ comm[k] \in Comm
    BY CanInheritFacts, ValueOfType DEF KernelTypeOK
  <2> QED BY <2>1 DEF Event
<1> HIDE DEF ev
<1>2. Append(events, ev) \in Seq(Event)
  BY <1>1, AppendProperties DEF KernelTypeOK
<1> QED BY <1>2 DEF Submit, KernelTypeOK, ev

(* Advance keeps the clock a natural number. *)
LEMMA AdvanceType ==
  ASSUME clock \in Nat, NEW t \in Nat, Advance(t)
  PROVE  clock' \in Nat
BY DEF Advance

(* A program in flight holds an entry, a rule and a timestamp. *)
LEMMA InFlightFields ==
  ASSUME KernelTypeOK, NEW k \in Key
  PROVE  /\ bpf[k] \in InFlight /\ bpf[k].seen \in Entry /\ bpf[k].time \in Nat
         /\ bpf[k].forker \in Key \cup {Foreign}
         /\ bpf[k].rule \in Decision \cup {NoMatch} /\ bpf[k].generation \in Nat
         /\ Stamp(k) \subseteq Nat /\ Now \in Nat
         /\ processes[k] \in Entry
<1>1. bpf[k] \in InFlight /\ clock \in Nat /\ processes[k] \in Entry
  BY DEF KernelTypeOK
<1> QED BY <1>1 DEF InFlight, Stamp, Now

(* The initial slot of every key is a well-formed one. *)
LEMMA IdleType == Idle \in InFlight /\ Idle.stage = "idle"
BY DEF Idle, InFlight, Stage, Program, Entry

-----------------------------------------------------------------------------
(* Steps of the kernel *)

(* The processes and the BPF programs keep the kernel's state well typed,   *)
(* and a fork that goes on to its update has seen a live parent.            *)
LEMMA KernelStepType ==
  ASSUME KernelTypeOK, KernelNext \/ Tick,
         \A c \in Key : bpf[c].stage = "fork" => bpf[c].seen \in ProcessValue
  PROVE  /\ KernelTypeOK'
         /\ \A c \in Key : bpf'[c].stage = "fork" => bpf'[c].seen \in ProcessValue
<1> DEFINE ForkSeen == \A c \in Key : bpf[c].stage = "fork" => bpf[c].seen \in ProcessValue
<1> ForkSeen
  OBVIOUS
<1> SUFFICES KernelTypeOK' /\ ForkSeen'
  OBVIOUS
<1> USE KernelAssumption, IdleType
<1>1. ASSUME NEW k \in Key, NEW v \in InFlight, bpf' = [bpf EXCEPT ![k] = v],
             v.stage = "fork" => v.seen \in ProcessValue
      PROVE  bpf' \in [Key -> InFlight] /\ ForkSeen'
  BY <1>1 DEF KernelTypeOK
<1>2. ASSUME NEW k \in Key, Finish(k)
      PROVE  bpf' \in [Key -> InFlight] /\ ForkSeen'
  BY <1>2 DEF KernelTypeOK, Finish
<1>3. ASSUME NEW c \in Key, NEW p \in Key \cup {Foreign}, NEW pk \in Key \cup {Foreign},
             Clone(p, c, pk)
      PROVE  KernelTypeOK' /\ ForkSeen'
  <2> DEFINE v == [Idle EXCEPT !.stage = "clone", !.forker = pk]
  <2>1. v \in InFlight /\ v.stage = "clone"
    BY DEF InFlight, Stage
  <2>2. bpf' = [bpf EXCEPT ![c] = v]
    BY <1>3 DEF Clone
  <2> HIDE DEF v
  <2>3. bpf' \in [Key -> InFlight] /\ ForkSeen'
    BY <1>1, <2>1, <2>2
  <2>4. comm' \in [Key -> Comm] /\ life' \in [Key -> Life] /\ moves' \in Nat
        /\ parent' \in [Key -> Key \cup {Foreign}]
    BY <1>3 DEF Clone, Move, KernelTypeOK, Life
  <2> QED BY <1>3, <2>3, <2>4 DEF Clone, KernelTypeOK
<1>4. ASSUME NEW c \in Key, ForkLookup(c)
      PROVE  KernelTypeOK' /\ ForkSeen'
  <2> DEFINE pk == bpf[c].forker
             pv == Lookup(processes, pk)
             v == [Idle EXCEPT !.stage = "fork", !.forker = pk, !.seen = pv, !.time = Now]
  <2>1. pk \in Key \cup {Foreign} /\ pv \in Entry /\ Now \in Nat /\ processes[c] \in Entry
    BY InFlightFields, LookupType DEF KernelTypeOK
  <2>2. CASE processes[c] = Absent /\ CanInherit(pv)
    <3>1. v \in InFlight /\ v.seen = pv /\ pv \in ProcessValue
      BY <2>1, <2>2, CanInheritFacts DEF InFlight, Stage, Program, Entry
    <3>2. bpf' = [bpf EXCEPT ![c] = v] /\ Advance(Now) /\ UNCHANGED <<events, lost>>
      BY <1>4, <2>2 DEF ForkLookup
    <3> HIDE DEF v
    <3>3. bpf' \in [Key -> InFlight] /\ ForkSeen'
      BY <1>1, <3>1, <3>2
    <3>4. clock' \in Nat
      BY <2>1, <3>2, AdvanceType DEF KernelTypeOK
    <3> QED BY <1>4, <3>2, <3>3, <3>4 DEF ForkLookup, KernelTypeOK
  <2>3. CASE ~(processes[c] = Absent /\ CanInherit(pv))
    <3>1. Submit("fork", c, pk, processes[c], processes[c]) /\ Finish(c) /\ UNCHANGED clock
      BY <1>4, <2>3 DEF ForkLookup
    <3>2. events' \in Seq(Event) /\ lost' \subseteq Key
      BY <2>1, <3>1, SubmitType DEF Program
    <3> QED BY <1>2, <1>4, <3>1, <3>2 DEF ForkLookup, KernelTypeOK
  <2> QED BY <2>2, <2>3
<1>5. ASSUME NEW c \in Key, ForkCommit(c)
      PROVE  KernelTypeOK' /\ ForkSeen'
  <2> PICK t \in Stamp(c) :
         LET copy == ForkCopy(bpf[c].seen, t)
             now == processes[c]
             put == now = Absent /\ CanPut(c)
         IN  /\ Advance(t)
             /\ processes' = IF put THEN [processes EXCEPT ![c] = copy] ELSE processes
             /\ Submit("fork", c, bpf[c].forker,
                       IF put THEN copy ELSE now,
                       IF now = Absent THEN copy ELSE now)
    BY <1>5 DEF ForkCommit
  <2> DEFINE copy == ForkCopy(bpf[c].seen, t)
             now == processes[c]
             put == now = Absent /\ CanPut(c)
             found == IF put THEN copy ELSE now
             value == IF now = Absent THEN copy ELSE now
  <2>1. t \in Nat /\ bpf[c].forker \in Key \cup {Foreign} /\ now \in Entry
    BY InFlightFields
  <2>2. bpf[c].seen \in ProcessValue
    BY <1>5 DEF ForkCommit
  <2>3. bpf[c].seen.generation \in Nat
    BY <2>2 DEF ProcessValue
  <2>4. copy \in ProcessValue
    BY <2>1, <2>2, <2>3, ConstructorTypes DEF ForkCopy
  <2>5. Submit("fork", c, bpf[c].forker, found, value)
        /\ processes' = (IF put THEN [processes EXCEPT ![c] = copy] ELSE processes)
    OBVIOUS
  <2>6. found \in Entry /\ value \in Entry
    BY <2>1, <2>4 DEF Entry
  <2> HIDE DEF copy, now, put, found, value
  <2>7. events' \in Seq(Event) /\ lost' \subseteq Key
    BY <2>1, <2>5, <2>6, SubmitType DEF Program
  <2>8. processes' \in [Key -> Entry]
    BY <2>4, <2>5 DEF KernelTypeOK, Entry
  <2>9. clock' \in Nat
    BY <2>1, AdvanceType DEF KernelTypeOK
  <2> QED BY <1>2, <1>5, <2>7, <2>8, <2>9 DEF ForkCommit, KernelTypeOK
<1>6. ASSUME NEW k \in Key, NEW c \in Comm, Execve(k, c)
      PROVE  KernelTypeOK' /\ ForkSeen'
  <2> DEFINE v == [Idle EXCEPT !.stage = "execve"]
  <2>1. v \in InFlight /\ v.stage = "execve"
    BY DEF InFlight, Stage
  <2>2. bpf' = [bpf EXCEPT ![k] = v]
    BY <1>6 DEF Execve
  <2> HIDE DEF v
  <2>3. bpf' \in [Key -> InFlight] /\ ForkSeen'
    BY <1>1, <2>1, <2>2
  <2> QED BY <1>6, <2>3 DEF Execve, Move, KernelTypeOK, Life
<1>7. ASSUME NEW k \in Key, ExecLookup(k)
      PROVE  KernelTypeOK' /\ ForkSeen'
  <2> DEFINE decides == active.generation # 0 /\ active.mode # "userspace-only"
             v == [Idle EXCEPT !.stage = "exec", !.seen = processes[k],
                     !.rule = active.rules[comm[k]], !.generation = active.generation,
                     !.time = Now]
  <2>1. Now \in Nat /\ processes[k] \in Entry
    BY InFlightFields
  <2>2. CASE decides
    <3>1. active.generation \in Nat /\ active.rules[comm[k]] \in Decision \cup {NoMatch}
      BY DEF KernelTypeOK, ActivePolicy, RuleTable
    <3>2. v \in InFlight /\ v.stage = "exec"
      BY <2>1, <3>1 DEF InFlight, Stage, Program
    <3>3. bpf' = [bpf EXCEPT ![k] = v] /\ Advance(Now) /\ UNCHANGED <<events, lost>>
      BY <1>7, <2>2 DEF ExecLookup
    <3> HIDE DEF v
    <3>4. bpf' \in [Key -> InFlight] /\ ForkSeen'
      BY <1>1, <3>2, <3>3
    <3>5. clock' \in Nat
      BY <2>1, <3>3, AdvanceType DEF KernelTypeOK
    <3> QED BY <1>7, <3>3, <3>4, <3>5 DEF ExecLookup, KernelTypeOK
  <2>3. CASE ~decides
    <3>1. /\ Submit("exec", k, Foreign, processes[k], processes[k])
          /\ Finish(k) /\ UNCHANGED clock
      BY <1>7, <2>3 DEF ExecLookup
    <3>2. events' \in Seq(Event) /\ lost' \subseteq Key
      BY <2>1, <3>1, SubmitType DEF Program
    <3> QED BY <1>2, <1>7, <3>1, <3>2 DEF ExecLookup, KernelTypeOK
  <2> QED BY <2>2, <2>3
<1>8. ASSUME NEW k \in Key, ExecCommit(k)
      PROVE  KernelTypeOK' /\ ForkSeen'
  <2> DEFINE seen == bpf[k].seen
             decided(rule) == rule # NoMatch \/ (active.mode = "authoritative" /\ seen # Absent)
             candidate(t, rule) == IF rule # NoMatch
                                   THEN NewProcessValue(rule, active.generation, t)
                                   ELSE ExecMiss(seen, active.generation, t)
             put(t, rule) == /\ decided(rule)
                             /\ seen = Absent \/ NextProcessValueWins(seen, candidate(t, rule))
                             /\ CanPut(k)
             value(t, rule) == IF put(t, rule) THEN candidate(t, rule) ELSE seen
  <2>1. PICK t \in Stamp(k), rule \in RuleFound(k) :
          /\ Advance(t)
          /\ processes' = IF put(t, rule) THEN [processes EXCEPT ![k] = candidate(t, rule)]
                          ELSE processes
          /\ Submit("exec", k, Foreign, value(t, rule), value(t, rule))
    BY <1>8 DEF ExecCommit
  <2>2. t \in Nat /\ seen \in Entry /\ active.generation \in Nat
        /\ rule \in Decision \cup {NoMatch}
    BY InFlightFields DEF RuleFound, KernelTypeOK, ActivePolicy
  <2>3. ASSUME put(t, rule) PROVE candidate(t, rule) \in ProcessValue
    <3>1. CASE rule # NoMatch
      BY <2>2, <3>1, ExplicitType DEF Decision
    <3>2. CASE rule = NoMatch
      <4>1. seen \in ProcessValue
        BY <2>2, <2>3, <3>2 DEF Entry
      <4> QED BY <2>2, <3>2, <4>1, ConstructorTypes DEF ExecMiss
    <3> QED BY <3>1, <3>2
  <2>4. value(t, rule) \in Entry
    BY <2>2, <2>3 DEF Entry
  <2> HIDE DEF candidate, put, value
  <2>5. events' \in Seq(Event) /\ lost' \subseteq Key
    BY <2>1, <2>4, SubmitType DEF Program
  <2>6. processes' \in [Key -> Entry]
    BY <2>1, <2>3 DEF KernelTypeOK, Entry
  <2>7. clock' \in Nat
    BY <2>1, <2>2, AdvanceType DEF KernelTypeOK
  <2> QED BY <1>2, <1>8, <2>5, <2>6, <2>7 DEF ExecCommit, KernelTypeOK
<1>9. ASSUME NEW k \in Key, ExitLookup(k)
      PROVE  KernelTypeOK' /\ ForkSeen'
  <2> DEFINE v == [Idle EXCEPT !.stage = "exit", !.seen = processes[k], !.time = Now]
  <2>1. Now \in Nat /\ processes[k] \in Entry
    BY InFlightFields
  <2>2. v \in InFlight /\ v.stage = "exit"
    BY <2>1 DEF InFlight, Stage, Program
  <2>3. bpf' = [bpf EXCEPT ![k] = v]
    BY <1>9 DEF ExitLookup
  <2> HIDE DEF v
  <2>4. bpf' \in [Key -> InFlight] /\ ForkSeen'
    BY <1>1, <2>2, <2>3
  <2>5. clock' \in Nat
    BY <1>9, <2>1, AdvanceType DEF ExitLookup, KernelTypeOK
  <2> QED BY <1>9, <2>4, <2>5 DEF ExitLookup, Move, KernelTypeOK
<1>10. ASSUME NEW k \in Key, NEW others \in BOOLEAN, Die(k, others)
       PROVE  life' \in [Key -> Life] /\ parent' \in [Key -> Key \cup {Foreign}]
  BY <1>10 DEF Die, KernelTypeOK, Life
<1>11. ASSUME NEW k \in Key, NEW others \in BOOLEAN, ExitCommit(k, others)
       PROVE  KernelTypeOK' /\ ForkSeen'
  <2>1. /\ processes' \in [Key -> Entry] /\ clock' \in Nat
        /\ events' \in Seq(Event) /\ lost' \subseteq Key
    <3>1. CASE bpf[k].seen = Absent
      <4>1. Submit("exit", k, Foreign, Absent, Absent) /\ UNCHANGED <<processes, clock>>
        BY <1>11, <3>1 DEF ExitCommit
      <4> QED BY <4>1, SubmitType DEF Program, Entry, KernelTypeOK
    <3>2. CASE bpf[k].seen # Absent
      <4> DEFINE tomb(t) == [bpf[k].seen EXCEPT !.tombstone = TRUE, !.timestamp = t]
      <4> PICK t \in Stamp(k) :
            /\ Advance(t)
            /\ processes' = IF CanPut(k) THEN [processes EXCEPT ![k] = tomb(t)] ELSE processes
            /\ Submit("exit", k, Foreign, bpf[k].seen, tomb(t))
        BY <1>11, <3>2 DEF ExitCommit
      <4>1. t \in Nat /\ bpf[k].seen \in ProcessValue
        BY <3>2, InFlightFields DEF Entry
      <4>2. tomb(t) \in ProcessValue
        BY <4>1, ConstructorTypes
      <4> HIDE DEF tomb
      <4>3. events' \in Seq(Event) /\ lost' \subseteq Key
        BY <4>1, <4>2, SubmitType DEF Program, Entry
      <4>4. processes' \in [Key -> Entry]
        BY <4>2 DEF KernelTypeOK, Entry
      <4>5. clock' \in Nat
        BY <4>1, AdvanceType DEF KernelTypeOK
      <4> QED BY <4>3, <4>4, <4>5
    <3> QED BY <3>1, <3>2
  <2> QED BY <1>2, <1>10, <1>11, <2>1 DEF ExitCommit, KernelTypeOK
<1>12. ASSUME NEW k \in Key, LastThreadExit(k) \/ Reap(k)
       PROVE  KernelTypeOK' /\ ForkSeen'
  <2>1. life' \in [Key -> Life] /\ parent' \in [Key -> Key \cup {Foreign}]
    <3>1. CASE LastThreadExit(k)
      BY <1>10, <3>1 DEF LastThreadExit
    <3>2. CASE Reap(k)
      BY <3>2 DEF Reap, KernelTypeOK, Life
    <3> QED BY <1>12, <3>1, <3>2
  <2> QED BY <1>12, <2>1 DEF LastThreadExit, Reap, KernelTypeOK
<1>13. ASSUME NEW k \in Key, UnobservedStep(k)
       PROVE  KernelTypeOK' /\ ForkSeen'
  <2>1. /\ bpf' \in [Key -> InFlight] /\ ForkSeen' /\ life' \in [Key -> Life]
        /\ parent' \in [Key -> Key \cup {Foreign}] /\ moves' \in Nat
    <3>1. CASE Finish(k) /\ UNCHANGED <<life, parent, moves>>
      BY <1>2, <3>1 DEF KernelTypeOK
    <3>2. CASE Move /\ Die(k, FALSE) /\ UNCHANGED bpf
      <4>1. FALSE \in BOOLEAN
        OBVIOUS
      <4>2. life' \in [Key -> Life] /\ parent' \in [Key -> Key \cup {Foreign}]
        BY <1>10, <3>2, <4>1
      <4> QED BY <3>2, <4>2 DEF Move, KernelTypeOK
    <3> QED BY <1>13, <3>1, <3>2 DEF UnobservedStep, Unobserved
  <2> QED BY <1>13, <2>1 DEF UnobservedStep, KernelTypeOK
<1>14. CASE Tick
  <2>1. Now \in Nat
    BY DEF Now, KernelTypeOK
  <2>2. clock' \in Nat
    BY <1>14, <2>1, AdvanceType DEF Tick, KernelTypeOK
  <2> QED BY <1>14, <2>2 DEF Tick, Move, KernelTypeOK
<1> QED BY <1>3, <1>4, <1>5, <1>6, <1>7, <1>8, <1>9, <1>11, <1>12, <1>13, <1>14 DEF KernelNext

-----------------------------------------------------------------------------
(* Helpers of the daemon *)

(* What one step may do to the mirror: the abstract registry's step.        *)
MirrorStep ==
    /\ mirror' \in [Key -> Entry]
    /\ \A k \in Key : mirror'[k] = mirror[k] \/ Mirror!Improve(k) \/ Mirror!Drop(k)

(* The maps that an upsert writes. *)
MapsOK ==
    /\ mirror \in [Key -> Entry] /\ notified \in [Key -> Entry]
    /\ processes \in [Key -> Entry] /\ unsynced \subseteq Key

(* An entry that takes the winner of a merge has improved. *)
LEMMA ImproveFacts ==
  ASSUME NEW k \in Key, NEW v \in ProcessValue, mirror[k] \in Entry,
         mirror'[k] = MergeEntry(mirror[k], v)
  PROVE  Mirror!Improve(k)
<1>1. mirror'[k] \in ProcessValue
  BY MergeEntryFacts
<1>2. MergeEntry(mirror[k], mirror'[k]) = mirror'[k]
  BY MergeIdempotent
<1> QED BY <1>1, <1>2 DEF Mirror!Improve, Mirror!MergeEntry, Mirror!PreferProcessValue,
        Mirror!OldPreferred, Mirror!ProcessValue, Mirror!Int8, MergeEntry,
        PreferProcessValue, OldPreferred, ProcessValue, Int8

(* Writing the kernel map keeps it typed, whether or not it is full. *)
LEMMA SyncKernelType ==
  ASSUME MapsOK, NEW k \in Key, NEW v \in Entry, SyncKernel(k, v)
  PROVE  processes' \in [Key -> Entry] /\ unsynced' \subseteq Key
BY DEF MapsOK, SyncKernel

(* An upsert improves one entry of the mirror and changes nothing else. *)
LEMMA UpsertFacts ==
  ASSUME MapsOK, NEW k \in Key, NEW v \in ProcessValue, NEW log, Upsert(k, v, log)
  PROVE  MapsOK' /\ MirrorStep /\ mirror'[k] \in ProcessValue
         /\ \A j \in Key \ {k} : mirror'[j] = mirror[j]
<1> DEFINE w == MergeEntry(mirror[k], v)
<1>1. w \in ProcessValue /\ w \in Entry
  BY MergeEntryFacts DEF MapsOK, Entry
<1>2. CASE w = mirror[k]
  BY <1>1, <1>2 DEF Upsert, MapsOK, MirrorStep
<1>3. CASE w # mirror[k]
  <2>1. /\ mirror' = [mirror EXCEPT ![k] = w] /\ SyncKernel(k, w)
        /\ notified' = IF log THEN [notified EXCEPT ![k] = w] ELSE notified
    BY <1>3 DEF Upsert
  <2>2. mirror'[k] = w /\ \A j \in Key \ {k} : mirror'[j] = mirror[j]
    BY <2>1 DEF MapsOK
  <2>3. Mirror!Improve(k)
    BY <2>2, ImproveFacts DEF MapsOK
  <2> HIDE DEF w
  <2>4. MapsOK'
    BY <1>1, <2>1, SyncKernelType DEF MapsOK
  <2> QED BY <1>1, <2>2, <2>3, <2>4 DEF MirrorStep, MapsOK
<1> QED BY <1>2, <1>3

(* The same for an upsert that may be skipped. *)
LEMMA UpsertNowFacts ==
  ASSUME MapsOK, clock \in Nat, NEW k \in Key, NEW v \in Entry, UpsertNow(k, v)
  PROVE  MapsOK' /\ MirrorStep /\ clock' \in Nat
         /\ \A j \in Key \ {k} : mirror'[j] = mirror[j]
<1>1. CASE v = Absent
  BY <1>1 DEF UpsertNow, NoUpsert, MapsOK, MirrorStep
<1>2. CASE v # Absent
  <2>1. v \in ProcessValue /\ Now \in Nat
    BY <1>2 DEF Entry, Now
  <2>2. Advance(Now) /\ Upsert(k, v, TRUE)
    BY <1>2 DEF UpsertNow
  <2>3. clock' \in Nat
    BY <2>1, <2>2, AdvanceType
  <2> QED BY <2>1, <2>2, <2>3, UpsertFacts
<1> QED BY <1>1, <1>2

(* A step that leaves the mirror alone. *)
LEMMA SameMirror == ASSUME MapsOK, UNCHANGED mirror PROVE MirrorStep
BY DEF MapsOK, MirrorStep

(* The components of the type invariant that userspace handles. *)
LEMMA TypeFacts ==
  ASSUME TypeOK
  PROVE  MapsOK /\ clock \in Nat /\ Now \in Nat /\ generation \in Nat
BY DEF TypeOK, KernelTypeOK, MarkerTypeOK, MapsOK, Now

(* The check callback answers with a decision or nothing. *)
LEMMA CheckType ==
  ASSUME TypeOK, NEW c \in Comm
  PROVE  policy.check[c] \in Decision \cup {NoMatch}
BY DEF TypeOK, MarkerTypeOK, Policy, RuleTable

(* The values that the event handlers and the traversal propose. *)
LEMMA CandidateTypes ==
  ASSUME TypeOK
  PROVE  /\ \A j \in Job : j.key \in Key => ForkValue(j) \in Entry /\ ExecValue(j) \in Entry
         /\ \A k \in Key, p \in Entry : WalkValue(k, p) \in Entry
<1> USE TypeFacts
<1>1. \A v \in ProcessValue : /\ InheritedValue(v, generation, Now) \in Entry
                              /\ NewNoMarkProcessValue(v, generation, Now) \in Entry
  BY ConstructorTypes DEF Entry
<1>2. \A d \in Decision : NewProcessValue(d, generation, Now) \in Entry
  BY ExplicitType DEF Decision, Entry
<1>3. ASSUME NEW j \in Job, j.key \in Key
      PROVE  ForkValue(j) \in Entry /\ ExecValue(j) \in Entry
  <2>1. j.comm \in Comm /\ j.value \in Entry /\ j.parentKey \in Key \cup {Foreign}
    BY DEF Job
  <2>2. policy.check[j.comm] \in Decision \cup {NoMatch}
    BY <2>1, CheckType
  <2>3. Lookup(mirror, j.parentKey) \in Entry /\ mirror[j.key] \in Entry
    BY <1>3, <2>1, LookupType DEF MapsOK
  <2>4. /\ CanInherit(Lookup(mirror, j.parentKey)) => Lookup(mirror, j.parentKey) \in ProcessValue
        /\ Live(mirror[j.key]) => mirror[j.key] \in ProcessValue
        /\ j.value # Absent => j.value \in ProcessValue
    BY <2>1, <2>3, CanInheritFacts DEF Entry
  <2>5. Absent \in Entry
    BY DEF Entry
  <2> QED BY <1>1, <1>2, <2>2, <2>4, <2>5 DEF ForkValue, ExecValue
<1>4. ASSUME NEW k \in Key, NEW p \in Entry PROVE WalkValue(k, p) \in Entry
  <2>1. policy.check[trav.comm[k]] \in Decision \cup {NoMatch}
    BY CheckType DEF TypeOK, MarkerTypeOK, Traversal
  <2>2. /\ CanInheritCurrent(p) => p \in ProcessValue
        /\ Live(mirror[k]) => mirror[k] \in ProcessValue
    BY CanInheritFacts DEF CanInheritCurrent, MapsOK
  <2>3. Absent \in Entry
    BY DEF Entry
  <2> QED BY <1>1, <1>2, <2>1, <2>2, <2>3 DEF WalkValue
<1> QED BY <1>3, <1>4

-----------------------------------------------------------------------------
(* Steps of the daemon *)

(* A step of the event goroutine, of a traversal, of Run or of the API      *)
(* keeps the whole state typed and takes the mirror through a step of the   *)
(* registry.                                                                *)
LEMMA DaemonStep ==
  ASSUME IInv,
         EventLoopStep \/ ForeignEvent \/ TraversalStep \/ RunStep \/ ApiStep
  PROVE  IInv' /\ MirrorStep
<1> TypeOK /\ HandsOK
  BY DEF IInv
<1> MapsOK /\ clock \in Nat /\ Now \in Nat /\ generation \in Nat
  BY TypeFacts
<1> USE MarkerAssumption, KernelAssumption
<1> DEFINE Rest == /\ life \in [Key -> Life] /\ comm \in [Key -> Comm]
                   /\ parent \in [Key -> Key \cup {Foreign}] /\ attached \subseteq Program
                   /\ active \in ActivePolicy /\ commRules \subseteq Nat
                   /\ bpf \in [Key -> InFlight] /\ events \in Seq(Event)
                   /\ clock \in Nat /\ lost \subseteq Key /\ moves \in Nat
                   /\ generation \in Nat /\ policy \in Policy
                   /\ pc \in PC /\ owner \in Owner /\ job \in Job /\ trav \in Traversal
                   /\ loop \in {"read", "collect"} /\ eventCounter \in Nat /\ boot \in Boot
<1>1. Rest /\ (MapsOK' /\ Rest' => TypeOK')
  BY DEF TypeOK, KernelTypeOK, MarkerTypeOK, MapsOK
<1>2. NoJob \in Job /\ NoTraversal \in Traversal
  BY DEF NoJob, Job, NoTraversal, Traversal, Entry
<1>3. CountEvent => eventCounter' \in Nat /\ loop' \in {"read", "collect"}
  BY DEF CountEvent, TypeOK, MarkerTypeOK
<1>4. ASSUME events # <<>>
      PROVE  LET e == Head(events)
             IN  /\ Tail(events) \in Seq(Event)
                 /\ e.key \in Key /\ e.value \in ProcessValue /\ e.comm \in Comm
                 /\ e.parentKey \in Key \cup {Foreign} /\ e.hasMark \in BOOLEAN
                 /\ \A v \in Entry : JobOf(e, v) \in Job /\ JobOf(e, v).key = e.key
  <2> DEFINE e == Head(events)
  <2>1. e \in Event /\ Tail(events) \in Seq(Event)
    BY <1>1, <1>4, HeadTailProperties
  <2> HIDE DEF e
  <2>2. /\ e.key \in Key /\ e.value \in ProcessValue /\ e.comm \in Comm
        /\ e.parentKey \in Key \cup {Foreign} /\ e.hasMark \in BOOLEAN
    BY <2>1 DEF Event
  <2>3. EventComm(e) \in Comm
    BY <1>1, <2>2 DEF EventComm
  <2>4. \A v \in Entry : JobOf(e, v) \in Job /\ JobOf(e, v).key = e.key
    BY <2>2, <2>3 DEF JobOf, Job
  <2> QED BY <2>1, <2>2, <2>4 DEF e
<1>5. ASSUME Release
      PROVE  /\ pc' = "free" /\ pc' \in PC /\ owner' \in Owner /\ trav' \in Traversal
             /\ boot' \in Boot /\ loop' \in {"read", "collect"} /\ commRules' \subseteq Nat
  BY <1>1, <1>2, <1>5 DEF Release, PC, Owner, Boot, NextBoot
<1>6. CASE RecvFork
  <2> DEFINE e == Head(events)
             existing == mirror[e.key]
  <2>1. /\ events # <<>> /\ events' = Tail(events)
        /\ pc' = "fork" /\ owner' = "events"
    BY <1>6 DEF RecvFork, Receive, Acquire
  <2>2. e.key \in Key /\ e.value \in ProcessValue /\ Tail(events) \in Seq(Event)
        /\ existing \in Entry /\ \A v \in Entry : JobOf(e, v) \in Job /\ JobOf(e, v).key = e.key
    BY <1>4, <2>1 DEF MapsOK
  <2> HIDE DEF e
  <2>3. MapsOK' /\ MirrorStep
    <3>1. CASE Upsert(e.key, e.value, TRUE)
      BY <2>2, <3>1, UpsertFacts
    <3>2. CASE SyncKernel(e.key, existing) /\ UNCHANGED <<mirror, notified>>
      BY <2>2, <3>2, SyncKernelType, SameMirror DEF MapsOK
    <3>3. CASE NoUpsert
      BY <3>3, SameMirror DEF NoUpsert, MapsOK
    <3> QED BY <1>6, <3>1, <3>2, <3>3 DEF RecvFork, e
  <2>4. job' \in Job /\ job'.key \in Key
    <3>1. \E v \in Entry : job' = JobOf(e, v)
      BY <1>6, <2>2 DEF RecvFork, e, Entry
    <3> QED BY <2>2, <3>1
  <2>5. Rest'
    BY <1>1, <1>6, <2>1, <2>2, <2>4 DEF RecvFork, KernelFrame, PC, Owner, e
  <2> QED BY <1>1, <1>6, <2>1, <2>3, <2>4, <2>5 DEF IInv, HandsOK, RecvFork, KernelFrame
<1>7. CASE DecideFork \/ DecideExec
  <2>1. job \in Job /\ job.key \in Key
    BY <1>1, <1>7 DEF DecideFork, DecideExec, HandsOK
  <2>2. ForkValue(job) \in Entry /\ ExecValue(job) \in Entry
    BY <2>1, CandidateTypes
  <2>3. MapsOK' /\ MirrorStep /\ clock' \in Nat
    BY <1>7, <2>1, <2>2, UpsertNowFacts DEF DecideFork, DecideExec
  <2>4. /\ pc' = "free" /\ owner' = "none" /\ job' = NoJob
        /\ eventCounter' \in Nat /\ loop' \in {"read", "collect"}
    BY <1>3, <1>7 DEF DecideFork, DecideExec, EventDone
  <2>5. Rest'
    BY <1>1, <1>2, <1>7, <2>3, <2>4 DEF DecideFork, DecideExec, KernelFrame, PC, Owner
  <2> QED BY <1>1, <1>7, <2>3, <2>4, <2>5
          DEF IInv, HandsOK, DecideFork, DecideExec, KernelFrame
<1>8. CASE RecvExec
  <2> DEFINE e == Head(events)
             value == IF e.value = ZeroValue THEN mirror[e.key]
                      ELSE MergeEntry(mirror[e.key], e.value)
  <2>1. /\ events # <<>> /\ events' = Tail(events)
        /\ pc' \in {"free", "exec"} /\ owner' \in {"none", "events"}
        /\ pc' = "free" <=> Tombstone(value)
    BY <1>8 DEF RecvExec, Receive, Acquire
  <2>2. e.key \in Key /\ e.value \in ProcessValue /\ Tail(events) \in Seq(Event)
        /\ mirror[e.key] \in Entry
        /\ \A v \in Entry : JobOf(e, v) \in Job /\ JobOf(e, v).key = e.key
    BY <1>4, <2>1 DEF MapsOK
  <2>3. value \in Entry
    BY <2>2, MergeEntryFacts DEF Entry
  <2>4. mirror' = [mirror EXCEPT ![e.key] = value]
    BY <1>8 DEF RecvExec
  <2>5. \A j \in Key \ {e.key} : mirror'[j] = mirror[j]
    BY <2>2, <2>4 DEF MapsOK
  <2>6. mirror'[e.key] = value
    BY <2>2, <2>4 DEF MapsOK
  <2>7. mirror'[e.key] = mirror[e.key] \/ Mirror!Improve(e.key)
    BY <2>2, <2>6, ImproveFacts
  <2>8. /\ SyncKernel(e.key, value) \/ UNCHANGED <<processes, unsynced>>
        /\ \/ pc' = "free" /\ job' = NoJob /\ CountEvent
           \/ job' = JobOf(e, value) /\ UNCHANGED <<loop, eventCounter>>
    BY <1>8, <2>1 DEF RecvExec
  <2> HIDE DEF e, value
  <2>9. MapsOK'
    <3>1. processes' \in [Key -> Entry] /\ unsynced' \subseteq Key
      <4>1. CASE SyncKernel(e.key, value)
        BY <2>2, <2>3, <4>1, SyncKernelType
      <4>2. CASE UNCHANGED <<processes, unsynced>>
        BY <4>2 DEF MapsOK
      <4> QED BY <2>8, <4>1, <4>2
    <3>2. notified' = notified
      BY <1>8 DEF RecvExec
    <3> QED BY <2>2, <2>3, <2>4, <3>1, <3>2 DEF MapsOK
  <2>10. MirrorStep
    BY <2>5, <2>7, <2>9 DEF MirrorStep, MapsOK
  <2>11. job' \in Job /\ (pc' = "exec" => job'.key \in Key)
         /\ eventCounter' \in Nat /\ loop' \in {"read", "collect"}
    BY <1>1, <1>2, <1>3, <2>2, <2>3, <2>8
  <2>12. Rest'
    BY <1>1, <1>8, <2>1, <2>2, <2>11 DEF RecvExec, KernelFrame, PC, Owner, e
  <2> QED BY <1>1, <1>8, <2>1, <2>9, <2>10, <2>11, <2>12 DEF IInv, HandsOK, RecvExec, KernelFrame
<1>9. CASE RecvExit
  <2> DEFINE e == Head(events)
             old == mirror[e.key]
             value == IF old # Absent THEN old ELSE e.value
  <2>1. /\ events # <<>> /\ events' = Tail(events) /\ pc' = "free" /\ owner' = "none"
    BY <1>9 DEF RecvExit, Receive, Acquire
  <2>2. e.key \in Key /\ e.value \in ProcessValue /\ Tail(events) \in Seq(Event) /\ old \in Entry
    BY <1>4, <2>1 DEF MapsOK
  <2>3. value \in ProcessValue
    BY <2>2 DEF Entry
  <2>4. TombstoneOf(value, Now) \in ProcessValue
    BY <2>3, ConstructorTypes
  <2>5. \/ NoUpsert /\ UNCHANGED clock
        \/ Advance(Now) /\ Upsert(e.key, TombstoneOf(value, Now), e.hasMark \/ CanInherit(old))
    BY <1>9 DEF RecvExit
  <2> HIDE DEF e, old, value
  <2>6. MapsOK' /\ MirrorStep /\ clock' \in Nat
    <3>1. CASE NoUpsert /\ UNCHANGED clock
      BY <3>1, SameMirror DEF NoUpsert, MapsOK
    <3>2. CASE Advance(Now) /\ Upsert(e.key, TombstoneOf(value, Now), e.hasMark \/ CanInherit(old))
      BY <2>2, <2>4, <3>2, UpsertFacts, AdvanceType
    <3> QED BY <2>5, <3>1, <3>2
  <2>7. job' = NoJob /\ eventCounter' \in Nat /\ loop' \in {"read", "collect"}
    BY <1>3, <1>9 DEF RecvExit
  <2>8. Rest'
    BY <1>1, <1>2, <1>9, <2>1, <2>2, <2>6, <2>7 DEF RecvExit, KernelFrame, PC, Owner, e
  <2> QED BY <1>1, <1>9, <2>1, <2>6, <2>8 DEF IInv, HandsOK, RecvExit, KernelFrame
<1>10. CASE ForeignEvent
  <2>1. UNCHANGED <<kvars, mirror, generation, policy, pc, owner, job, trav, boot,
                    notified, unsynced>> /\ CountEvent
    BY <1>10 DEF ForeignEvent
  <2> QED BY <1>1, <1>3, <2>1, SameMirror DEF kvars, IInv, HandsOK, MapsOK
<1>11. CASE CollectTombstones
  <2> DEFINE kept == [k \in Key |-> IF k \in Expired THEN Absent ELSE mirror[k]]
  <2>1. Expired \subseteq Key /\ \A k \in Expired : Tombstone(mirror[k])
    BY DEF Expired
  <2>2. /\ mirror' = kept
        /\ processes' = [k \in Key |-> IF k \in Expired THEN Absent ELSE processes[k]]
        /\ unsynced' = unsynced \ Expired /\ UNCHANGED notified
        /\ trav' = [NoTraversal EXCEPT !.todo = DeadKeys(kept)]
        /\ pc' = "sweep" /\ owner' = "events"
    BY <1>11 DEF CollectTombstones, Acquire
  <2>3. MapsOK'
    BY <2>2 DEF MapsOK, Entry
  <2>4. \A k \in Key : kept[k] \in Entry
    BY DEF MapsOK, Entry
  <2>5. \A k \in Key : mirror'[k] = mirror[k] \/ Mirror!Drop(k)
    <3> SUFFICES ASSUME NEW k \in Key, k \in Expired PROVE Mirror!Drop(k)
      BY <2>2
    <3>1. mirror'[k] = Absent
      BY <2>2
    <3>2. mirror[k] # Absent /\ mirror[k].tombstone
      BY <2>1 DEF Tombstone
    <3> QED BY <3>1, <3>2 DEF Mirror!Drop, Mirror!Tombstone
  <2>6. DeadKeys(kept) \subseteq Key /\ \A k \in DeadKeys(kept) : kept[k] \in ProcessValue
    BY <2>4, CanInheritFacts DEF DeadKeys
  <2> HIDE DEF kept
  <2>7. trav' \in Traversal /\ trav'.todo = DeadKeys(kept)
    BY <1>2, <2>2, <2>6 DEF Traversal
  <2>8. MirrorStep
    BY <2>3, <2>5 DEF MirrorStep, MapsOK
  <2>9. Rest'
    BY <1>1, <1>11, <2>2, <2>7 DEF CollectTombstones, KernelFrame, PC, Owner
  <2>10. HandsOK'
    BY <1>11, <2>2, <2>6, <2>7 DEF HandsOK, CollectTombstones, KernelFrame
  <2> QED BY <1>1, <2>3, <2>8, <2>9, <2>10 DEF IInv
<1>12. CASE \E k \in Key : SweepDead(k)
  <2> PICK k \in Key : SweepDead(k)
    BY <1>12
  <2>1. mirror[k] \in ProcessValue /\ k \in trav.todo
    BY DEF SweepDead, HandsOK
  <2>2. TombstoneOf(mirror[k], Now) \in Entry
    BY <2>1, ConstructorTypes DEF Entry
  <2>3. MapsOK' /\ MirrorStep /\ clock' \in Nat /\ \A j \in Key \ {k} : mirror'[j] = mirror[j]
    BY <2>2, UpsertNowFacts DEF SweepDead
  <2>4. trav' = [trav EXCEPT !.todo = trav.todo \ {k}]
    BY DEF SweepDead
  <2>5. trav' \in Traversal /\ trav'.todo = trav.todo \ {k} /\ trav.todo \subseteq Key
    BY <1>1, <2>4 DEF Traversal
  <2>6. Rest'
    BY <1>1, <2>3, <2>5 DEF SweepDead, KernelFrame
  <2>7. HandsOK'
    BY <2>3, <2>5 DEF SweepDead, HandsOK, KernelFrame
  <2> QED BY <1>1, <2>3, <2>6, <2>7 DEF IInv
<1>13. CASE SweepDone
  <2>1. \/ pc' = "refresh" /\ UNCHANGED <<owner, trav, boot, loop, commRules>>
        \/ Release
    BY <1>13 DEF SweepDone
  <2>2. /\ pc' \in {"refresh", "free"} /\ pc' \in PC /\ owner' \in Owner /\ trav' \in Traversal
        /\ boot' \in Boot /\ loop' \in {"read", "collect"} /\ commRules' \subseteq Nat
    BY <1>1, <1>5, <2>1 DEF PC
  <2>3. MapsOK' /\ MirrorStep
    BY <1>13, SameMirror DEF SweepDone, MapsOK
  <2>4. Rest'
    BY <1>1, <1>13, <2>2 DEF SweepDone, KernelFrame
  <2> QED BY <1>1, <1>13, <2>2, <2>3, <2>4 DEF SweepDone, KernelFrame, IInv, HandsOK
<1>14. CASE Refresh
  <2> DEFINE merged == [k \in Key |-> MergeKernelEntry(k)]
             lostKeys == {k \in Key : processes[k] # Absent /\ merged[k] # processes[k]}
  <2>1. \A k \in Key : MergeKernelEntry(k) \in Entry
    BY MergeEntryFacts DEF MergeKernelEntry, MapsOK, Entry
  <2>2. /\ mirror' = merged /\ trav' = [NoTraversal EXCEPT !.todo = lostKeys]
        /\ pc' = "repair" /\ lost' = {} /\ UNCHANGED <<processes, notified, unsynced>>
    BY <1>14 DEF Refresh
  <2>3. \A k \in Key : mirror'[k] = mirror[k] \/ Mirror!Improve(k)
    <3> SUFFICES ASSUME NEW k \in Key, processes[k] # Absent PROVE Mirror!Improve(k)
      BY <2>2 DEF MergeKernelEntry
    <3>1. processes[k] \in ProcessValue /\ mirror[k] \in Entry
      BY DEF MapsOK, Entry
    <3>2. mirror'[k] = MergeEntry(mirror[k], processes[k])
      BY <2>2 DEF MergeKernelEntry
    <3> QED BY <3>1, <3>2, ImproveFacts
  <2>4. MapsOK' /\ MirrorStep
    BY <2>1, <2>2, <2>3 DEF MapsOK, MirrorStep
  <2>5. lostKeys \subseteq Key
    OBVIOUS
  <2> HIDE DEF merged, lostKeys
  <2>6. trav' \in Traversal
    BY <1>2, <2>2, <2>5 DEF Traversal
  <2>7. Rest'
    BY <1>1, <1>14, <2>2, <2>6 DEF Refresh, KernelFrame, PC
  <2> QED BY <1>1, <1>14, <2>2, <2>4, <2>7 DEF Refresh, KernelFrame, IInv, HandsOK
<1>15. CASE RefreshAbort
  <2> PICK read \in SUBSET Key :
         mirror' = [k \in Key |-> IF k \in read THEN MergeKernelEntry(k) ELSE mirror[k]]
    BY <1>15 DEF RefreshAbort
  <2>1. \A k \in Key : MergeKernelEntry(k) \in Entry
    BY MergeEntryFacts DEF MergeKernelEntry, MapsOK, Entry
  <2>2. \A k \in Key : mirror'[k] = mirror[k] \/ Mirror!Improve(k)
    <3> SUFFICES ASSUME NEW k \in read, processes[k] # Absent PROVE Mirror!Improve(k)
      BY DEF MergeKernelEntry
    <3>1. processes[k] \in ProcessValue /\ mirror[k] \in Entry
      BY DEF MapsOK, Entry
    <3>2. mirror'[k] = MergeEntry(mirror[k], processes[k])
      BY DEF MergeKernelEntry
    <3> QED BY <3>1, <3>2, ImproveFacts
  <2>3. MapsOK' /\ MirrorStep
    BY <1>15, <2>1, <2>2 DEF RefreshAbort, MapsOK, MirrorStep
  <2>4. Release
    BY <1>15 DEF RefreshAbort
  <2>5. Rest'
    BY <1>1, <1>5, <1>15, <2>4 DEF RefreshAbort, KernelFrame
  <2> QED BY <1>1, <1>5, <1>15, <2>3, <2>4, <2>5 DEF RefreshAbort, KernelFrame, IInv, HandsOK
<1>16. CASE RepairAndList
  <2> DEFINE there == {k \in Key : Visible(k)}
             next == [todo |-> there, listed |-> there, comm |-> comm, parent |-> parent,
                      value |-> [k \in Key |-> Absent]]
  <2>1. next \in Traversal
    BY <1>1 DEF Traversal, Entry
  <2>2. \A k \in Key : Repaired(k) \in Entry
    BY DEF Repaired, MapsOK
  <2>3. /\ processes' = [k \in Key |-> Repaired(k)] /\ unsynced' = unsynced \ trav.todo
        /\ trav' = next /\ pc' = "walk" /\ UNCHANGED <<mirror, notified>>
    BY <1>16 DEF RepairAndList
  <2> HIDE DEF next
  <2>4. MapsOK' /\ MirrorStep
    BY <2>2, <2>3, SameMirror DEF MapsOK
  <2>5. Rest'
    BY <1>1, <1>16, <2>1, <2>3 DEF RepairAndList, KernelFrame, PC
  <2> QED BY <1>1, <1>16, <2>3, <2>4, <2>5 DEF RepairAndList, KernelFrame, IInv, HandsOK
<1>17. CASE \E k \in Key : ListMiss(k)
  <2> PICK k \in Key : ListMiss(k)
    BY <1>17
  <2>1. trav' \in Traversal
    BY <1>1 DEF ListMiss, Traversal
  <2>2. MapsOK' /\ MirrorStep
    BY SameMirror DEF ListMiss, MapsOK, kvars
  <2> QED BY <1>1, <2>1, <2>2 DEF ListMiss, kvars, IInv, HandsOK
<1>18. ASSUME NEW k \in Key, NEW p \in Entry, pc = "walk", Visit(k, p)
       PROVE  IInv' /\ MirrorStep
  <2>1. WalkValue(k, p) \in Entry
    BY CandidateTypes
  <2>2. MapsOK' /\ MirrorStep /\ clock' \in Nat
    BY <1>18, <2>1, UpsertNowFacts DEF Visit
  <2>3. trav' \in Traversal
    BY <1>1, <1>18, <2>1 DEF Visit, Traversal
  <2>4. Rest'
    BY <1>1, <1>18, <2>2, <2>3 DEF Visit, KernelFrame
  <2> QED BY <1>1, <1>18, <2>2, <2>4 DEF Visit, KernelFrame, IInv, HandsOK
<1>19. CASE \E k \in Key : Walk(k) \/ WalkOrphan(k)
  <2> PICK k \in Key : Walk(k) \/ WalkOrphan(k)
    BY <1>19
  <2>1. /\ Lookup(trav.value, trav.parent[k]) \in Entry
        /\ (IF trav.parent[k] \in trav.listed THEN mirror[trav.parent[k]] ELSE Absent) \in Entry
    BY <1>1, LookupType DEF Traversal, MapsOK, Entry
  <2> QED BY <1>18, <2>1 DEF Walk, WalkOrphan
<1>20. CASE TraversalDone
  <2>1. MapsOK' /\ MirrorStep
    BY <1>20, SameMirror DEF TraversalDone, MapsOK
  <2>2. Rest'
    BY <1>1, <1>5, <1>20 DEF TraversalDone, KernelFrame
  <2> QED BY <1>1, <1>5, <1>20, <2>1, <2>2 DEF TraversalDone, KernelFrame, IInv, HandsOK
<1>21. CASE RunTraverse
  <2>1. pc' = "refresh" /\ owner' = "run"
    BY <1>21 DEF RunTraverse, Acquire
  <2>2. MapsOK' /\ MirrorStep
    BY <1>21, SameMirror DEF RunTraverse, MapsOK, kvars
  <2> QED BY <1>1, <1>21, <2>1, <2>2 DEF RunTraverse, kvars, IInv, HandsOK, PC, Owner
<1>22. CASE RunAttach
  <2>1. PICK program \in Program, at \in Boot, next \in Boot : Attach(program, at, next)
    BY <1>22 DEF RunAttach, Program, Boot
  <2>2. MapsOK' /\ MirrorStep
    BY <2>1, SameMirror DEF Attach, MapsOK
  <2> QED BY <1>1, <2>1, <2>2 DEF Attach, KernelFrame, IInv, HandsOK
<1>23. CASE \E p \in Policies : SetPolicy(p)
  <2> PICK p \in Policies : SetPolicy(p)
    BY <1>23
  <2>1. pc' = "refresh" /\ owner' = "policy"
    BY DEF SetPolicy, Acquire
  <2>2. p \in Policy /\ active' \in ActivePolicy
    BY DEF SetPolicy, ActivePolicy, Policy
  <2>3. MapsOK' /\ MirrorStep
    BY SameMirror DEF SetPolicy, MapsOK
  <2>4. Rest'
    BY <1>1, <2>1, <2>2 DEF SetPolicy, Move, PC, Owner
  <2> QED BY <1>1, <2>1, <2>3, <2>4 DEF SetPolicy, IInv, HandsOK
<1>24. CASE \E k \in Key, d \in ApiMarks : SetProcessMark(k, d)
  <2> PICK k \in Key, d \in ApiMarks : SetProcessMark(k, d)
    BY <1>24
  <2>1. NewProcessValue(d, generation, Now) \in Entry
    BY ExplicitType DEF Decision, Entry
  <2>2. MapsOK' /\ MirrorStep /\ clock' \in Nat
    BY <2>1, UpsertNowFacts DEF SetProcessMark
  <2>3. Rest'
    BY <1>1, <2>2 DEF SetProcessMark, Move
  <2> QED BY <1>1, <2>2, <2>3 DEF SetProcessMark, IInv, HandsOK
<1>25. CASE ForceProcessTraversal
  <2>1. pc' = "refresh" /\ owner' = "api"
    BY <1>25 DEF ForceProcessTraversal, Acquire
  <2>2. MapsOK' /\ MirrorStep
    BY <1>25, SameMirror DEF ForceProcessTraversal, MapsOK
  <2> QED BY <1>1, <1>25, <2>1, <2>2 DEF ForceProcessTraversal, Move, IInv, HandsOK, PC, Owner
<1>26. CASE UpdateHooks
  <2>1. MapsOK' /\ MirrorStep
    BY <1>26, SameMirror DEF UpdateHooks, MapsOK, Entry
  <2> QED BY <1>1, <1>26, <2>1 DEF UpdateHooks, Move, IInv, HandsOK
<1> QED BY <1>6, <1>7, <1>8, <1>9, <1>10, <1>11, <1>12, <1>13, <1>14, <1>15, <1>16, <1>17,
           <1>19, <1>20, <1>21, <1>22, <1>23, <1>24, <1>25, <1>26
        DEF EventLoopStep, TraversalStep, RunStep, ApiStep

-----------------------------------------------------------------------------
(* Both initial states, a fresh daemon and one after its start-up, satisfy  *)
(* the inductive invariant.                                                 *)
LEMMA IInvInit == Init => IInv
<1> SUFFICES ASSUME Init PROVE IInv
  OBVIOUS
<1> USE KernelAssumption, MarkerAssumption
<1>1. NoPolicy \in ActivePolicy
  BY DEF NoPolicy, ActivePolicy, NoRules, RuleTable, Mode
<1>2. [generation |-> 2, mode |-> InitPolicy.mode, rules |-> InitPolicy.rules] \in ActivePolicy
  BY DEF ActivePolicy, Policy
<1>3. ASSUME NEW programs \in SUBSET Program, NEW installed \in ActivePolicy,
             NEW made \in Nat, KernelInit(programs, installed, made)
      PROVE  KernelTypeOK /\ \A c \in Key : bpf[c].stage = "idle"
  BY <1>3, IdleType DEF KernelInit, KernelTypeOK, Life, Entry, ActivePolicy
<1>4. ASSUME NEW stage \in Boot, NEW first \in Nat, NEW installed \in Policy,
             MarkerInit(stage, first, installed)
      PROVE  MarkerTypeOK /\ pc = "free"
  <2>1. NoJob \in Job /\ NoTraversal \in Traversal
    BY DEF NoJob, Job, NoTraversal, Traversal, Entry
  <2> QED BY <1>4, <2>1 DEF MarkerInit, MarkerTypeOK, PC, Owner, Entry
<1>5. KernelTypeOK /\ \A c \in Key : bpf[c].stage = "idle"
  BY <1>1, <1>2, <1>3 DEF Init, FreshInit, BootedInit
<1>6. MarkerTypeOK /\ pc = "free"
  <2>1. [mode |-> "userspace-only", rules |-> NoRules, check |-> InitPolicy.check] \in Policy
    BY DEF Policy, Mode, NoRules, RuleTable
  <2> QED BY <1>4, <2>1 DEF Init, FreshInit, BootedInit, Boot
<1> QED BY <1>5, <1>6 DEF IInv, TypeOK, HandsOK

(* Every step of the system keeps the invariant and is a step of the        *)
(* registry.                                                                *)
LEMMA IInvStep == IInv /\ [Next]_vars => IInv' /\ MirrorStep
<1> SUFFICES ASSUME IInv, [Next]_vars PROVE IInv' /\ MirrorStep
  OBVIOUS
<1> MapsOK /\ TypeOK /\ HandsOK
  BY TypeFacts DEF IInv
<1>1. CASE (KernelNext \/ Tick) /\ UNCHANGED uvars
  <2>1. KernelTypeOK' /\ \A c \in Key : bpf'[c].stage = "fork" => bpf'[c].seen \in ProcessValue
    BY <1>1, KernelStepType DEF TypeOK, HandsOK
  <2>2. MirrorStep
    BY <1>1, SameMirror DEF uvars
  <2> QED BY <1>1, <2>1, <2>2 DEF uvars, IInv, TypeOK, MarkerTypeOK, HandsOK
<1>2. CASE UNCHANGED vars
  <2>1. MirrorStep
    BY <1>2, SameMirror DEF vars, uvars
  <2> QED BY <1>2, <2>1 DEF vars, uvars, kvars, IInv, TypeOK, KernelTypeOK, MarkerTypeOK, HandsOK
<1>3. CASE EventLoopStep \/ ForeignEvent \/ TraversalStep \/ RunStep \/ ApiStep
  BY <1>3, DaemonStep
<1> QED BY <1>1, <1>2, <1>3 DEF Next, KernelStep, TimePasses

(* TypeOK: no handler of mark.c or mark.go, in whatever order they          *)
(* interleave, takes a variable out of its type; in particular no handler   *)
(* ever works on an entry that is not there.                                *)
THEOREM TypeCorrect == Spec => []TypeOK
<1>1. IInv /\ [Next]_vars => IInv'
  BY IInvStep
<1>2. IInv => TypeOK
  BY DEF IInv
<1> QED BY IInvInit, <1>1, <1>2, PTL DEF Spec

(* MirrorIsRegistry: whatever the ring drops, delays or repeats, whatever   *)
(* the programs write behind the daemon's back and whichever write or       *)
(* iteration fails, an entry of the mirror only ever improves in the merge  *)
(* order and is removed only as a tombstone.                                *)
THEOREM MirrorRefinement == Spec => MirrorIsRegistry
<1>1. Init => Mirror!RegistryInit
  BY DEF Init, FreshInit, BootedInit, MarkerInit, Mirror!RegistryInit
<1>2. IInv /\ [Next]_vars => [Mirror!RegistryNext]_mirror
  <2> SUFFICES ASSUME IInv, [Next]_vars PROVE Mirror!RegistryNext
    OBVIOUS
  <2>1. MirrorStep
    BY IInvStep
  <2>2. mirror' = [k \in Key |-> mirror'[k]]
    BY <2>1 DEF MirrorStep
  <2> QED BY <2>1, <2>2 DEF MirrorStep, Mirror!RegistryNext
<1>3. IInv /\ [Next]_vars => IInv'
  BY IInvStep
<1> QED BY IInvInit, <1>1, <1>2, <1>3, PTL DEF Spec, MirrorIsRegistry, Mirror!RegistrySpec

-----------------------------------------------------------------------------
(* The maps converge: the inductive invariant *)

(* A program runs for a process that is running. *)
LifeInv == \A k \in Key : bpf[k].stage # "idle" => life[k] = "running"

(* Every value was made with a reading of the clock that is not zero. *)
Stamped(e) == e # Absent => 0 < e.timestamp /\ e.timestamp <= clock

ClockInv ==
    /\ \A k \in Key :
         /\ Stamped(mirror[k]) /\ Stamped(processes[k]) /\ Stamped(bpf[k].seen)
         /\ bpf[k].stage \in Program => 0 < bpf[k].time /\ bpf[k].time <= clock
    /\ \A i \in 1..Len(events) :
         \/ events[i].value = ZeroValue /\ ~events[i].hasMark
         \/ Stamped(events[i].value) /\ (events[i].type = "exit" => events[i].value.tombstone)

Synced(k) == processes[k] = mirror[k] \/ k \in unsynced

(* The last event about k reports the value in the kernel map.  A fork's     *)
(* event is the first about its child: the mirror has no entry yet.          *)
Reported(k) ==
    \E i \in 1..Len(events) :
        /\ events[i].key = k
        /\ \A j \in (i + 1)..Len(events) : events[j].key # k
        /\ events[i].value = processes[k]
        /\ events[i].type = "fork" => events[i].hasMark /\ mirror[k] = Absent

(* Whatever makes the maps differ is still known to someone: a failed Put,  *)
(* a dropped event, a repair that is due or an event on its way.            *)
Accounted(k) ==
    \/ Synced(k) \/ k \in lost
    \/ pc = "repair" /\ k \in trav.todo
    \/ Reported(k)

\* No program has reported anything about k yet.
Newborn(k) == life[k] = "unborn" \/ bpf[k].stage \in {"clone", "fork"}

MapInv ==
    \A k \in Key :
        /\ Accounted(k)
        /\ processes[k] = Absent => Synced(k)
        /\ Newborn(k) => Synced(k)
        /\ bpf[k].stage \in {"exec", "exit"} => bpf[k].seen = processes[k] \/ Synced(k)

CInv == LifeInv /\ ClockInv /\ MapInv

-----------------------------------------------------------------------------
(* No process is forgotten *)

Fresh(k) == Alive(k) => ~StaleGeneration(k)

(* Who may still be at an older generation while the mutex is held: the     *)
(* process of the event that is being handled, the processes that the walk  *)
(* has not come to, and anybody before the walk begins.                     *)
GenInv ==
    /\ pc \in {"free", "sweep"} => \A k \in Key : Fresh(k)
    /\ pc \in {"fork", "exec"} => \A k \in Key \ {job.key} : Fresh(k)
    /\ pc = "exec" /\ job.value = Absent => mirror[job.key] = Absent
    /\ pc = "walk" => \A k \in Key \ trav.todo : Fresh(k)

(* A lifetime that has not begun has no entry.  SetProcessMark takes any     *)
(* key, so this is up to its callers.                                        *)
UnbornUnmarked == \A k \in Key : life[k] = "unborn" => mirror[k] = Absent

(* Without SetProcessMark nobody knows of such a lifetime. *)
UnbornInv ==
    \A k \in Key : life[k] = "unborn" =>
        /\ mirror[k] = Absent /\ processes[k] = Absent
        /\ \A i \in 1..Len(events) : events[i].key # k
        /\ pc \in {"fork", "exec"} => job.key # k
        /\ pc = "walk" => k \notin trav.todo

-----------------------------------------------------------------------------
(* Events *)

(* The event that is read leaves the others where they were: what is        *)
(* reported about a process stays reported, unless this was it.             *)
LEMMA TailReported ==
  ASSUME events \in Seq(Event), events # <<>>, events' = Tail(events),
         NEW k \in Key, Reported(k),
         processes'[k] = processes[k], mirror'[k] = mirror[k]
  PROVE  \/ Reported(k)'
         \/ LET e == Head(events)
            IN  /\ e.key = k /\ e.value = processes[k]
                /\ e.type = "fork" => e.hasMark /\ mirror[k] = Absent
<1>1. /\ Len(events) \in Nat \ {0} /\ Len(events') = Len(events) - 1
      /\ Head(events) = events[1]
      /\ \A i \in 1..Len(events') : events'[i] = events[i + 1]
  BY HeadTailProperties, LenProperties, EmptySeq
<1>2. PICK i \in 1..Len(events) :
        /\ events[i].key = k
        /\ \A j \in (i + 1)..Len(events) : events[j].key # k
        /\ events[i].value = processes[k]
        /\ events[i].type = "fork" => events[i].hasMark /\ mirror[k] = Absent
  BY DEF Reported
<1>3. CASE i = 1
  BY <1>1, <1>2, <1>3
<1>4. CASE i # 1
  <2>1. i - 1 \in 1..Len(events') /\ events'[i - 1] = events[i]
    BY <1>1, <1>4
  <2>2. \A j \in ((i - 1) + 1)..Len(events') : events'[j].key # k
    BY <1>1, <1>2, <1>4
  <2> QED BY <1>2, <2>1, <2>2 DEF Reported
<1> QED BY <1>3, <1>4

(* What bpf_ringbuf_submit adds, if it does not drop it. *)
LEMMA SubmitFacts ==
  ASSUME events \in Seq(Event), NEW type \in Program, NEW c \in Key, NEW pk, NEW found, NEW e,
         Submit(type, c, pk, found, e)
  PROVE  \/ c \in lost' /\ lost' = lost \cup {c} /\ events' = events
         \/ /\ lost' = lost /\ Len(events) \in Nat /\ Len(events') = Len(events) + 1
            /\ \A i \in 1..Len(events) : events'[i] = events[i]
            /\ events'[Len(events) + 1] =
                 [type |-> type, key |-> c, parentKey |-> pk, hasMark |-> CanInherit(found),
                  value |-> ValueOf(e), comm |-> comm[c]]
<1> DEFINE ev == [type |-> type, key |-> c, parentKey |-> pk, hasMark |-> CanInherit(found),
                  value |-> ValueOf(e), comm |-> comm[c]]
<1>1. CASE Len(events) < RingCap
  <2>1. events' = Append(events, ev) /\ lost' = lost
    BY <1>1 DEF Submit
  <2> HIDE DEF ev
  <2>2. Len(events) \in Nat /\ Len(events') = Len(events) + 1
        /\ events'[Len(events) + 1] = ev
        /\ \A i \in 1..Len(events) : events'[i] = events[i]
    BY <2>1
  <2> QED BY <2>1, <2>2 DEF ev
<1>2. CASE ~(Len(events) < RingCap)
  BY <1>2 DEF Submit
<1> QED BY <1>1, <1>2

(* A program's event about c says nothing about another process. *)
LEMMA SubmitKeepsReported ==
  ASSUME events \in Seq(Event), NEW type \in Program, NEW c \in Key, NEW pk, NEW found, NEW e,
         Submit(type, c, pk, found, e),
         NEW k \in Key \ {c}, Reported(k),
         processes'[k] = processes[k], mirror'[k] = mirror[k]
  PROVE  Reported(k)'
<1>1. CASE events' = events
  BY <1>1 DEF Reported
<1>2. CASE /\ Len(events) \in Nat /\ Len(events') = Len(events) + 1
           /\ \A i \in 1..Len(events) : events'[i] = events[i]
           /\ events'[Len(events) + 1].key = c
  <2>1. PICK i \in 1..Len(events) :
        /\ events[i].key = k
        /\ \A j \in (i + 1)..Len(events) : events[j].key # k
        /\ events[i].value = processes[k]
        /\ events[i].type = "fork" => events[i].hasMark /\ mirror[k] = Absent
    BY DEF Reported
  <2>2. i \in 1..Len(events') /\ events'[i] = events[i]
    BY <1>2, <2>1
  <2>3. \A j \in (i + 1)..Len(events') : events'[j].key # k
    BY <1>2, <2>1
  <2> QED BY <2>1, <2>2, <2>3 DEF Reported
<1>3. \/ events' = events
      \/ /\ Len(events) \in Nat /\ Len(events') = Len(events) + 1
         /\ \A i \in 1..Len(events) : events'[i] = events[i]
         /\ events'[Len(events) + 1] =
              [type |-> type, key |-> c, parentKey |-> pk, hasMark |-> CanInherit(found),
               value |-> ValueOf(e), comm |-> comm[c]]
  BY SubmitFacts
<1> QED BY <1>1, <1>2, <1>3

(* An event that tells what its program left in the map accounts for it. *)
LEMMA SubmitReports ==
  ASSUME events \in Seq(Event), NEW type \in Program, NEW c \in Key, NEW pk, NEW found, NEW e,
         Submit(type, c, pk, found, e),
         processes'[c] = ValueOf(e),
         type = "fork" => CanInherit(found) /\ mirror'[c] = Absent
  PROVE  c \in lost' \/ Reported(c)'
<1>1. CASE c \in lost'
  BY <1>1
<1>2. CASE /\ Len(events) \in Nat /\ Len(events') = Len(events) + 1
           /\ events'[Len(events) + 1] =
                 [type |-> type, key |-> c, parentKey |-> pk, hasMark |-> CanInherit(found),
                  value |-> ValueOf(e), comm |-> comm[c]]
  <2>1. PICK n : n = Len(events')
    OBVIOUS
  <2>2. n \in 1..Len(events') /\ \A j \in (n + 1)..Len(events') : events'[j].key # c
    BY <1>2, <2>1
  <2>3. /\ events'[n].key = c /\ events'[n].value = processes'[c]
        /\ events'[n].type = "fork" => events'[n].hasMark /\ mirror'[c] = Absent
    BY <1>2, <2>1
  <2> QED BY <2>2, <2>3 DEF Reported
<1> QED BY <1>1, <1>2, SubmitFacts

-----------------------------------------------------------------------------
(* What the daemon writes *)

\* Whoever touches an entry leaves the two maps in agreement about it.
Untouched(k) ==
    /\ ~Synced(k) /\ ~Synced(k)'
    /\ mirror'[k] = mirror[k] /\ processes'[k] = processes[k]

Written(k) ==
    /\ Synced(k)' \/ Untouched(k)
    /\ Stamped(mirror[k])' /\ Stamped(processes[k])'

(* The clocks that a step of the daemon reads, and the two maps before it. *)
StampsOK ==
    /\ clock \in Nat /\ clock' \in Nat /\ clock <= clock'
    /\ \A k \in Key : Stamped(mirror[k]) /\ Stamped(processes[k])

(* Time only moves forward. *)
LEMMA AdvanceClock ==
  ASSUME clock \in Nat, NEW t \in Nat, Advance(t)
  PROVE  clock' \in Nat /\ clock <= clock' /\ t <= clock'
BY DEF Advance

(* A value stays stamped as time passes. *)
LEMMA StampedLater ==
  ASSUME clock \in Nat, clock' \in Nat, clock <= clock', NEW e \in Entry, Stamped(e)
  PROVE  e # Absent => 0 < e.timestamp /\ e.timestamp <= clock'
<1> SUFFICES ASSUME e # Absent PROVE 0 < e.timestamp /\ e.timestamp <= clock'
  OBVIOUS
<1>1. e.timestamp \in Int
  BY ProcessValueFields DEF Entry
<1> QED BY <1>1 DEF Stamped

(* A key whose entries are left alone. *)
LEMMA LeftAlone ==
  ASSUME MapsOK, StampsOK, NEW k \in Key,
         mirror'[k] = mirror[k], processes'[k] = processes[k],
         k \in unsynced' <=> k \in unsynced
  PROVE  Written(k)
<1>1. mirror[k] \in Entry /\ processes[k] \in Entry
  BY DEF MapsOK
<1>2. Stamped(mirror[k])' /\ Stamped(processes[k])'
  BY <1>1, StampedLater DEF StampsOK, Stamped
<1>3. Synced(k)' \/ Untouched(k)
  BY DEF Synced, Untouched
<1> QED BY <1>2, <1>3 DEF Written

(* Put writes one key or, if the map is full, marks it as not written. *)
LEMMA SyncKernelWrites ==
  ASSUME MapsOK, NEW k \in Key, NEW v, SyncKernel(k, v)
  PROVE  /\ processes'[k] = v \/ (k \in unsynced' /\ processes'[k] = processes[k])
         /\ \A j \in Key \ {k} : /\ processes'[j] = processes[j]
                                 /\ j \in unsynced' <=> j \in unsynced
BY DEF MapsOK, SyncKernel

(* A Put of the value that the mirror has now. *)
LEMMA SyncWrites ==
  ASSUME MapsOK, StampsOK, NEW k \in Key, NEW v, SyncKernel(k, v),
         mirror'[k] = v, \A j \in Key \ {k} : mirror'[j] = mirror[j],
         v # Absent => 0 < v.timestamp /\ v.timestamp <= clock'
  PROVE  Synced(k)' /\ \A j \in Key : Written(j)
<1>1. /\ processes'[k] = v \/ (k \in unsynced' /\ processes'[k] = processes[k])
      /\ \A j \in Key \ {k} : /\ processes'[j] = processes[j]
                              /\ j \in unsynced' <=> j \in unsynced
  BY SyncKernelWrites
<1>2. Synced(k)'
  BY <1>1 DEF Synced
<1>3. Stamped(mirror[k])'
  BY DEF Stamped
<1>4. Stamped(processes[k])'
  <2>1. CASE processes'[k] = v
    BY <2>1 DEF Stamped
  <2>2. CASE processes'[k] = processes[k]
    <3>1. processes[k] \in Entry
      BY DEF MapsOK
    <3> QED BY <2>2, <3>1, StampedLater DEF StampsOK, Stamped
  <2> QED BY <1>1, <2>1, <2>2
<1>5. ASSUME NEW j \in Key \ {k} PROVE Written(j)
  BY <1>1, LeftAlone
<1> QED BY <1>2, <1>3, <1>4, <1>5 DEF Written

(* upsertProcessWithLog writes the kernel map whenever it changes the       *)
(* mirror.                                                                  *)
LEMMA UpsertWrites ==
  ASSUME MapsOK, StampsOK, NEW k \in Key, NEW v \in ProcessValue, NEW log,
         Upsert(k, v, log), 0 < v.timestamp, v.timestamp <= clock'
  PROVE  /\ \A j \in Key : Written(j)
         /\ mirror'[k] = MergeEntry(mirror[k], v)
         /\ mirror'[k] # mirror[k] => Synced(k)'
         /\ \A j \in Key \ {k} : mirror'[j] = mirror[j] /\ processes'[j] = processes[j]
<1>1. PICK w : w = MergeEntry(mirror[k], v)
  OBVIOUS
<1>2. w \in ProcessValue /\ w \in {mirror[k], v} /\ mirror[k] \in Entry
  BY <1>1, MergeEntryFacts DEF MapsOK
<1>3. CASE w = mirror[k]
  <2>1. UNCHANGED <<mirror, processes, unsynced>>
    BY <1>1, <1>3 DEF Upsert
  <2> QED BY <1>1, <1>3, <2>1, LeftAlone
<1>4. CASE w # mirror[k]
  <2>1. mirror' = [mirror EXCEPT ![k] = w] /\ SyncKernel(k, w)
    BY <1>1, <1>4 DEF Upsert
  <2>2. mirror'[k] = w /\ \A j \in Key \ {k} : mirror'[j] = mirror[j]
    BY <2>1 DEF MapsOK
  <2>3. w = v
    BY <1>2, <1>4
  <2>4. Synced(k)' /\ \A j \in Key : Written(j)
    BY <2>1, <2>2, <2>3, SyncWrites
  <2>5. \A j \in Key \ {k} : processes'[j] = processes[j]
    BY <2>1, SyncKernelWrites
  <2> QED BY <1>1, <2>2, <2>4, <2>5
<1> QED BY <1>3, <1>4

(* A step that leaves both maps alone. *)
LEMMA MapsUnchanged ==
  ASSUME MapsOK, StampsOK, UNCHANGED <<mirror, processes, unsynced>>
  PROVE  \A k \in Key : Written(k)
BY LeftAlone

(* The same for an upsert of a new value, which may be skipped. *)
LEMMA UpsertNowWrites ==
  ASSUME TypeOK, \A k \in Key : Stamped(mirror[k]) /\ Stamped(processes[k]),
         NEW k \in Key, NEW v \in Entry, UpsertNow(k, v),
         v # Absent => v.timestamp = Now
  PROVE  /\ StampsOK
         /\ \A j \in Key : Written(j)
         /\ v # Absent => mirror'[k] = MergeEntry(mirror[k], v)
         /\ v = Absent => mirror'[k] = mirror[k]
         /\ \A j \in Key \ {k} : mirror'[j] = mirror[j] /\ processes'[j] = processes[j]
<1>1. MapsOK /\ clock \in Nat /\ Now \in Nat /\ Now > 0
  BY TypeFacts DEF Now
<1>2. CASE v = Absent
  <2>1. UNCHANGED <<mirror, processes, unsynced, clock>>
    BY <1>2 DEF UpsertNow, NoUpsert
  <2>2. StampsOK
    BY <1>1, <2>1 DEF StampsOK
  <2> QED BY <1>1, <1>2, <2>1, <2>2, MapsUnchanged
<1>3. CASE v # Absent
  <2>1. Advance(Now) /\ Upsert(k, v, TRUE) /\ v \in ProcessValue
    BY <1>3 DEF UpsertNow, Entry
  <2>2. StampsOK /\ Now <= clock'
    BY <1>1, <2>1, AdvanceClock DEF StampsOK
  <2> QED BY <1>1, <1>3, <2>1, <2>2, UpsertWrites
<1> QED BY <1>2, <1>3

(* The values that the daemon makes carry the time of day. *)
LEMMA NewValueStamps ==
  ASSUME TypeOK
  PROVE  /\ \A j \in Job : j.key \in Key =>
              /\ ForkValue(j) # Absent => ForkValue(j).timestamp = Now
              /\ ExecValue(j) # Absent => ExecValue(j).timestamp = Now
         /\ \A k \in Key, p \in Entry :
              WalkValue(k, p) # Absent => WalkValue(k, p).timestamp = Now
<1>1. ASSUME NEW d, NEW v, NEW g, NEW t
      PROVE  NewProcessValue(d, g, t).timestamp = t /\ NewNoMarkProcessValue(v, g, t).timestamp = t
  BY DEF NewProcessValue, NewNoMarkProcessValue
<1>2. ASSUME NEW v \in ProcessValue, NEW g, NEW t
      PROVE  InheritedValue(v, g, t).timestamp = t
  BY DEF InheritedValue, ProcessValue
<1>3. ASSUME NEW j \in Job, j.key \in Key
      PROVE  /\ ForkValue(j) # Absent => ForkValue(j).timestamp = Now
             /\ ExecValue(j) # Absent => ExecValue(j).timestamp = Now
  <2>1. Lookup(mirror, j.parentKey) \in Entry
    BY LookupType, TypeFacts DEF MapsOK, Job
  <2>2. CanInherit(Lookup(mirror, j.parentKey)) => Lookup(mirror, j.parentKey) \in ProcessValue
    BY <2>1, CanInheritFacts
  <2> QED BY <1>1, <1>2, <2>2 DEF ForkValue, ExecValue
<1>4. ASSUME NEW k \in Key, NEW p \in Entry
      PROVE  WalkValue(k, p) # Absent => WalkValue(k, p).timestamp = Now
  <2>1. CanInheritCurrent(p) => p \in ProcessValue
    BY CanInheritFacts DEF CanInheritCurrent
  <2> QED BY <1>1, <1>2, <2>1 DEF WalkValue
<1> QED BY <1>3, <1>4

(* TombstoneOf stamps with the time of day, as nothing is newer. *)
LEMMA TombstoneStamp ==
  ASSUME clock \in Nat, NEW v \in ProcessValue, Stamped(v)
  PROVE  /\ TombstoneOf(v, Now) = [v EXCEPT !.tombstone = TRUE, !.timestamp = Now]
         /\ TombstoneOf(v, Now).timestamp = Now /\ TombstoneOf(v, Now).tombstone
         /\ TombstoneOf(v, Now) # v
<1>1. v.timestamp \in Int /\ v.timestamp <= clock
  BY ProcessValueFields, AbsentAssumption DEF Stamped
<1>2. ~(v.timestamp > Now) /\ v.timestamp # Now
  BY <1>1 DEF Now
<1>3. TombstoneOf(v, Now) = [v EXCEPT !.tombstone = TRUE, !.timestamp = Now]
  BY <1>2 DEF TombstoneOf
<1> QED BY <1>2, <1>3 DEF ProcessValue

-----------------------------------------------------------------------------
(* Steps of the daemon *)

DaemonNext == EventLoopStep \/ ForeignEvent \/ TraversalStep \/ RunStep \/ ApiStep

(* What the daemon leaves alone, and which of its steps read the ring,      *)
(* forget the dropped events and leave the repairs undone.                  *)
LEMMA DaemonShape ==
  ASSUME DaemonNext
  PROVE  /\ UNCHANGED <<life, bpf>>
         /\ events' = events \/ RecvFork \/ RecvExec \/ RecvExit
         /\ lost' = lost \/ Refresh
         /\ pc = "repair" => RepairAndList \/ UNCHANGED <<pc, trav>>
<1> DEFINE G == /\ UNCHANGED <<life, bpf>>
                /\ events' = events \/ RecvFork \/ RecvExec \/ RecvExit
                /\ lost' = lost \/ Refresh
                /\ pc = "repair" => RepairAndList \/ UNCHANGED <<pc, trav>>
<1>1. CASE RecvFork \/ RecvExec \/ RecvExit
  BY <1>1 DEF RecvFork, RecvExec, RecvExit, Receive, Acquire, KernelFrame
<1>2. CASE DecideFork \/ DecideExec
  BY <1>2 DEF DecideFork, DecideExec, KernelFrame
<1>3. CASE CollectTombstones \/ SweepDone
  BY <1>3 DEF CollectTombstones, SweepDone, Acquire, KernelFrame
<1>4. ASSUME NEW k \in Key, SweepDead(k) PROVE G
  BY <1>4 DEF SweepDead, KernelFrame
<1>5. CASE ForeignEvent
  BY <1>5 DEF ForeignEvent, kvars
<1>6. CASE Refresh \/ RefreshAbort \/ RepairAndList \/ TraversalDone
  BY <1>6 DEF Refresh, RefreshAbort, RepairAndList, TraversalDone, KernelFrame
<1>7. ASSUME NEW k \in Key, NEW p, pc = "walk", Visit(k, p) PROVE G
  BY <1>7 DEF Visit, KernelFrame
<1>8. ASSUME NEW k \in Key, ListMiss(k) PROVE G
  BY <1>8 DEF ListMiss, kvars
<1>9. CASE RunTraverse
  BY <1>9 DEF RunTraverse, Acquire, kvars
<1>10. CASE RunAttach
  BY <1>10 DEF RunAttach, Attach, KernelFrame
<1>11. CASE ApiStep
  BY <1>11 DEF ApiStep, SetPolicy, SetProcessMark, ForceProcessTraversal, UpdateHooks, Acquire
<1>12. CASE \E k \in Key : Walk(k) \/ WalkOrphan(k)
  BY <1>7, <1>12 DEF Walk, WalkOrphan
<1> QED BY <1>1, <1>2, <1>3, <1>4, <1>5, <1>6, <1>8, <1>9, <1>10, <1>11, <1>12
        DEF DaemonNext, EventLoopStep, TraversalStep, RunStep

(* The event at the head of the ring. *)
LEMMA HeadFacts ==
  ASSUME TypeOK, ClockInv, events # <<>>
  PROVE  LET e == Head(events)
         IN  /\ e \in Event /\ e.key \in Key /\ e.value \in ProcessValue
             /\ mirror[e.key] \in Entry
             /\ \/ e.value = ZeroValue /\ ~e.hasMark
                \/ Stamped(e.value) /\ (e.type = "exit" => e.value.tombstone)
<1>1. events \in Seq(Event) /\ MapsOK
  BY TypeFacts DEF TypeOK, KernelTypeOK
<1>2. Len(events) \in Nat \ {0} /\ Head(events) = events[1] /\ Head(events) \in Event
  BY <1>1, HeadTailProperties, EmptySeq
<1>3. 1 \in 1..Len(events)
  BY <1>2
<1>4. \/ events[1].value = ZeroValue /\ ~events[1].hasMark
      \/ Stamped(events[1].value) /\ (events[1].type = "exit" => events[1].value.tombstone)
  BY <1>3 DEF ClockInv
<1>5. Head(events).key \in Key /\ Head(events).value \in ProcessValue
  BY <1>2 DEF Event
<1> QED BY <1>1, <1>2, <1>4, <1>5 DEF MapsOK

(* Whatever the daemon does to an entry, the two maps agree about it        *)
(* afterwards; and every value it stores carries a reading of the clock.    *)
LEMMA DaemonWrites ==
  ASSUME IInv, ClockInv, DaemonNext
  PROVE  StampsOK /\ \A k \in Key : Written(k)
<1> TypeOK /\ HandsOK
  BY DEF IInv
<1> MapsOK /\ clock \in Nat /\ Now \in Nat /\ generation \in Nat
  BY TypeFacts
<1> USE MarkerAssumption, KernelAssumption
<1>1. \A k \in Key : Stamped(mirror[k]) /\ Stamped(processes[k])
  BY DEF ClockInv
<1>2. UNCHANGED clock => StampsOK
  BY <1>1 DEF StampsOK
<1>3. ASSUME UNCHANGED <<mirror, processes, unsynced, clock>>
      PROVE  StampsOK /\ \A k \in Key : Written(k)
  BY <1>2, <1>3, MapsUnchanged
<1>4. CASE RecvFork
  <2>1. PICK e : e = Head(events)
    OBVIOUS
  <2>2. events # <<>> /\ UNCHANGED clock
    BY <1>4 DEF RecvFork, Receive
  <2>3. /\ e.key \in Key /\ e.value \in ProcessValue /\ mirror[e.key] \in Entry
        /\ e.hasMark => Stamped(e.value)
    BY <2>1, <2>2, HeadFacts
  <2>4. StampsOK
    BY <1>2, <2>2
  <2>5. CASE e.hasMark /\ Upsert(e.key, e.value, TRUE)
    <3>1. 0 < e.value.timestamp /\ e.value.timestamp <= clock'
      BY <2>2, <2>3, <2>5, AbsentAssumption DEF Stamped
    <3> QED BY <2>3, <2>4, <2>5, <3>1, UpsertWrites
  <2>6. CASE SyncKernel(e.key, mirror[e.key]) /\ UNCHANGED <<mirror, notified>>
    <3>1. mirror[e.key] # Absent =>
             0 < mirror[e.key].timestamp /\ mirror[e.key].timestamp <= clock'
      BY <1>1, <2>2, <2>3 DEF Stamped
    <3> QED BY <2>3, <2>4, <2>6, <3>1, SyncWrites
  <2>7. CASE NoUpsert
    BY <1>3, <2>2, <2>7 DEF NoUpsert
  <2> QED BY <1>4, <2>1, <2>5, <2>6, <2>7 DEF RecvFork
<1>5. CASE DecideFork \/ DecideExec
  <2>1. job \in Job /\ job.key \in Key
    BY <1>5 DEF DecideFork, DecideExec, HandsOK, TypeOK, MarkerTypeOK
  <2>2. ForkValue(job) \in Entry /\ ExecValue(job) \in Entry
    BY <2>1, CandidateTypes
  <2>3. /\ ForkValue(job) # Absent => ForkValue(job).timestamp = Now
        /\ ExecValue(job) # Absent => ExecValue(job).timestamp = Now
    BY <2>1, NewValueStamps
  <2> QED BY <1>1, <1>5, <2>1, <2>2, <2>3, UpsertNowWrites DEF DecideFork, DecideExec
<1>6. CASE RecvExec
  <2>1. PICK e : e = Head(events)
    OBVIOUS
  <2>2. PICK value : value = IF e.value = ZeroValue THEN mirror[e.key]
                             ELSE MergeEntry(mirror[e.key], e.value)
    OBVIOUS
  <2>3. events # <<>> /\ UNCHANGED clock
    BY <1>6 DEF RecvExec, Receive
  <2>4. /\ e.key \in Key /\ e.value \in ProcessValue /\ mirror[e.key] \in Entry
        /\ e.value # ZeroValue => Stamped(e.value)
    BY <2>1, <2>3, HeadFacts
  <2>5. StampsOK
    BY <1>2, <2>3
  <2>6. /\ mirror' = [mirror EXCEPT ![e.key] = value]
        /\ IF NeedsSync(mirror[e.key], e.value, value)
           THEN SyncKernel(e.key, value)
           ELSE UNCHANGED <<processes, unsynced>>
    BY <1>6, <2>1, <2>2 DEF RecvExec
  <2>7. mirror'[e.key] = value /\ \A j \in Key \ {e.key} : mirror'[j] = mirror[j]
    BY <2>4, <2>6 DEF MapsOK
  <2>8. value # Absent => 0 < value.timestamp /\ value.timestamp <= clock'
    <3>1. value = mirror[e.key] \/ (value = e.value /\ e.value # ZeroValue)
      BY <2>2, <2>4, MergeEntryFacts
    <3> QED BY <1>1, <2>3, <2>4, <3>1 DEF Stamped
  <2>9. CASE SyncKernel(e.key, value)
    BY <2>4, <2>5, <2>7, <2>8, <2>9, SyncWrites
  <2>10. CASE ~NeedsSync(mirror[e.key], e.value, value) /\ UNCHANGED <<processes, unsynced>>
    <3>1. value = mirror[e.key]
      <4>1. CASE value = Absent
        <5>1. e.value = ZeroValue
          BY <2>2, <2>4, <4>1, MergeEntryFacts, AbsentAssumption
        <5> QED BY <2>2, <5>1
      <4>2. CASE value # Absent
        BY <2>10, <4>2 DEF NeedsSync
      <4> QED BY <4>1, <4>2
    <3>2. UNCHANGED mirror
      BY <2>4, <2>6, <3>1 DEF MapsOK
    <3> QED BY <1>3, <2>3, <2>10, <3>2
  <2> QED BY <2>6, <2>9, <2>10
<1>7. CASE RecvExit
  <2>1. PICK e : e = Head(events)
    OBVIOUS
  <2>2. PICK old : old = mirror[e.key]
    OBVIOUS
  <2>3. PICK value : value = IF old # Absent THEN old ELSE e.value
    OBVIOUS
  <2>4. events # <<>>
    BY <1>7 DEF RecvExit, Receive
  <2>5. /\ e.key \in Key /\ e.value \in ProcessValue /\ old \in Entry
        /\ e.value # ZeroValue => Stamped(e.value)
    BY <2>1, <2>2, <2>4, HeadFacts
  <2>6. CASE old = Absent /\ ~e.value.tombstone
    BY <1>3, <1>7, <2>1, <2>2, <2>6 DEF RecvExit, NoUpsert
  <2>7. CASE ~(old = Absent /\ ~e.value.tombstone)
    <3>1. Advance(Now) /\ Upsert(e.key, TombstoneOf(value, Now), e.hasMark \/ CanInherit(old))
      BY <1>7, <2>1, <2>2, <2>3, <2>7 DEF RecvExit
    <3>2. value \in ProcessValue
      BY <2>3, <2>5 DEF Entry
    <3>3. Stamped(value)
      BY <1>1, <2>2, <2>3, <2>5, <2>7 DEF ZeroValue
    <3>4. TombstoneOf(value, Now) \in ProcessValue /\ TombstoneOf(value, Now).timestamp = Now
      BY <3>2, <3>3, TombstoneStamp, ConstructorTypes
    <3>5. StampsOK /\ Now <= clock' /\ 0 < Now
      BY <1>1, <3>1, AdvanceClock DEF StampsOK, Now
    <3> QED BY <2>5, <3>1, <3>4, <3>5, UpsertWrites
  <2> QED BY <2>6, <2>7
<1>8. CASE ForeignEvent
  BY <1>3, <1>8 DEF ForeignEvent, kvars
<1>9. CASE CollectTombstones
  <2>1. /\ mirror' = [k \in Key |-> IF k \in Expired THEN Absent ELSE mirror[k]]
        /\ processes' = [k \in Key |-> IF k \in Expired THEN Absent ELSE processes[k]]
        /\ unsynced' = unsynced \ Expired /\ UNCHANGED clock
    BY <1>9 DEF CollectTombstones
  <2>2. StampsOK
    BY <1>2, <2>1
  <2>3. ASSUME NEW k \in Key, k \in Expired PROVE Written(k)
    BY <2>1, <2>3 DEF Written, Synced, Stamped
  <2>4. ASSUME NEW k \in Key, k \notin Expired PROVE Written(k)
    BY <2>1, <2>2, <2>4, LeftAlone
  <2> QED BY <2>2, <2>3, <2>4
<1>10. CASE \E k \in Key : SweepDead(k)
  <2> PICK k \in Key : SweepDead(k)
    BY <1>10
  <2>1. mirror[k] \in ProcessValue /\ UpsertNow(k, TombstoneOf(mirror[k], Now))
    BY DEF SweepDead, HandsOK
  <2>2. TombstoneOf(mirror[k], Now) \in Entry
    BY <2>1, ConstructorTypes DEF Entry
  <2>3. TombstoneOf(mirror[k], Now).timestamp = Now
    BY <1>1, <2>1, TombstoneStamp
  <2> QED BY <1>1, <2>1, <2>2, <2>3, UpsertNowWrites
<1>11. CASE SweepDone \/ TraversalDone
  BY <1>3, <1>11 DEF SweepDone, TraversalDone
<1>12. ASSUME NEW k \in Key, mirror'[k] = MergeKernelEntry(k) \/ mirror'[k] = mirror[k],
              UNCHANGED <<processes, unsynced, clock>>
       PROVE  Written(k)
  <2>1. StampsOK
    BY <1>2, <1>12
  <2>2. CASE mirror'[k] = mirror[k]
    BY <1>12, <2>1, <2>2, LeftAlone
  <2>3. CASE mirror'[k] = MergeKernelEntry(k) /\ mirror'[k] # mirror[k]
    <3>1. processes[k] # Absent /\ mirror'[k] = MergeEntry(mirror[k], processes[k])
      BY <2>3 DEF MergeKernelEntry
    <3>2. mirror[k] \in Entry /\ processes[k] \in ProcessValue
      BY <3>1 DEF MapsOK, Entry
    <3>3. mirror'[k] = processes[k]
      BY <2>3, <3>1, <3>2, MergeEntryFacts
    <3> QED BY <1>1, <1>12, <3>3 DEF Written, Synced, Stamped
  <2> QED BY <1>12, <2>2, <2>3
<1>13. CASE Refresh
  <2>1. /\ mirror' = [k \in Key |-> MergeKernelEntry(k)]
        /\ UNCHANGED <<processes, unsynced, clock>>
    BY <1>13 DEF Refresh
  <2> QED BY <1>2, <1>12, <2>1
<1>14. CASE RefreshAbort
  <2>1. PICK read \in SUBSET Key :
           mirror' = [k \in Key |-> IF k \in read THEN MergeKernelEntry(k) ELSE mirror[k]]
    BY <1>14 DEF RefreshAbort
  <2>2. UNCHANGED <<processes, unsynced, clock>>
    BY <1>14 DEF RefreshAbort
  <2> QED BY <1>2, <1>12, <2>1, <2>2
<1>15. CASE RepairAndList
  <2>1. /\ processes' = [k \in Key |-> Repaired(k)] /\ unsynced' = unsynced \ trav.todo
        /\ UNCHANGED <<mirror, clock>>
    BY <1>15 DEF RepairAndList
  <2>2. StampsOK
    BY <1>2, <2>1
  <2>3. ASSUME NEW k \in Key, k \in trav.todo PROVE Written(k)
    BY <1>1, <2>1, <2>3 DEF Written, Synced, Stamped, Repaired
  <2>4. ASSUME NEW k \in Key, k \notin trav.todo PROVE Written(k)
    BY <2>1, <2>2, <2>4, LeftAlone DEF Repaired
  <2> QED BY <2>2, <2>3, <2>4
<1>16. CASE \E k \in Key : ListMiss(k)
  BY <1>3, <1>16 DEF ListMiss, kvars
<1>17. ASSUME NEW k \in Key, NEW p \in Entry, Visit(k, p)
       PROVE  StampsOK /\ \A j \in Key : Written(j)
  <2>1. WalkValue(k, p) \in Entry
    BY CandidateTypes
  <2>2. WalkValue(k, p) # Absent => WalkValue(k, p).timestamp = Now
    BY NewValueStamps
  <2> QED BY <1>1, <1>17, <2>1, <2>2, UpsertNowWrites DEF Visit
<1>18. CASE \E k \in Key : Walk(k) \/ WalkOrphan(k)
  <2> PICK k \in Key : Walk(k) \/ WalkOrphan(k)
    BY <1>18
  <2>1. trav \in Traversal
    BY DEF TypeOK, MarkerTypeOK
  <2>2. /\ Lookup(trav.value, trav.parent[k]) \in Entry
        /\ (IF trav.parent[k] \in trav.listed THEN mirror[trav.parent[k]] ELSE Absent) \in Entry
    BY <2>1, LookupType DEF Traversal, MapsOK, Entry
  <2> QED BY <1>17, <2>2 DEF Walk, WalkOrphan
<1>19. CASE RunTraverse \/ RunAttach
  BY <1>3, <1>19 DEF RunTraverse, RunAttach, Attach, kvars
<1>20. CASE \E p \in Policies : SetPolicy(p)
  BY <1>3, <1>20 DEF SetPolicy
<1>21. CASE \E k \in Key, d \in ApiMarks : SetProcessMark(k, d)
  <2> PICK k \in Key, d \in ApiMarks : SetProcessMark(k, d)
    BY <1>21
  <2>1. NewProcessValue(d, generation, Now) \in Entry
    BY ExplicitType DEF Decision, Entry
  <2>2. NewProcessValue(d, generation, Now).timestamp = Now
    BY DEF NewProcessValue
  <2> QED BY <1>1, <2>1, <2>2, UpsertNowWrites DEF SetProcessMark
<1>22. CASE ForceProcessTraversal \/ UpdateHooks
  BY <1>3, <1>22 DEF ForceProcessTraversal, UpdateHooks
<1> QED BY <1>4, <1>5, <1>6, <1>7, <1>8, <1>9, <1>10, <1>11, <1>13, <1>14, <1>15, <1>16,
           <1>18, <1>19, <1>20, <1>21, <1>22
        DEF DaemonNext, EventLoopStep, TraversalStep, RunStep, ApiStep

(* The handler of the last event about a process leaves the maps in         *)
(* agreement about it.                                                      *)
LEMMA ReceiveSyncs ==
  ASSUME IInv, CInv, RecvFork \/ RecvExec \/ RecvExit,
         NEW k \in Key, Head(events).key = k, Head(events).value = processes[k],
         Head(events).type = "fork" => Head(events).hasMark /\ mirror[k] = Absent
  PROVE  Synced(k)'
<1> TypeOK /\ ClockInv /\ DaemonNext
  BY DEF IInv, CInv, DaemonNext, EventLoopStep
<1> MapsOK /\ clock \in Nat /\ Now \in Nat
  BY TypeFacts
<1>1. PICK e : e = Head(events)
  OBVIOUS
<1>2. events # <<>> /\ StampsOK /\ \A j \in Key : Written(j)
  BY DaemonWrites DEF RecvFork, RecvExec, RecvExit, Receive
<1>3. /\ e.key = k /\ e.value \in ProcessValue /\ mirror[k] \in Entry
      /\ e.type = "exit" => e.value = ZeroValue \/ e.value.tombstone
  BY <1>1, <1>2, HeadFacts
<1>4. /\ e.key = k /\ e.value = processes[k]
      /\ e.type = "fork" => e.hasMark /\ mirror[k] = Absent
  BY <1>1
<1>5. e.value # ZeroValue
  <2>1. Stamped(processes[k]) /\ processes[k] # Absent
    BY <1>3, <1>4, AbsentAssumption DEF ClockInv
  <2> QED BY <1>4, <2>1 DEF Stamped, ZeroValue
<1>6. CASE RecvFork
  <2>1. e.type = "fork" /\ UNCHANGED clock
    BY <1>1, <1>6 DEF RecvFork, Receive
  <2>2. Upsert(k, e.value, TRUE)
    BY <1>1, <1>4, <1>6, <2>1 DEF RecvFork
  <2>3. 0 < e.value.timestamp /\ e.value.timestamp <= clock'
    BY <1>3, <1>4, <2>1, AbsentAssumption DEF ClockInv, Stamped
  <2>4. mirror'[k] = e.value /\ mirror'[k] # mirror[k]
    BY <1>2, <1>3, <1>4, <2>1, <2>2, <2>3, UpsertWrites, AbsentAssumption DEF MergeEntry
  <2> QED BY <1>1, <1>2, <1>3, <2>2, <2>3, <2>4, UpsertWrites
<1>7. CASE RecvExec
  <2>1. PICK value : value = MergeEntry(mirror[k], e.value)
    OBVIOUS
  <2>2. /\ mirror' = [mirror EXCEPT ![k] = value]
        /\ IF NeedsSync(mirror[k], e.value, value)
           THEN SyncKernel(k, value)
           ELSE UNCHANGED <<processes, unsynced>>
    BY <1>1, <1>5, <1>7, <2>1 DEF RecvExec
  <2>3. mirror'[k] = value
    BY <1>3, <2>2 DEF MapsOK
  <2>4. CASE SyncKernel(k, value)
    <3>1. processes'[k] = value \/ k \in unsynced'
      BY <1>3, <2>4, SyncKernelWrites
    <3> QED BY <1>1, <2>3, <3>1 DEF Synced
  <2>5. CASE ~NeedsSync(mirror[k], e.value, value) /\ UNCHANGED processes
    <3>1. value \in ProcessValue
      BY <1>3, <2>1, MergeEntryFacts
    <3>2. value = e.value
      BY <2>5, <3>1, AbsentAssumption DEF NeedsSync
    <3> QED BY <1>1, <1>4, <2>3, <2>5, <3>2 DEF Synced
  <2> QED BY <2>2, <2>4, <2>5
<1>8. CASE RecvExit
  <2>1. PICK old : old = mirror[k]
    OBVIOUS
  <2>2. PICK value : value = IF old # Absent THEN old ELSE e.value
    OBVIOUS
  <2>3. e.value.tombstone /\ old \in Entry /\ value \in ProcessValue /\ Stamped(value)
    <3>1. e.type = "exit"
      BY <1>1, <1>8 DEF RecvExit, Receive
    <3> QED BY <1>3, <1>4, <1>5, <2>1, <2>2, <3>1 DEF Entry, ClockInv
  <2>4. Advance(Now) /\ Upsert(k, TombstoneOf(value, Now), e.hasMark \/ CanInherit(old))
    BY <1>1, <1>8, <2>1, <2>2, <2>3 DEF RecvExit
  <2>5. PICK tomb : tomb = TombstoneOf(value, Now)
    OBVIOUS
  <2>6. /\ tomb = [value EXCEPT !.tombstone = TRUE, !.timestamp = Now]
        /\ tomb \in ProcessValue /\ tomb.timestamp = Now /\ tomb.tombstone /\ tomb # value
    BY <2>3, <2>5, TombstoneStamp, ConstructorTypes
  <2>7. 0 < Now /\ Now <= clock'
    BY <2>4, AdvanceClock DEF Now
  <2>8. mirror'[k] = MergeEntry(old, tomb) /\ (mirror'[k] # old => Synced(k)')
    <3>1. PICK log : log = (e.hasMark \/ CanInherit(old))
      OBVIOUS
    <3>2. Upsert(k, tomb, log)
      BY <2>4, <2>5, <3>1
    <3>3. 0 < tomb.timestamp /\ tomb.timestamp <= clock' /\ tomb \in ProcessValue
      BY <2>6, <2>7
    <3> QED BY <1>2, <2>1, <3>2, <3>3, UpsertWrites
  <2>9. MergeEntry(old, tomb) # old
    <3>1. CASE old = Absent
      BY <2>6, <3>1, AbsentAssumption DEF MergeEntry
    <3>2. CASE old # Absent
      <4>1. old = value
        BY <2>2, <3>2
      <4>2. value.timestamp \in Int /\ value.timestamp <= clock /\ value.tombstone \in BOOLEAN
        BY <2>3, AbsentAssumption, ProcessValueFields DEF Stamped
      <4>3. /\ tomb.generation = value.generation /\ tomb.priority = value.priority
            /\ tomb.inheritance = value.inheritance
        BY <2>3, <2>6 DEF ProcessValue
      <4>4. ~OldPreferred(value, tomb)
        <5>1. tomb.tombstone = TRUE /\ tomb.timestamp = clock + 1
          BY <2>6, ProcessValueFields DEF Now
        <5>2. ~(value.timestamp > tomb.timestamp)
          BY <4>2, <5>1
        <5>3. CASE value.tombstone = FALSE
          BY <5>1, <5>3 DEF OldPreferred
        <5>4. CASE value.tombstone = TRUE
          BY <4>3, <5>1, <5>2, <5>4 DEF OldPreferred
        <5> QED BY <4>2, <5>3, <5>4
      <4> QED BY <2>6, <3>2, <4>1, <4>4 DEF MergeEntry, PreferProcessValue
    <3> QED BY <3>1, <3>2
  <2> QED BY <1>1, <2>8, <2>9
<1> QED BY <1>6, <1>7, <1>8

(* The steps of the daemon keep the invariant. *)
LEMMA DaemonInvariant ==
  ASSUME IInv, CInv, DaemonNext
  PROVE  CInv'
<1> TypeOK /\ LifeInv /\ ClockInv /\ MapInv
  BY DEF IInv, CInv
<1> MapsOK /\ clock \in Nat /\ events \in Seq(Event) /\ bpf \in [Key -> InFlight]
  BY TypeFacts DEF TypeOK, KernelTypeOK
<1>1. /\ UNCHANGED <<life, bpf>>
      /\ events' = events \/ RecvFork \/ RecvExec \/ RecvExit
      /\ lost' = lost \/ Refresh
      /\ pc = "repair" => RepairAndList \/ UNCHANGED <<pc, trav>>
  BY DaemonShape
<1>2. StampsOK /\ \A k \in Key : Written(k)
  BY DaemonWrites
<1>3. events' = events \/ (events # <<>> /\ events' = Tail(events))
  BY <1>1 DEF RecvFork, RecvExec, RecvExit, Receive
<1>4. LifeInv'
  BY <1>1 DEF LifeInv
<1>5. ClockInv'
  <2>1. ASSUME NEW k \in Key
        PROVE  /\ Stamped(mirror[k])' /\ Stamped(processes[k])' /\ Stamped(bpf[k].seen)'
               /\ bpf'[k].stage \in Program => 0 < bpf'[k].time /\ bpf'[k].time <= clock'
    <3>1. bpf[k] \in InFlight /\ bpf[k].seen \in Entry /\ bpf[k].time \in Nat
      BY DEF InFlight
    <3>2. Stamped(bpf[k].seen)'
      BY <1>1, <1>2, <3>1, StampedLater DEF ClockInv, StampsOK, Stamped
    <3> QED BY <1>1, <1>2, <3>1, <3>2 DEF ClockInv, StampsOK, Written
  <2>2. \A i \in 1..Len(events) : events[i] \in Event /\ events[i].value \in Entry
    <3>1. \A i \in 1..Len(events) : events[i] \in Event
      BY LenProperties
    <3> QED BY <3>1 DEF Event, Entry
  <2>3. \A i \in 1..Len(events) :
         \/ events[i].value = ZeroValue /\ ~events[i].hasMark
         \/ /\ events[i].value # Absent => /\ 0 < events[i].value.timestamp
                                           /\ events[i].value.timestamp <= clock'
            /\ events[i].type = "exit" => events[i].value.tombstone
    BY <1>2, <2>2, StampedLater DEF ClockInv, StampsOK
  <2>4. \A i \in 1..Len(events') : \E j \in 1..Len(events) : events'[i] = events[j]
    <3>1. CASE events' = events
      BY <3>1
    <3>2. CASE events # <<>> /\ events' = Tail(events)
      <4>1. /\ Len(events) \in Nat \ {0} /\ Len(events') = Len(events) - 1
            /\ \A i \in 1..Len(events') : events'[i] = events[i + 1]
        BY <3>2, HeadTailProperties, EmptySeq
      <4>2. ASSUME NEW i \in 1..Len(events')
            PROVE  i + 1 \in 1..Len(events) /\ events'[i] = events[i + 1]
        BY <4>1
      <4> QED BY <4>2
    <3> QED BY <1>3, <3>1, <3>2
  <2>5. ASSUME NEW i \in 1..Len(events')
        PROVE  \/ events'[i].value = ZeroValue /\ ~events'[i].hasMark
               \/ Stamped(events[i].value)' /\ (events'[i].type = "exit" => events'[i].value.tombstone)
    <3>1. PICK j \in 1..Len(events) : events'[i] = events[j]
      BY <2>4
    <3> QED BY <2>3, <3>1 DEF Stamped
  <2> QED BY <2>1, <2>5 DEF ClockInv
<1>6. ASSUME NEW k \in Key, Synced(k)'
      PROVE  /\ Accounted(k)' /\ (processes'[k] = Absent => Synced(k)')
             /\ (Newborn(k)' => Synced(k)')
             /\ (bpf'[k].stage \in {"exec", "exit"} => bpf'[k].seen = processes'[k] \/ Synced(k)')
  BY <1>6 DEF Accounted
<1>7. ASSUME NEW k \in Key, ~Synced(k)'
      PROVE  /\ Accounted(k)' /\ (processes'[k] = Absent => Synced(k)')
             /\ (Newborn(k)' => Synced(k)')
             /\ (bpf'[k].stage \in {"exec", "exit"} => bpf'[k].seen = processes'[k] \/ Synced(k)')
  <2>1. ~Synced(k) /\ mirror'[k] = mirror[k] /\ processes'[k] = processes[k]
    BY <1>2, <1>7 DEF Written, Untouched
  <2>2. processes[k] # Absent /\ ~Newborn(k) /\ Accounted(k)
        /\ (bpf[k].stage \in {"exec", "exit"} => bpf[k].seen = processes[k])
    BY <2>1 DEF MapInv
  <2>3. ~Newborn(k)'
    BY <1>1, <2>2 DEF Newborn
  <2>4. Accounted(k)'
    <3>1. CASE Refresh
      <4>1. /\ mirror' = [j \in Key |-> MergeKernelEntry(j)] /\ pc' = "repair"
            /\ trav' = [NoTraversal EXCEPT !.todo =
                   {j \in Key : processes[j] # Absent
                                /\ [i \in Key |-> MergeKernelEntry(i)][j] # processes[j]}]
        BY <3>1 DEF Refresh
      <4>2. trav'.todo = {j \in Key : processes[j] # Absent /\ mirror'[j] # processes[j]}
        BY <4>1 DEF NoTraversal
      <4>3. mirror'[k] # processes'[k]
        BY <1>7 DEF Synced
      <4> QED BY <2>1, <2>2, <4>1, <4>2, <4>3 DEF Accounted
    <3>2. CASE lost' = lost /\ k \in lost
      BY <3>2 DEF Accounted
    <3>3. CASE pc = "repair" /\ k \in trav.todo
      <4>1. ~RepairAndList
        <5> SUFFICES ASSUME RepairAndList PROVE FALSE
          OBVIOUS
        <5>1. processes'[k] = mirror'[k]
          BY <3>3 DEF RepairAndList, Repaired
        <5> QED BY <1>7, <5>1 DEF Synced
      <4> QED BY <1>1, <3>3, <4>1 DEF Accounted
    <3>4. CASE Reported(k)
      <4>1. CASE events' = events
        BY <2>1, <3>4, <4>1 DEF Accounted, Reported
      <4>2. CASE RecvFork \/ RecvExec \/ RecvExit
        <5>1. events # <<>> /\ events' = Tail(events)
          BY <4>2 DEF RecvFork, RecvExec, RecvExit, Receive
        <5>2. CASE Reported(k)'
          BY <5>2 DEF Accounted
        <5>3. CASE /\ Head(events).key = k /\ Head(events).value = processes[k]
                   /\ Head(events).type = "fork" => Head(events).hasMark /\ mirror[k] = Absent
          BY <1>7, <4>2, <5>3, ReceiveSyncs
        <5> QED BY <2>1, <3>4, <5>1, <5>2, <5>3, TailReported
      <4> QED BY <1>1, <4>1, <4>2
    <3> QED BY <1>1, <2>1, <2>2, <3>1, <3>2, <3>3, <3>4 DEF Accounted
  <2> QED BY <1>1, <2>1, <2>2, <2>3, <2>4
<1> QED BY <1>4, <1>5, <1>6, <1>7 DEF CInv, MapInv

-----------------------------------------------------------------------------
(* Steps of the processes and of the programs *)

(* What one program reports: a value with a reading of the clock, a         *)
(* tombstone at exit, or that there is no entry.                            *)
Tells(c) ==
    \E type \in Program, pk \in Key \cup {Foreign}, found \in Entry, e \in Entry :
        /\ Submit(type, c, pk, found, e)
        /\ e = Absent => ~CanInherit(found)
        /\ e # Absent => /\ 0 < e.timestamp /\ e.timestamp <= clock'
                         /\ type = "exit" => e.tombstone

(* A step that concerns c alone. *)
OnlyAbout(c) ==
    /\ clock' \in Nat /\ clock <= clock'
    /\ \A j \in Key \ {c} :
         bpf'[j] = bpf[j] /\ processes'[j] = processes[j] /\ life'[j] = life[j]
    /\ UNCHANGED <<events, lost>> \/ Tells(c)

(* What it has to establish of c. *)
SlotOK(c) ==
    /\ bpf'[c].stage # "idle" => life'[c] = "running"
    /\ Stamped(processes[c])' /\ Stamped(bpf[c].seen)'
    /\ bpf'[c].stage \in Program => 0 < bpf'[c].time /\ bpf'[c].time <= clock'

EntryOK(c) ==
    /\ Accounted(c)'
    /\ processes'[c] = Absent => Synced(c)'
    /\ Newborn(c)' => Synced(c)'
    /\ bpf'[c].stage \in {"exec", "exit"} => bpf'[c].seen = processes'[c] \/ Synced(c)'

(* The ring after a report holds well-formed reports only. *)
LEMMA TellsClock ==
  ASSUME TypeOK, ClockInv, clock' \in Nat, clock <= clock', NEW c \in Key,
         UNCHANGED <<events, lost>> \/ Tells(c)
  PROVE  \A i \in 1..Len(events') :
           \/ events'[i].value = ZeroValue /\ ~events'[i].hasMark
           \/ Stamped(events[i].value)' /\ (events'[i].type = "exit" => events'[i].value.tombstone)
<1> clock \in Nat /\ events \in Seq(Event)
  BY TypeFacts DEF TypeOK, KernelTypeOK
<1> DEFINE Good(ev) == \/ ev.value = ZeroValue /\ ~ev.hasMark
                       \/ /\ ev.value # Absent => /\ 0 < ev.value.timestamp
                                                  /\ ev.value.timestamp <= clock'
                          /\ ev.type = "exit" => ev.value.tombstone
<1>1. \A i \in 1..Len(events) : Good(events[i])
  <2> TAKE i \in 1..Len(events)
  <2>1. events[i] \in Event
    BY LenProperties
  <2>2. events[i].value \in Entry
    BY <2>1 DEF Event, Entry
  <2> QED BY <2>2, StampedLater DEF ClockInv
<1>2. ASSUME NEW i \in 1..Len(events') PROVE Good(events'[i])
  <2>1. CASE events' = events
    BY <1>1, <2>1
  <2>2. CASE Tells(c)
    <3>1. PICK type \in Program, pk \in Key \cup {Foreign}, found \in Entry, e \in Entry :
             /\ Submit(type, c, pk, found, e)
             /\ e = Absent => ~CanInherit(found)
             /\ e # Absent => /\ 0 < e.timestamp /\ e.timestamp <= clock'
                              /\ type = "exit" => e.tombstone
      BY <2>2 DEF Tells
    <3>2. CASE events' = events
      BY <1>1, <3>2
    <3>3. CASE /\ Len(events) \in Nat /\ Len(events') = Len(events) + 1
               /\ \A m \in 1..Len(events) : events'[m] = events[m]
               /\ events'[Len(events) + 1] =
                    [type |-> type, key |-> c, parentKey |-> pk, hasMark |-> CanInherit(found),
                     value |-> ValueOf(e), comm |-> comm[c]]
      <4>1. CASE i \in 1..Len(events)
        BY <1>1, <3>3, <4>1
      <4>2. CASE i = Len(events) + 1
        <5>1. /\ events'[i].value = ValueOf(e) /\ events'[i].type = type
              /\ events'[i].hasMark = CanInherit(found)
          BY <3>3, <4>2
        <5>2. CASE e = Absent
          BY <3>1, <5>1, <5>2 DEF ValueOf
        <5>3. CASE e # Absent
          BY <3>1, <5>1, <5>3 DEF ValueOf
        <5> QED BY <5>2, <5>3
      <4> QED BY <3>3, <4>1, <4>2
    <3>4. \/ events' = events
          \/ /\ Len(events) \in Nat /\ Len(events') = Len(events) + 1
             /\ \A m \in 1..Len(events) : events'[m] = events[m]
             /\ events'[Len(events) + 1] =
                    [type |-> type, key |-> c, parentKey |-> pk, hasMark |-> CanInherit(found),
                     value |-> ValueOf(e), comm |-> comm[c]]
      BY <3>1, SubmitFacts
    <3> QED BY <3>2, <3>3, <3>4
  <2> QED BY <2>1, <2>2
<1> QED BY <1>2 DEF Stamped

(* A step about c keeps the invariant if it does so for c. *)
LEMMA OthersKept ==
  ASSUME IInv, CInv, UNCHANGED uvars, NEW c \in Key, OnlyAbout(c), SlotOK(c), EntryOK(c)
  PROVE  CInv'
<1> TypeOK /\ LifeInv /\ ClockInv /\ MapInv
  BY DEF IInv, CInv
<1> MapsOK /\ clock \in Nat /\ events \in Seq(Event) /\ bpf \in [Key -> InFlight]
    /\ clock' \in Nat /\ clock <= clock'
  BY TypeFacts DEF TypeOK, KernelTypeOK, OnlyAbout
<1> UNCHANGED <<mirror, unsynced, pc, trav>>
  BY DEF uvars
<1>1. LifeInv'
  BY DEF LifeInv, OnlyAbout, SlotOK
<1>2. ClockInv'
  <2>1. ASSUME NEW k \in Key
        PROVE  /\ Stamped(mirror[k])' /\ Stamped(processes[k])' /\ Stamped(bpf[k].seen)'
               /\ bpf'[k].stage \in Program => 0 < bpf'[k].time /\ bpf'[k].time <= clock'
    <3>1. /\ bpf[k] \in InFlight /\ bpf[k].seen \in Entry /\ bpf[k].time \in Nat
          /\ mirror[k] \in Entry /\ processes[k] \in Entry
      BY DEF InFlight, MapsOK
    <3>2. Stamped(mirror[k])'
      BY <3>1, StampedLater DEF ClockInv, Stamped
    <3>3. CASE k = c
      BY <3>2, <3>3 DEF SlotOK
    <3>4. CASE k # c
      <4>1. bpf'[k] = bpf[k] /\ processes'[k] = processes[k]
        BY <3>4 DEF OnlyAbout
      <4>2. Stamped(processes[k])'
        BY <3>1, <4>1, StampedLater DEF ClockInv, Stamped
      <4>3. Stamped(bpf[k].seen)'
        BY <3>1, <4>1, StampedLater DEF ClockInv, Stamped
      <4> QED BY <3>1, <3>2, <4>1, <4>2, <4>3 DEF ClockInv
    <3> QED BY <3>3, <3>4
  <2>2. UNCHANGED <<events, lost>> \/ Tells(c)
    BY DEF OnlyAbout
  <2>3. \A i \in 1..Len(events') :
           \/ events'[i].value = ZeroValue /\ ~events'[i].hasMark
           \/ Stamped(events[i].value)' /\ (events'[i].type = "exit" => events'[i].value.tombstone)
    BY <2>2, TellsClock
  <2> QED BY <2>1, <2>3 DEF ClockInv
<1>3. ASSUME NEW k \in Key \ {c} PROVE EntryOK(k)
  <2>1. bpf'[k] = bpf[k] /\ processes'[k] = processes[k] /\ life'[k] = life[k]
    BY DEF OnlyAbout
  <2>2. (Synced(k) <=> Synced(k)') /\ (Newborn(k) <=> Newborn(k)')
    BY <2>1 DEF Synced, Newborn
  <2>3. Accounted(k)'
    <3>1. CASE k \in lost
      <4>1. lost \subseteq lost'
        <5>1. CASE Tells(c)
          <6>1. PICK type \in Program, pk \in Key \cup {Foreign}, found \in Entry, e \in Entry :
                   Submit(type, c, pk, found, e)
            BY <5>1 DEF Tells
          <6> QED BY <6>1 DEF Submit
        <5> QED BY <5>1 DEF OnlyAbout
      <4> QED BY <3>1, <4>1 DEF Accounted
    <3>2. CASE Reported(k)
      <4>1. CASE UNCHANGED <<events, lost>>
        BY <2>1, <3>2, <4>1 DEF Accounted, Reported
      <4>2. CASE Tells(c)
        <5>1. PICK type \in Program, pk \in Key \cup {Foreign}, found \in Entry, e \in Entry :
                 Submit(type, c, pk, found, e)
          BY <4>2 DEF Tells
        <5>2. Reported(k)'
          BY <2>1, <3>2, <5>1, SubmitKeepsReported
        <5> QED BY <5>2 DEF Accounted
      <4> QED BY <4>1, <4>2 DEF OnlyAbout
    <3>3. CASE Synced(k) \/ (pc = "repair" /\ k \in trav.todo)
      BY <2>2, <3>3 DEF Accounted
    <3> QED BY <3>1, <3>2, <3>3 DEF MapInv, Accounted
  <2> QED BY <2>1, <2>2, <2>3 DEF EntryOK, MapInv
<1>4. MapInv'
  BY <1>3 DEF MapInv, EntryOK
<1> QED BY <1>1, <1>2, <1>4 DEF CInv

(* An entry that nobody writes, and about which nobody reports. *)
LEMMA QuietEntry ==
  ASSUME MapInv, UNCHANGED uvars, NEW c \in Key, UNCHANGED <<events, lost>>,
         processes'[c] = processes[c], Newborn(c)' => Newborn(c),
         bpf'[c].stage \in {"exec", "exit"} => bpf'[c].seen = processes[c]
  PROVE  EntryOK(c)
<1>1. UNCHANGED <<mirror, unsynced, pc, trav>>
  BY DEF uvars
<1>2. Synced(c) <=> Synced(c)'
  BY <1>1 DEF Synced
<1>3. Accounted(c)'
  BY <1>1, <1>2 DEF MapInv, Accounted, Reported
<1> QED BY <1>2, <1>3 DEF EntryOK, MapInv

(* An entry about which the two maps agree. *)
LEMMA SyncedEntry ==
  ASSUME NEW c \in Key, Synced(c)'
  PROVE  EntryOK(c)
BY DEF EntryOK, Accounted

(* An entry whose value is reported. *)
LEMMA ReportedEntry ==
  ASSUME TypeOK, NEW c \in Key, NEW type \in Program, NEW pk, NEW found, NEW e \in ProcessValue,
         Submit(type, c, pk, found, e), processes'[c] = e,
         type = "fork" => CanInherit(found) /\ mirror'[c] = Absent,
         bpf'[c].stage = "idle", life'[c] # "unborn"
  PROVE  EntryOK(c)
<1>1. processes'[c] = ValueOf(e) /\ processes'[c] # Absent
  BY AbsentAssumption DEF ValueOf
<1>2. c \in lost' \/ Reported(c)'
  BY <1>1, SubmitReports DEF TypeOK, KernelTypeOK
<1> QED BY <1>1, <1>2 DEF EntryOK, Accounted, Newborn

(* The processes and the programs keep the invariant. *)
LEMMA KernelInvariant ==
  ASSUME IInv, CInv, KernelNext \/ Tick, UNCHANGED uvars
  PROVE  CInv'
<1> TypeOK /\ KernelTypeOK /\ HandsOK /\ LifeInv /\ ClockInv /\ MapInv
  BY DEF IInv, CInv, TypeOK
<1> MapsOK /\ clock \in Nat /\ Now \in Nat /\ Now > 0 /\ clock <= Now
  BY TypeFacts DEF Now
<1> UNCHANGED <<mirror, unsynced, pc, trav>>
  BY DEF uvars
<1> USE KernelAssumption, IdleType
<1>1. ASSUME NEW k \in Key
      PROVE  /\ bpf[k] \in InFlight /\ bpf[k].seen \in Entry /\ bpf[k].time \in Nat
             /\ bpf[k].forker \in Key \cup {Foreign}
             /\ processes[k] \in Entry /\ mirror[k] \in Entry /\ Absent \in Entry
             /\ Stamped(processes[k]) /\ Stamped(bpf[k].seen)
             /\ bpf[k].stage \in Program => 0 < bpf[k].time /\ bpf[k].time <= clock
             /\ bpf[k].stage # "idle" => life[k] = "running"
  <2>1. /\ bpf[k] \in InFlight /\ bpf[k].seen \in Entry /\ bpf[k].time \in Nat
        /\ bpf[k].forker \in Key \cup {Foreign}
    BY InFlightFields
  <2> QED BY <2>1 DEF ClockInv, LifeInv, MapsOK, Entry
<1>2. ASSUME NEW k \in Key, bpf[k].stage \in Program, NEW t \in Stamp(k), Advance(t)
      PROVE  t \in Nat /\ 0 < t /\ t <= clock' /\ clock' \in Nat /\ clock <= clock'
  <2>1. t \in Nat /\ 0 < t
    BY <1>1, <1>2 DEF Stamp
  <2> QED BY <1>2, <2>1, AdvanceClock
<1>3. ASSUME clock' \in Nat, clock <= clock', NEW e \in Entry, Stamped(e)
      PROVE  e # Absent => 0 < e.timestamp /\ e.timestamp <= clock'
  BY <1>3, StampedLater
<1>4. ASSUME NEW k \in Key, NEW v, bpf' = [bpf EXCEPT ![k] = v]
      PROVE  bpf'[k] = v /\ \A j \in Key \ {k} : bpf'[j] = bpf[j]
  BY <1>4 DEF KernelTypeOK
<1>5. ASSUME NEW k \in Key, Finish(k)
      PROVE  /\ bpf'[k].stage = "idle" /\ bpf'[k].seen = Absent
             /\ \A j \in Key \ {k} : bpf'[j] = bpf[j]
  <2>1. bpf' = [bpf EXCEPT ![k] = Idle]
    BY <1>5 DEF Finish
  <2>2. bpf'[k] = Idle /\ \A j \in Key \ {k} : bpf'[j] = bpf[j]
    BY <1>4, <2>1
  <2> QED BY <2>2 DEF Idle
<1>6. ASSUME NEW k \in Key, bpf'[k].stage = "idle", bpf'[k].seen = Absent, Stamped(processes[k])'
      PROVE  SlotOK(k)
  BY <1>6 DEF SlotOK, Stamped, Program
<1>7. ASSUME NEW k \in Key, processes'[k] = processes[k], clock' \in Nat, clock <= clock'
      PROVE  Stamped(processes[k])'
  BY <1>1, <1>3, <1>7 DEF Stamped
<1>8. ASSUME NEW c \in Key, NEW p \in Key \cup {Foreign}, NEW pk \in Key \cup {Foreign},
             Clone(p, c, pk)
      PROVE  CInv'
  <2>1. /\ life[c] = "unborn" /\ life' = [life EXCEPT ![c] = "running"]
        /\ bpf' = [bpf EXCEPT ![c] = [Idle EXCEPT !.stage = "clone", !.forker = pk]]
        /\ UNCHANGED <<processes, events, clock, lost>>
    BY <1>8 DEF Clone
  <2>2. /\ bpf'[c] = [Idle EXCEPT !.stage = "clone", !.forker = pk]
        /\ \A j \in Key \ {c} : bpf'[j] = bpf[j]
    BY <1>4, <2>1
  <2>3. bpf'[c].stage = "clone" /\ bpf'[c].seen = Absent
    BY <2>2 DEF Idle
  <2>4. life'[c] = "running" /\ \A j \in Key \ {c} : life'[j] = life[j]
    BY <2>1 DEF KernelTypeOK
  <2>5. OnlyAbout(c)
    BY <2>1, <2>2, <2>4 DEF OnlyAbout
  <2>6. SlotOK(c)
    BY <1>1, <2>1, <2>3, <2>4 DEF SlotOK, Stamped, Program
  <2>7. EntryOK(c)
    BY <2>1, <2>3, QuietEntry DEF Newborn
  <2> QED BY <2>5, <2>6, <2>7, OthersKept
<1>9. ASSUME NEW c \in Key, ForkLookup(c) PROVE CInv'
  <2>1. PICK pk, parentValue :
           pk = bpf[c].forker /\ parentValue = Lookup(processes, pk)
    OBVIOUS
  <2>2. pk \in Key \cup {Foreign} /\ parentValue \in Entry
    BY <1>1, <2>1, LookupType DEF MapsOK
  <2>3. bpf[c].stage = "clone" /\ UNCHANGED <<life, processes>>
    BY <1>9 DEF ForkLookup
  <2>4. Synced(c)'
    BY <2>3 DEF MapInv, Newborn, Synced
  <2>5. CASE processes[c] = Absent /\ CanInherit(parentValue)
    <3>1. /\ Advance(Now) /\ UNCHANGED <<events, lost>>
          /\ bpf' = [bpf EXCEPT ![c] = [Idle EXCEPT !.stage = "fork", !.forker = pk,
                                                !.seen = parentValue, !.time = Now]]
      BY <1>9, <2>1, <2>5 DEF ForkLookup
    <3>2. /\ bpf'[c] = [Idle EXCEPT !.stage = "fork", !.forker = pk,
                                    !.seen = parentValue, !.time = Now]
          /\ \A j \in Key \ {c} : bpf'[j] = bpf[j]
      BY <1>4, <3>1
    <3>3. bpf'[c].stage = "fork" /\ bpf'[c].seen = parentValue /\ bpf'[c].time = Now
      BY <3>2 DEF Idle
    <3>4. clock' \in Nat /\ clock <= clock' /\ Now <= clock'
      BY <3>1, AdvanceClock
    <3>5. Stamped(parentValue)
      BY <1>1, <2>1, <2>2 DEF Lookup, Stamped
    <3>6. SlotOK(c)
      <4>1. Stamped(bpf[c].seen)'
        BY <1>3, <2>2, <3>3, <3>4, <3>5 DEF Stamped
      <4>2. Stamped(processes[c])'
        BY <1>7, <2>3, <3>4
      <4>3. life'[c] = "running"
        BY <1>1, <2>3
      <4> QED BY <3>3, <3>4, <4>1, <4>2, <4>3 DEF SlotOK
    <3>7. OnlyAbout(c)
      BY <2>3, <3>1, <3>2, <3>4 DEF OnlyAbout
    <3> QED BY <2>4, <3>6, <3>7, SyncedEntry, OthersKept
  <2>6. CASE ~(processes[c] = Absent /\ CanInherit(parentValue))
    <3>1. Submit("fork", c, pk, processes[c], processes[c]) /\ Finish(c) /\ UNCHANGED clock
      BY <1>9, <2>1, <2>6 DEF ForkLookup
    <3>2. Tells(c)
      <4>1. processes[c] = Absent => ~CanInherit(processes[c])
        BY DEF CanInherit, Live
      <4>2. processes[c] # Absent => 0 < processes[c].timestamp /\ processes[c].timestamp <= clock'
        BY <1>1, <3>1 DEF Stamped
      <4>3. "fork" \in Program /\ processes[c] \in Entry
        BY <1>1 DEF Program
      <4> QED BY <2>2, <3>1, <4>1, <4>2, <4>3 DEF Tells
    <3>3. bpf'[c].stage = "idle" /\ bpf'[c].seen = Absent /\ \A j \in Key \ {c} : bpf'[j] = bpf[j]
      BY <1>5, <3>1
    <3>4. SlotOK(c)
      BY <1>6, <1>7, <2>3, <3>1, <3>3
    <3>5. OnlyAbout(c)
      BY <2>3, <3>1, <3>2, <3>3 DEF OnlyAbout
    <3> QED BY <2>4, <3>4, <3>5, SyncedEntry, OthersKept
  <2> QED BY <2>5, <2>6
<1>10. ASSUME NEW c \in Key, ForkCommit(c) PROVE CInv'
  <2>1. bpf[c].stage = "fork" /\ Finish(c) /\ UNCHANGED life
    BY <1>10 DEF ForkCommit
  <2>2. PICK t \in Stamp(c) :
         LET copy == ForkCopy(bpf[c].seen, t)
             now == processes[c]
             put == now = Absent /\ CanPut(c)
         IN  /\ Advance(t)
             /\ processes' = IF put THEN [processes EXCEPT ![c] = copy] ELSE processes
             /\ Submit("fork", c, bpf[c].forker,
                       IF put THEN copy ELSE now,
                       IF now = Absent THEN copy ELSE now)
    BY <1>10 DEF ForkCommit
  <2>3. PICK copy, now : copy = ForkCopy(bpf[c].seen, t) /\ now = processes[c]
    OBVIOUS
  <2>4. PICK put \in BOOLEAN : put = (now = Absent /\ CanPut(c))
    BY DEF CanPut
  <2>5. /\ Advance(t)
        /\ processes' = IF put THEN [processes EXCEPT ![c] = copy] ELSE processes
        /\ Submit("fork", c, bpf[c].forker,
                  IF put THEN copy ELSE now, IF now = Absent THEN copy ELSE now)
    BY <2>2, <2>3, <2>4
  <2>6. t \in Nat /\ 0 < t /\ t <= clock' /\ clock' \in Nat /\ clock <= clock'
    BY <1>2, <2>1, <2>5 DEF Program
  <2>7. /\ copy \in ProcessValue /\ copy.timestamp = t /\ CanInherit(copy)
    <3>1. bpf[c].seen \in ProcessValue
      BY <2>1 DEF HandsOK
    <3>2. bpf[c].seen.generation \in Nat
      BY <3>1 DEF ProcessValue
    <3>3. copy \in ProcessValue
      BY <2>3, <2>6, <3>1, <3>2, ConstructorTypes DEF ForkCopy
    <3>4. copy.timestamp = t /\ copy.tombstone = FALSE /\ copy.hasMark = TRUE
      BY <2>3, <3>1 DEF ForkCopy, InheritedValue, ProcessValue
    <3> QED BY <3>3, <3>4, AbsentAssumption DEF CanInherit, Live
  <2>8. bpf'[c].stage = "idle" /\ bpf'[c].seen = Absent /\ \A j \in Key \ {c} : bpf'[j] = bpf[j]
    BY <1>5, <2>1
  <2>9. Tells(c)
    <3>1. PICK found, e : found = (IF put THEN copy ELSE now) /\ e = (IF now = Absent THEN copy ELSE now)
      OBVIOUS
    <3>2. found \in Entry /\ e \in Entry /\ e # Absent /\ "fork" \in Program
          /\ bpf[c].forker \in Key \cup {Foreign}
      BY <1>1, <2>3, <2>7, <3>1, AbsentAssumption DEF Entry, Program
    <3>3. 0 < e.timestamp /\ e.timestamp <= clock'
      BY <1>1, <1>3, <2>3, <2>6, <2>7, <3>1
    <3> QED BY <2>5, <3>1, <3>2, <3>3 DEF Tells
  <2>10. processes'[c] = (IF put THEN copy ELSE now) /\ \A j \in Key \ {c} : processes'[j] = processes[j]
    BY <2>3, <2>5 DEF MapsOK
  <2>11. Stamped(processes[c])'
    BY <1>1, <1>3, <2>3, <2>6, <2>7, <2>10 DEF Stamped
  <2>12. SlotOK(c) /\ OnlyAbout(c)
    BY <1>6, <2>1, <2>6, <2>8, <2>9, <2>10, <2>11 DEF OnlyAbout
  <2>13. EntryOK(c)
    <3>1. Synced(c)
      BY <2>1 DEF MapInv, Newborn
    <3>2. CASE ~put
      BY <2>3, <2>10, <3>1, <3>2, SyncedEntry DEF Synced
    <3>3. CASE put /\ c \in unsynced
      BY <3>3, SyncedEntry DEF Synced
    <3>4. CASE put /\ c \notin unsynced
      <4>1. now = Absent /\ mirror'[c] = Absent
        BY <2>3, <2>4, <3>1, <3>4 DEF Synced
      <4>2. Submit("fork", c, bpf[c].forker, copy, copy) /\ processes'[c] = copy
        BY <2>5, <2>10, <3>4, <4>1
      <4>3. life'[c] # "unborn"
        BY <1>1, <2>1
      <4> QED BY <2>7, <2>8, <4>1, <4>2, <4>3, ReportedEntry DEF Program
    <3> QED BY <3>2, <3>3, <3>4
  <2> QED BY <2>12, <2>13, OthersKept
<1>11. ASSUME NEW k \in Key, NEW c \in Comm, Execve(k, c) PROVE CInv'
  <2>1. /\ Alive(k) /\ ~Busy(k) /\ life' = [life EXCEPT ![k] = "running"]
        /\ bpf' = [bpf EXCEPT ![k] = [Idle EXCEPT !.stage = "execve"]]
        /\ UNCHANGED <<processes, events, clock, lost>>
    BY <1>11 DEF Execve
  <2>2. /\ bpf'[k] = [Idle EXCEPT !.stage = "execve"]
        /\ \A j \in Key \ {k} : bpf'[j] = bpf[j]
    BY <1>4, <2>1
  <2>3. bpf'[k].stage = "execve" /\ bpf'[k].seen = Absent
    BY <2>2 DEF Idle
  <2>4. life'[k] = "running" /\ \A j \in Key \ {k} : life'[j] = life[j]
    BY <2>1 DEF KernelTypeOK
  <2>5. OnlyAbout(k)
    BY <2>1, <2>2, <2>4 DEF OnlyAbout
  <2>6. SlotOK(k)
    BY <1>1, <2>1, <2>3, <2>4 DEF SlotOK, Stamped, Program
  <2>7. EntryOK(k)
    BY <2>1, <2>3, <2>4, QuietEntry DEF Newborn
  <2> QED BY <2>5, <2>6, <2>7, OthersKept
<1>12. ASSUME NEW k \in Key, ExecLookup(k) PROVE CInv'
  <2>1. bpf[k].stage = "execve" /\ UNCHANGED <<life, processes>> /\ life[k] = "running"
    BY <1>1, <1>12 DEF ExecLookup
  <2>2. CASE active.generation # 0 /\ active.mode # "userspace-only"
    <3>1. /\ Advance(Now) /\ UNCHANGED <<events, lost>>
          /\ bpf' = [bpf EXCEPT ![k] = [Idle EXCEPT !.stage = "exec",
                         !.seen = processes[k], !.rule = active.rules[comm[k]],
                         !.generation = active.generation, !.time = Now]]
      BY <1>12, <2>2 DEF ExecLookup
    <3>2. /\ bpf'[k] = [Idle EXCEPT !.stage = "exec",
                         !.seen = processes[k], !.rule = active.rules[comm[k]],
                         !.generation = active.generation, !.time = Now]
          /\ \A j \in Key \ {k} : bpf'[j] = bpf[j]
      BY <1>4, <3>1
    <3>3. bpf'[k].stage = "exec" /\ bpf'[k].seen = processes[k] /\ bpf'[k].time = Now
      BY <3>2 DEF Idle
    <3>4. clock' \in Nat /\ clock <= clock' /\ Now <= clock'
      BY <3>1, AdvanceClock
    <3>5. SlotOK(k)
      <4>1. Stamped(processes[k])' /\ Stamped(bpf[k].seen)'
        BY <1>7, <2>1, <3>3, <3>4 DEF Stamped
      <4> QED BY <2>1, <3>3, <3>4, <4>1 DEF SlotOK
    <3>6. OnlyAbout(k)
      BY <2>1, <3>1, <3>2, <3>4 DEF OnlyAbout
    <3>7. EntryOK(k)
      BY <2>1, <3>1, <3>3, QuietEntry DEF Newborn
    <3> QED BY <3>5, <3>6, <3>7, OthersKept
  <2>3. CASE ~(active.generation # 0 /\ active.mode # "userspace-only")
    <3>1. Submit("exec", k, Foreign, processes[k], processes[k]) /\ Finish(k) /\ UNCHANGED clock
      BY <1>12, <2>3 DEF ExecLookup
    <3>2. Tells(k)
      <4>1. processes[k] = Absent => ~CanInherit(processes[k])
        BY DEF CanInherit, Live
      <4>2. processes[k] # Absent => 0 < processes[k].timestamp /\ processes[k].timestamp <= clock'
        BY <1>1, <3>1 DEF Stamped
      <4>3. "exec" \in Program /\ processes[k] \in Entry
        BY <1>1 DEF Program
      <4> QED BY <3>1, <4>1, <4>2, <4>3 DEF Tells
    <3>3. bpf'[k].stage = "idle" /\ bpf'[k].seen = Absent /\ \A j \in Key \ {k} : bpf'[j] = bpf[j]
      BY <1>5, <3>1
    <3>4. SlotOK(k)
      BY <1>6, <1>7, <2>1, <3>1, <3>3
    <3>5. OnlyAbout(k)
      BY <2>1, <3>1, <3>2, <3>3 DEF OnlyAbout
    <3>6. EntryOK(k)
      <4>1. CASE Synced(k)
        BY <2>1, <4>1, SyncedEntry DEF Synced
      <4>2. CASE ~Synced(k)
        <5>1. processes[k] \in ProcessValue
          BY <1>1, <4>2 DEF MapInv, Entry
        <5> QED BY <2>1, <3>1, <3>3, <5>1, ReportedEntry DEF Program
      <4> QED BY <4>1, <4>2
    <3> QED BY <3>4, <3>5, <3>6, OthersKept
  <2> QED BY <2>2, <2>3
<1>13. ASSUME NEW k \in Key, ExecCommit(k) PROVE CInv'
  <2>1. bpf[k].stage = "exec" /\ Finish(k) /\ UNCHANGED life
    BY <1>13 DEF ExecCommit
  <2>2. PICK seen : seen = bpf[k].seen
    OBVIOUS
  <2>3. PICK t \in Stamp(k), rule \in RuleFound(k) :
         LET decided == rule # NoMatch \/ (active.mode = "authoritative" /\ seen # Absent)
             candidate == IF rule # NoMatch
                          THEN NewProcessValue(rule, active.generation, t)
                          ELSE ExecMiss(seen, active.generation, t)
             put == /\ decided
                    /\ seen = Absent \/ NextProcessValueWins(seen, candidate)
                    /\ CanPut(k)
             value == IF put THEN candidate ELSE seen
         IN  /\ decided \/ t = bpf[k].time
             /\ Advance(t)
             /\ processes' = IF put THEN [processes EXCEPT ![k] = candidate] ELSE processes
             /\ Submit("exec", k, Foreign, value, value)
    BY <1>13, <2>2 DEF ExecCommit
  <2>4. PICK candidate : candidate = IF rule # NoMatch
                          THEN NewProcessValue(rule, active.generation, t)
                          ELSE ExecMiss(seen, active.generation, t)
    OBVIOUS
  <2>5. PICK put \in BOOLEAN :
           put = /\ rule # NoMatch \/ (active.mode = "authoritative" /\ seen # Absent)
                 /\ seen = Absent \/ NextProcessValueWins(seen, candidate)
                 /\ CanPut(k)
    OBVIOUS
  <2>6. PICK value : value = IF put THEN candidate ELSE seen
    OBVIOUS
  <2>7. /\ Advance(t)
        /\ processes' = IF put THEN [processes EXCEPT ![k] = candidate] ELSE processes
        /\ Submit("exec", k, Foreign, value, value)
    BY <2>3, <2>4, <2>5, <2>6
  <2>8. t \in Nat /\ 0 < t /\ t <= clock' /\ clock' \in Nat /\ clock <= clock'
    BY <1>2, <2>1, <2>7 DEF Program
  <2>9. put => candidate \in ProcessValue /\ candidate.timestamp = t
    <3> SUFFICES ASSUME put PROVE candidate \in ProcessValue /\ candidate.timestamp = t
      OBVIOUS
    <3>1. active.generation \in Nat
      BY DEF KernelTypeOK, ActivePolicy
    <3>2. CASE rule # NoMatch
      <4>1. rule \in Decision
        BY <3>2, InFlightFields DEF RuleFound
      <4>2. candidate = NewProcessValue(rule, active.generation, t)
        BY <2>4, <3>2
      <4> QED BY <2>8, <3>1, <4>1, <4>2, ExplicitType DEF Decision, NewProcessValue
    <3>3. CASE rule = NoMatch
      <4>1. candidate = ExecMiss(seen, active.generation, t) /\ seen # Absent
        BY <2>4, <2>5, <3>3
      <4>2. seen \in ProcessValue
        BY <1>1, <2>2, <4>1 DEF Entry
      <4>3. CASE candidate = NewNoMarkProcessValue(seen, active.generation, t)
        BY <2>8, <3>1, <4>2, <4>3, ConstructorTypes DEF NewNoMarkProcessValue
      <4>4. CASE candidate = [ZeroValue EXCEPT !.generation = active.generation, !.timestamp = t]
        <5>1. candidate \in ProcessValue
          BY <2>8, <3>1, <4>2, <4>4, ConstructorTypes
        <5> QED BY <4>4, <5>1 DEF ZeroValue
      <4> QED BY <4>1, <4>3, <4>4 DEF ExecMiss
    <3> QED BY <3>2, <3>3
  <2>10. /\ value \in Entry
         /\ value # Absent => 0 < value.timestamp /\ value.timestamp <= clock'
    <3>1. CASE put
      BY <2>6, <2>8, <2>9, <3>1 DEF Entry
    <3>2. CASE ~put
      BY <1>1, <1>3, <2>2, <2>6, <2>8, <3>2
    <3> QED BY <3>1, <3>2
  <2>11. Tells(k)
    <3>1. value = Absent => ~CanInherit(value)
      BY DEF CanInherit, Live
    <3>2. "exec" \in Program
      BY DEF Program
    <3> QED BY <2>7, <2>10, <3>1, <3>2 DEF Tells
  <2>12. bpf'[k].stage = "idle" /\ bpf'[k].seen = Absent /\ \A j \in Key \ {k} : bpf'[j] = bpf[j]
    BY <1>5, <2>1
  <2>13. /\ processes'[k] = (IF put THEN candidate ELSE processes[k])
         /\ \A j \in Key \ {k} : processes'[j] = processes[j]
    BY <2>7 DEF MapsOK
  <2>14. Stamped(processes[k])'
    <3>1. CASE put
      BY <2>8, <2>9, <2>13, <3>1 DEF Stamped
    <3>2. CASE ~put
      BY <1>7, <2>8, <2>13, <3>2
    <3> QED BY <3>1, <3>2
  <2>15. SlotOK(k) /\ OnlyAbout(k)
    BY <1>6, <2>1, <2>8, <2>11, <2>12, <2>13, <2>14 DEF OnlyAbout
  <2>16. EntryOK(k)
    <3>1. life'[k] # "unborn" /\ "exec" \in Program
      BY <1>1, <2>1 DEF Program
    <3>2. CASE put
      <4>1. value \in ProcessValue /\ processes'[k] = value
        BY <2>6, <2>9, <2>13, <3>2
      <4> QED BY <2>7, <2>12, <3>1, <4>1, ReportedEntry
    <3>3. CASE ~put /\ Synced(k)
      BY <2>13, <3>3, SyncedEntry DEF Synced
    <3>4. CASE ~put /\ ~Synced(k)
      <4>1. seen = processes[k] /\ processes[k] # Absent
        BY <2>1, <2>2, <3>4 DEF MapInv
      <4>2. value \in ProcessValue /\ processes'[k] = value
        BY <2>6, <2>10, <2>13, <3>4, <4>1 DEF Entry
      <4> QED BY <2>7, <2>12, <3>1, <4>2, ReportedEntry
    <3> QED BY <3>2, <3>3, <3>4
  <2> QED BY <2>15, <2>16, OthersKept
<1>14. ASSUME NEW k \in Key, ExitLookup(k) PROVE CInv'
  <2>1. /\ life[k] = "running" /\ Advance(Now)
        /\ bpf' = [bpf EXCEPT ![k] = [Idle EXCEPT !.stage = "exit",
                                    !.seen = processes[k], !.time = Now]]
        /\ UNCHANGED <<life, processes, events, lost>>
    BY <1>14 DEF ExitLookup
  <2>2. /\ bpf'[k] = [Idle EXCEPT !.stage = "exit", !.seen = processes[k], !.time = Now]
        /\ \A j \in Key \ {k} : bpf'[j] = bpf[j]
    BY <1>4, <2>1
  <2>3. bpf'[k].stage = "exit" /\ bpf'[k].seen = processes[k] /\ bpf'[k].time = Now
    BY <2>2 DEF Idle
  <2>4. clock' \in Nat /\ clock <= clock' /\ Now <= clock'
    BY <2>1, AdvanceClock
  <2>5. SlotOK(k)
    <3>1. Stamped(processes[k])' /\ Stamped(bpf[k].seen)'
      BY <1>7, <2>1, <2>3, <2>4 DEF Stamped
    <3> QED BY <2>1, <2>3, <2>4, <3>1 DEF SlotOK
  <2>6. OnlyAbout(k)
    BY <2>1, <2>2, <2>4 DEF OnlyAbout
  <2>7. EntryOK(k)
    BY <2>1, <2>3, QuietEntry DEF Newborn
  <2> QED BY <2>5, <2>6, <2>7, OthersKept
<1>15. ASSUME NEW k \in Key, NEW others \in BOOLEAN, Die(k, others)
       PROVE  life'[k] # "unborn" /\ \A j \in Key \ {k} : life'[j] = life[j]
  BY <1>15 DEF Die, KernelTypeOK
<1>16. ASSUME NEW k \in Key, NEW others \in BOOLEAN, ExitCommit(k, others) PROVE CInv'
  <2>1. bpf[k].stage = "exit" /\ Die(k, others) /\ Finish(k)
    BY <1>16 DEF ExitCommit
  <2>2. bpf'[k].stage = "idle" /\ bpf'[k].seen = Absent /\ \A j \in Key \ {k} : bpf'[j] = bpf[j]
    BY <1>5, <2>1
  <2>3. life'[k] # "unborn" /\ \A j \in Key \ {k} : life'[j] = life[j]
    BY <1>15, <2>1
  <2>4. "exit" \in Program
    BY DEF Program
  <2>5. CASE bpf[k].seen = Absent
    <3>1. Submit("exit", k, Foreign, Absent, Absent) /\ UNCHANGED <<processes, clock>>
      BY <1>16, <2>5 DEF ExitCommit
    <3>2. Tells(k)
      <4>1. ~CanInherit(Absent) /\ Absent \in Entry
        BY DEF CanInherit, Live, Entry
      <4> QED BY <2>4, <3>1, <4>1 DEF Tells
    <3>3. SlotOK(k) /\ OnlyAbout(k)
      BY <1>6, <1>7, <2>2, <2>3, <3>1, <3>2 DEF OnlyAbout
    <3>4. Synced(k)'
      BY <2>1, <2>5, <3>1 DEF MapInv, Synced
    <3> QED BY <3>3, <3>4, SyncedEntry, OthersKept
  <2>6. CASE bpf[k].seen # Absent
    <3>1. PICK t \in Stamp(k) :
              LET tomb == [bpf[k].seen EXCEPT !.tombstone = TRUE, !.timestamp = t]
              IN  /\ Advance(t)
                  /\ processes' = IF CanPut(k) THEN [processes EXCEPT ![k] = tomb]
                                  ELSE processes
                  /\ Submit("exit", k, Foreign, bpf[k].seen, tomb)
      BY <1>16, <2>6 DEF ExitCommit
    <3>2. PICK tomb : tomb = [bpf[k].seen EXCEPT !.tombstone = TRUE, !.timestamp = t]
      OBVIOUS
    <3>3. /\ Advance(t) /\ Submit("exit", k, Foreign, bpf[k].seen, tomb)
          /\ processes' = IF CanPut(k) THEN [processes EXCEPT ![k] = tomb] ELSE processes
      BY <3>1, <3>2
    <3>4. t \in Nat /\ 0 < t /\ t <= clock' /\ clock' \in Nat /\ clock <= clock'
      BY <1>2, <2>1, <2>4, <3>3
    <3>5. bpf[k].seen \in ProcessValue /\ bpf[k].seen.generation \in Nat
      BY <1>1, <2>6 DEF Entry, ProcessValue
    <3>6. tomb \in ProcessValue /\ tomb # Absent
      BY <3>2, <3>4, <3>5, ConstructorTypes, AbsentAssumption
    <3>7. tomb.timestamp = t /\ tomb.tombstone
      BY <3>2, <3>5 DEF ProcessValue
    <3>8. Tells(k)
      <4>1. tomb \in Entry /\ bpf[k].seen \in Entry
        BY <3>5, <3>6 DEF Entry
      <4> QED BY <2>4, <3>3, <3>4, <3>6, <3>7, <4>1 DEF Tells
    <3>9. /\ processes'[k] = (IF CanPut(k) THEN tomb ELSE processes[k])
          /\ \A j \in Key \ {k} : processes'[j] = processes[j]
      BY <3>3 DEF MapsOK
    <3>10. Stamped(processes[k])'
      <4>1. CASE CanPut(k)
        BY <3>4, <3>7, <3>9, <4>1 DEF Stamped
      <4>2. CASE ~CanPut(k)
        BY <1>7, <3>4, <3>9, <4>2
      <4> QED BY <4>1, <4>2
    <3>11. SlotOK(k) /\ OnlyAbout(k)
      BY <1>6, <2>2, <2>3, <3>4, <3>8, <3>9, <3>10 DEF OnlyAbout
    <3>12. EntryOK(k)
      <4>1. CASE CanPut(k)
        BY <2>2, <2>3, <2>4, <3>3, <3>6, <3>9, <4>1, ReportedEntry
      <4>2. CASE ~CanPut(k)
        <5>1. Synced(k)
          BY <4>2 DEF CanPut, MapInv
        <5> QED BY <3>9, <4>2, <5>1, SyncedEntry DEF Synced
      <4> QED BY <4>1, <4>2
    <3> QED BY <3>11, <3>12, OthersKept
  <2> QED BY <2>5, <2>6
<1>17. ASSUME NEW k \in Key, UNCHANGED <<processes, events, clock, lost>>,
              bpf' = bpf \/ Finish(k), bpf'[k].stage = "idle",
              life'[k] # "unborn" \/ life'[k] = life[k],
              \A j \in Key \ {k} : life'[j] = life[j]
       PROVE  CInv'
  <2>1. \A j \in Key \ {k} : bpf'[j] = bpf[j]
    BY <1>5, <1>17
  <2>2. Stamped(bpf[k].seen)'
    <3>1. bpf'[k].seen = bpf[k].seen \/ bpf'[k].seen = Absent
      BY <1>5, <1>17
    <3> QED BY <1>1, <1>17, <3>1 DEF Stamped
  <2>3. SlotOK(k) /\ OnlyAbout(k)
    BY <1>7, <1>17, <2>1, <2>2 DEF SlotOK, OnlyAbout, Program
  <2>4. EntryOK(k)
    BY <1>17, QuietEntry DEF Newborn
  <2> QED BY <2>3, <2>4, OthersKept
<1>18. ASSUME NEW k \in Key, LastThreadExit(k) PROVE CInv'
  <2>1. /\ life[k] = "leaderless" /\ Die(k, FALSE)
        /\ UNCHANGED <<processes, events, clock, lost, bpf>>
    BY <1>18 DEF LastThreadExit
  <2>2. bpf'[k].stage = "idle"
    BY <1>1, <2>1
  <2> QED BY <1>15, <1>17, <2>1, <2>2
<1>19. ASSUME NEW k \in Key, Reap(k) PROVE CInv'
  <2>1. /\ life[k] = "zombie" /\ life' = [life EXCEPT ![k] = "gone"]
        /\ UNCHANGED <<processes, events, clock, lost, bpf>>
    BY <1>19 DEF Reap
  <2>2. bpf'[k].stage = "idle"
    BY <1>1, <2>1
  <2>3. life'[k] = "gone" /\ \A j \in Key \ {k} : life'[j] = life[j]
    BY <2>1 DEF KernelTypeOK
  <2> QED BY <1>17, <2>1, <2>2, <2>3
<1>20. ASSUME NEW k \in Key, UnobservedStep(k) PROVE CInv'
  <2>1. Unobserved(k) /\ UNCHANGED <<processes, events, clock, lost>>
    BY <1>20 DEF UnobservedStep
  <2>2. CASE Finish(k) /\ UNCHANGED life
    BY <1>5, <1>17, <2>1, <2>2
  <2>3. CASE ~Busy(k) /\ Die(k, FALSE) /\ UNCHANGED bpf
    <3>1. bpf'[k].stage = "idle"
      BY <2>3 DEF Busy
    <3> QED BY <1>15, <1>17, <2>1, <2>3, <3>1
  <2> QED BY <2>1, <2>2, <2>3 DEF Unobserved
<1>21. CASE Tick
  <2>1. /\ UNCHANGED <<life, processes, bpf, events, lost>>
        /\ clock' \in Nat /\ clock <= clock'
    BY <1>21, AdvanceClock DEF Tick
  <2>2. CASE Key # {}
    <3>1. PICK k \in Key : TRUE
      BY <2>2
    <3>2. Stamped(bpf[k].seen)'
      BY <1>1, <1>3, <2>1 DEF Stamped
    <3>3. SlotOK(k) /\ OnlyAbout(k)
      BY <1>1, <1>7, <2>1, <3>2 DEF SlotOK, OnlyAbout
    <3>4. EntryOK(k)
      BY <2>1 DEF EntryOK, MapInv, Accounted, Synced, Newborn, Reported
    <3> QED BY <3>3, <3>4, OthersKept
  <2>3. CASE Key = {}
    <3>1. \A i \in 1..Len(events) : events[i] \in Event
      BY LenProperties DEF KernelTypeOK
    <3>2. \A ev \in Event : FALSE
      BY <2>3 DEF Event
    <3>3. ClockInv'
      BY <2>1, <2>3, <3>1, <3>2 DEF ClockInv
    <3> QED BY <2>3, <3>3 DEF CInv, LifeInv, MapInv
  <2> QED BY <2>2, <2>3
<1> QED BY <1>8, <1>9, <1>10, <1>11, <1>12, <1>13, <1>14, <1>16, <1>18, <1>19, <1>20, <1>21
        DEF KernelNext

(* Nothing is in either map when the daemon starts. *)
LEMMA CInvInit == Init => CInv
<1> SUFFICES ASSUME Init PROVE CInv
  OBVIOUS
<1>1. /\ processes = [k \in Key |-> Absent] /\ mirror = [k \in Key |-> Absent]
      /\ bpf = [k \in Key |-> Idle] /\ events = <<>>
  BY DEF Init, FreshInit, BootedInit, KernelInit, MarkerInit
<1>2. Idle.stage = "idle" /\ Idle.seen = Absent /\ Len(events) = 0
  BY <1>1, EmptySeq DEF Idle
<1>3. LifeInv
  BY <1>1, <1>2 DEF LifeInv
<1>4. ClockInv
  BY <1>1, <1>2 DEF ClockInv, Stamped, Program
<1>5. MapInv
  BY <1>1, <1>2 DEF MapInv, Accounted, Synced
<1> QED BY <1>3, <1>4, <1>5 DEF CInv

(* The invariant is inductive. *)
LEMMA CInvStep == IInv /\ CInv /\ [Next]_vars => CInv'
<1> SUFFICES ASSUME IInv, CInv, [Next]_vars PROVE CInv'
  OBVIOUS
<1>1. CASE (KernelNext \/ Tick) /\ UNCHANGED uvars
  BY <1>1, KernelInvariant
<1>2. CASE UNCHANGED vars
  <2>1. UNCHANGED <<life, bpf, processes, mirror, events, clock, lost, unsynced, pc, trav>>
    BY <1>2 DEF vars, kvars, uvars
  <2>2. LifeInv'
    BY <2>1 DEF CInv, LifeInv
  <2>3. ClockInv'
    BY <2>1 DEF CInv, ClockInv, Stamped
  <2>4. MapInv'
    BY <2>1 DEF CInv, MapInv, Accounted, Synced, Newborn, Reported
  <2> QED BY <2>2, <2>3, <2>4 DEF CInv
<1>3. CASE DaemonNext
  BY <1>3, DaemonInvariant
<1> QED BY <1>1, <1>2, <1>3 DEF Next, KernelStep, TimePasses, DaemonNext

(* MapsConverge: whenever nothing about a process is under way, the pinned  *)
(* map and the mirror hold the same value for it, although the programs and *)
(* the daemon overwrite each other without comparing, events are dropped,   *)
(* Puts fail in a full map and iterations break off.                        *)
THEOREM Convergence == Spec => []MapsConverge
<1>1. IInv /\ CInv /\ [Next]_vars => (IInv /\ CInv)'
  BY IInvStep, CInvStep
<1>2. IInv /\ CInv => MapsConverge
  <2> SUFFICES ASSUME IInv, CInv, NEW k \in Key, Settled(k)
               PROVE  processes[k] = mirror[k]
    BY DEF MapsConverge
  <2>1. /\ pc = "free" /\ k \notin lost \cup unsynced
        /\ \A i \in 1..Len(events) : events[i].key # k
    BY DEF Settled
  <2>2. Accounted(k)
    BY DEF CInv, MapInv
  <2> QED BY <2>1, <2>2 DEF Accounted, Synced, Reported
<1> QED BY IInvInit, CInvInit, <1>1, <1>2, PTL DEF Spec

-----------------------------------------------------------------------------
(* Generations *)

(* The kernel's steps neither raise the dead nor forget who was born. *)
LEMMA LifeSteps ==
  ASSUME KernelTypeOK, LifeInv, KernelNext \/ Tick, NEW k \in Key
  PROVE  /\ Alive(k)' => Alive(k) \/ life[k] = "unborn"
         /\ life'[k] = "unborn" => life[k] = "unborn"
<1> DEFINE G == /\ Alive(k)' => Alive(k) \/ life[k] = "unborn"
                /\ life'[k] = "unborn" => life[k] = "unborn"
<1>1. ASSUME UNCHANGED life PROVE G
  BY <1>1 DEF Alive
<1>2. ASSUME NEW j \in Key, NEW l, life' = [life EXCEPT ![j] = l], l # "unborn",
             l \in {"running", "leaderless"} => Alive(j) \/ life[j] = "unborn"
      PROVE  G
  BY <1>2 DEF Alive, KernelTypeOK
<1>3. ASSUME NEW c \in Key, NEW p, NEW pk, Clone(p, c, pk) PROVE G
  BY <1>2, <1>3 DEF Clone
<1>4. ASSUME NEW j \in Key, NEW c, Execve(j, c) PROVE G
  BY <1>2, <1>4 DEF Execve
<1>5. ASSUME NEW j \in Key, NEW others \in BOOLEAN, Die(j, others), others => Alive(j)
      PROVE  G
  <2>1. life' = [life EXCEPT ![j] = IF others THEN "leaderless" ELSE "zombie"]
    BY <1>5 DEF Die
  <2> QED BY <1>2, <1>5, <2>1
<1>6. ASSUME NEW j \in Key, NEW others \in BOOLEAN, ExitCommit(j, others) PROVE G
  <2>1. Die(j, others) /\ bpf[j].stage = "exit"
    BY <1>6 DEF ExitCommit
  <2>2. Alive(j)
    BY <2>1 DEF LifeInv, Alive
  <2> QED BY <1>5, <2>1, <2>2
<1>7. ASSUME NEW j \in Key, LastThreadExit(j) \/ Reap(j) PROVE G
  <2>1. CASE LastThreadExit(j)
    BY <1>5, <2>1 DEF LastThreadExit
  <2>2. CASE Reap(j)
    BY <1>2, <2>2 DEF Reap
  <2> QED BY <1>7, <2>1, <2>2
<1>8. ASSUME NEW j \in Key, UnobservedStep(j) PROVE G
  BY <1>1, <1>5, <1>8 DEF UnobservedStep, Unobserved
<1>9. ASSUME NEW j \in Key, ForkLookup(j) \/ ForkCommit(j) \/ ExecLookup(j) \/ ExecCommit(j)
                            \/ ExitLookup(j)
      PROVE  G
  <2>1. UNCHANGED life
    BY <1>9 DEF ForkLookup, ForkCommit, ExecLookup, ExecCommit, ExitLookup
  <2> QED BY <1>1, <2>1
<1>10. CASE Tick
  BY <1>1, <1>10 DEF Tick
<1> QED BY <1>3, <1>4, <1>6, <1>7, <1>8, <1>9, <1>10 DEF KernelNext

(* Merging a value of generation g leaves nothing live that is older. *)
LEMMA MergeGeneration ==
  ASSUME NEW e \in Entry, NEW v \in ProcessValue
  PROVE  LET w == MergeEntry(e, v)
         IN  Live(w) => ~(w.generation < v.generation)
<1> DEFINE w == MergeEntry(e, v)
<1> SUFFICES ASSUME Live(w) PROVE ~(w.generation < v.generation)
  OBVIOUS
<1>1. v.generation \in Int
  BY ProcessValueFields
<1>2. CASE e = Absent
  BY <1>1, <1>2 DEF MergeEntry
<1>3. CASE e # Absent
  <2>1. e \in ProcessValue
    BY <1>3 DEF Entry
  <2>2. e.generation \in Int /\ e.tombstone \in BOOLEAN /\ v.tombstone \in BOOLEAN
    BY <2>1, ProcessValueFields
  <2>3. CASE OldPreferred(e, v)
    <3>1. w = e /\ e.tombstone = FALSE
      BY <1>3, <2>2, <2>3 DEF MergeEntry, PreferProcessValue, Live
    <3>2. CASE v.tombstone = TRUE
      BY <2>3, <3>1, <3>2 DEF OldPreferred
    <3>3. CASE v.tombstone = FALSE
      BY <1>1, <2>2, <2>3, <3>1, <3>3 DEF OldPreferred
    <3> QED BY <2>2, <3>2, <3>3
  <2>4. CASE ~OldPreferred(e, v)
    BY <1>1, <1>3, <2>4 DEF MergeEntry, PreferProcessValue
  <2> QED BY <2>3, <2>4
<1> QED BY <1>2, <1>3

(* The values that the daemon makes are of the current generation, and a    *)
(* live entry always gets one when its process is decided.                  *)
LEMMA NewValueGeneration ==
  ASSUME TypeOK
  PROVE  /\ \A j \in Job : j.key \in Key =>
              /\ ForkValue(j) # Absent => ForkValue(j).generation = generation
              /\ ForkValue(j) = Absent => ~Live(mirror[j.key])
              /\ ExecValue(j) # Absent => ExecValue(j).generation = generation
              /\ ExecValue(j) = Absent => j.value = Absent
         /\ \A k \in Key, p \in Entry :
              /\ WalkValue(k, p) # Absent => WalkValue(k, p).generation = generation
              /\ WalkValue(k, p) = Absent => ~Live(mirror[k])
<1> generation \in Nat /\ Now \in Nat /\ MapsOK
  BY TypeFacts
<1>1. ASSUME NEW d \in Decision
      PROVE  /\ NewProcessValue(d, generation, Now).generation = generation
             /\ NewProcessValue(d, generation, Now) # Absent
  BY ExplicitType, AbsentAssumption DEF NewProcessValue, Decision
<1>2. ASSUME NEW v \in ProcessValue
      PROVE  /\ NewNoMarkProcessValue(v, generation, Now).generation = generation
             /\ NewNoMarkProcessValue(v, generation, Now) # Absent
             /\ InheritedValue(v, generation, Now).generation = generation
             /\ InheritedValue(v, generation, Now) # Absent
  <2>1. /\ NewNoMarkProcessValue(v, generation, Now) \in ProcessValue
        /\ InheritedValue(v, generation, Now) \in ProcessValue
    BY ConstructorTypes
  <2>2. InheritedValue(v, generation, Now).generation = generation
    BY DEF InheritedValue, ProcessValue
  <2>3. NewNoMarkProcessValue(v, generation, Now).generation = generation
    BY DEF NewNoMarkProcessValue
  <2> QED BY <2>1, <2>2, <2>3, AbsentAssumption
<1>3. ASSUME NEW j \in Job, j.key \in Key
      PROVE  /\ ForkValue(j) # Absent => ForkValue(j).generation = generation
             /\ ForkValue(j) = Absent => ~Live(mirror[j.key])
             /\ ExecValue(j) # Absent => ExecValue(j).generation = generation
             /\ ExecValue(j) = Absent => j.value = Absent
  <2>1. j.comm \in Comm /\ j.value \in Entry /\ j.parentKey \in Key \cup {Foreign}
    BY DEF Job
  <2>2. policy.check[j.comm] \in Decision \cup {NoMatch}
    BY <2>1, CheckType
  <2>3. Lookup(mirror, j.parentKey) \in Entry /\ mirror[j.key] \in Entry
    BY <1>3, <2>1, LookupType DEF MapsOK
  <2>4. /\ CanInherit(Lookup(mirror, j.parentKey)) => Lookup(mirror, j.parentKey) \in ProcessValue
        /\ Live(mirror[j.key]) => mirror[j.key] \in ProcessValue
        /\ j.value # Absent => j.value \in ProcessValue
    BY <2>1, <2>3, CanInheritFacts DEF Entry
  <2> QED BY <1>1, <1>2, <2>2, <2>4 DEF ForkValue, ExecValue
<1>4. ASSUME NEW k \in Key, NEW p \in Entry
      PROVE  /\ WalkValue(k, p) # Absent => WalkValue(k, p).generation = generation
             /\ WalkValue(k, p) = Absent => ~Live(mirror[k])
  <2>1. policy.check[trav.comm[k]] \in Decision \cup {NoMatch}
    BY CheckType DEF TypeOK, MarkerTypeOK, Traversal
  <2>2. /\ CanInheritCurrent(p) => p \in ProcessValue
        /\ Live(mirror[k]) => mirror[k] \in ProcessValue
    BY CanInheritFacts DEF CanInheritCurrent, MapsOK
  <2> QED BY <1>1, <1>2, <2>1, <2>2 DEF WalkValue
<1> QED BY <1>3, <1>4

(* An upsert of a value of the current generation leaves its key current. *)
LEMMA UpsertRefreshes ==
  ASSUME TypeOK, ClockInv, NEW k \in Key, NEW v \in Entry, UpsertNow(k, v),
         v # Absent => v.timestamp = Now /\ v.generation = generation,
         v = Absent => ~Live(mirror[k]), UNCHANGED generation
  PROVE  Fresh(k)' /\ \A j \in Key \ {k} : mirror'[j] = mirror[j]
<1>1. /\ v # Absent => mirror'[k] = MergeEntry(mirror[k], v)
      /\ v = Absent => mirror'[k] = mirror[k]
      /\ \A j \in Key \ {k} : mirror'[j] = mirror[j]
  BY UpsertNowWrites DEF ClockInv
<1>2. mirror[k] \in Entry
  BY TypeFacts DEF MapsOK
<1>3. CASE v = Absent
  BY <1>1, <1>3 DEF Fresh, StaleGeneration
<1>4. CASE v # Absent
  <2>1. v \in ProcessValue
    BY <1>4 DEF Entry
  <2>2. Live(MergeEntry(mirror[k], v)) => ~(MergeEntry(mirror[k], v).generation < v.generation)
    BY <1>2, <2>1, MergeGeneration
  <2> QED BY <1>1, <1>4, <2>2 DEF Fresh, StaleGeneration
<1> QED BY <1>1, <1>3, <1>4

(* Merging a tombstone leaves a tombstone. *)
LEMMA TombstoneFresh ==
  ASSUME NEW k \in Key, NEW e \in Entry, NEW v \in ProcessValue, v.tombstone \/ Tombstone(e),
         mirror'[k] = MergeEntry(e, v)
  PROVE  Fresh(k)'
<1>1. mirror'[k].tombstone
  BY MergeEntryFacts
<1> QED BY <1>1 DEF Fresh, StaleGeneration, Live

(* A step of the daemon forgets nobody, unless an iteration breaks off. *)
LEMMA DaemonGenerations ==
  ASSUME IInv, ClockInv, GenInv, AbortIteration = FALSE, DaemonNext
  PROVE  GenInv'
<1> TypeOK /\ HandsOK
  BY DEF IInv
<1> MapsOK /\ clock \in Nat /\ Now \in Nat /\ generation \in Nat /\ trav \in Traversal
    /\ job \in Job
  BY TypeFacts DEF TypeOK, MarkerTypeOK
<1> USE MarkerAssumption, KernelAssumption
<1>0. UNCHANGED life
  BY DaemonShape
<1>1. ASSUME NEW k \in Key, Fresh(k), mirror'[k] = mirror[k], UNCHANGED generation
      PROVE  Fresh(k)'
  BY <1>0, <1>1 DEF Fresh, StaleGeneration, Alive
<1>2. ASSUME UNCHANGED <<mirror, generation, pc, job, trav>> PROVE GenInv'
  <2>1. \A k \in Key : Fresh(k) => Fresh(k)'
    BY <1>1, <1>2
  <2> QED BY <1>2, <2>1 DEF GenInv
<1>3. ASSUME pc' \in {"refresh", "repair"} PROVE GenInv'
  BY <1>3 DEF GenInv
<1>4. ASSUME pc' \in {"free", "sweep"}, \A k \in Key : Fresh(k)' PROVE GenInv'
  BY <1>4 DEF GenInv
<1>5. ASSUME pc' = "walk", \A k \in Key \ trav'.todo : Fresh(k)' PROVE GenInv'
  BY <1>5 DEF GenInv
<1>6. CASE RecvFork
  <2>1. PICK e : e = Head(events)
    OBVIOUS
  <2>2. events # <<>> /\ pc = "free" /\ pc' = "fork" /\ UNCHANGED <<clock, generation>>
    BY <1>6 DEF RecvFork, Receive, Acquire
  <2>3. /\ e.key \in Key /\ e.value \in ProcessValue
        /\ \A k \in Key : Fresh(k)
    BY <2>1, <2>2, HeadFacts DEF GenInv
  <2>4. \A k \in Key \ {e.key} : mirror'[k] = mirror[k]
    <3>1. CASE Upsert(e.key, e.value, TRUE)
      BY <2>3, <3>1, UpsertFacts
    <3>2. CASE UNCHANGED mirror
      BY <3>2
    <3> QED BY <1>6, <2>1, <3>1, <3>2 DEF RecvFork, NoUpsert
  <2>5. job'.key = e.key
    <3>1. PICK v : job' = JobOf(e, v)
      BY <1>6, <2>1 DEF RecvFork
    <3> QED BY <3>1 DEF JobOf
  <2>6. \A k \in Key \ {e.key} : Fresh(k)'
    BY <1>1, <2>2, <2>3, <2>4
  <2> QED BY <2>2, <2>5, <2>6 DEF GenInv
<1>7. CASE DecideFork
  <2>1. /\ pc = "fork" /\ UpsertNow(job.key, ForkValue(job)) /\ pc' = "free"
        /\ UNCHANGED generation
    BY <1>7 DEF DecideFork, EventDone
  <2>2. PICK k \in Key : k = job.key
    BY <2>1 DEF HandsOK
  <2>3. PICK v \in Entry : v = ForkValue(job)
    BY <2>2, CandidateTypes
  <2>4. /\ v # Absent => v.timestamp = Now /\ v.generation = generation
        /\ v = Absent => ~Live(mirror[k])
    BY <2>2, <2>3, NewValueStamps, NewValueGeneration
  <2>5. Fresh(k)' /\ \A j \in Key \ {k} : mirror'[j] = mirror[j]
    BY <2>1, <2>2, <2>3, <2>4, UpsertRefreshes
  <2>6. \A j \in Key \ {k} : Fresh(j)'
    BY <1>1, <2>1, <2>2, <2>5 DEF GenInv
  <2> QED BY <1>4, <2>1, <2>5, <2>6
<1>8. CASE RecvExec
  <2>1. PICK e : e = Head(events)
    OBVIOUS
  <2>2. PICK value : value = IF e.value = ZeroValue THEN mirror[e.key]
                             ELSE MergeEntry(mirror[e.key], e.value)
    OBVIOUS
  <2>3. /\ events # <<>> /\ pc = "free" /\ UNCHANGED <<clock, generation>>
        /\ pc' = IF Tombstone(value) THEN "free" ELSE "exec"
        /\ mirror' = [mirror EXCEPT ![e.key] = value]
        /\ ~Tombstone(value) => job' = JobOf(e, value)
    BY <1>8, <2>1, <2>2 DEF RecvExec, Receive, Acquire
  <2>4. e.key \in Key /\ \A k \in Key : Fresh(k)
    BY <2>1, <2>3, HeadFacts DEF GenInv
  <2>5. mirror'[e.key] = value /\ \A k \in Key \ {e.key} : mirror'[k] = mirror[k]
    BY <2>3, <2>4 DEF MapsOK
  <2>6. \A k \in Key \ {e.key} : Fresh(k)'
    BY <1>1, <2>3, <2>4, <2>5
  <2>7. CASE Tombstone(value)
    <3>1. PICK k \in Key : k = e.key
      BY <2>4
    <3>2. Fresh(k)'
      BY <2>5, <2>7, <3>1 DEF Fresh, StaleGeneration, Live, Tombstone
    <3> QED BY <1>4, <2>3, <2>6, <2>7, <3>1, <3>2
  <2>8. CASE ~Tombstone(value)
    <3>1. pc' = "exec" /\ job'.key = e.key /\ job'.value = value
      BY <2>3, <2>8 DEF JobOf
    <3> QED BY <2>5, <2>6, <3>1 DEF GenInv
  <2> QED BY <2>7, <2>8
<1>9. CASE DecideExec
  <2>1. /\ pc = "exec" /\ UpsertNow(job.key, ExecValue(job)) /\ pc' = "free"
        /\ UNCHANGED generation
    BY <1>9 DEF DecideExec, EventDone
  <2>2. PICK k \in Key : k = job.key
    BY <2>1 DEF HandsOK
  <2>3. PICK v \in Entry : v = ExecValue(job)
    BY <2>2, CandidateTypes
  <2>4. /\ v # Absent => v.timestamp = Now /\ v.generation = generation
        /\ v = Absent => ~Live(mirror[k])
    <3>1. v = Absent => job.value = Absent
      BY <2>2, <2>3, NewValueGeneration
    <3> QED BY <2>1, <2>2, <2>3, <3>1, NewValueStamps, NewValueGeneration DEF GenInv, Live
  <2>5. Fresh(k)' /\ \A j \in Key \ {k} : mirror'[j] = mirror[j]
    BY <2>1, <2>2, <2>3, <2>4, UpsertRefreshes
  <2>6. \A j \in Key \ {k} : Fresh(j)'
    BY <1>1, <2>1, <2>2, <2>5 DEF GenInv
  <2> QED BY <1>4, <2>1, <2>5, <2>6
<1>10. CASE RecvExit
  <2>1. PICK e : e = Head(events)
    OBVIOUS
  <2>2. PICK old : old = mirror[e.key]
    OBVIOUS
  <2>3. PICK value : value = IF old # Absent THEN old ELSE e.value
    OBVIOUS
  <2>4. events # <<>> /\ pc = "free" /\ pc' = "free" /\ UNCHANGED generation
    BY <1>10 DEF RecvExit, Receive, Acquire
  <2>5. /\ e.key \in Key /\ e.value \in ProcessValue /\ old \in Entry
        /\ e.value # ZeroValue => Stamped(e.value)
        /\ \A k \in Key : Fresh(k)
    BY <2>1, <2>2, <2>4, HeadFacts DEF GenInv
  <2>6. CASE old = Absent /\ ~e.value.tombstone
    <3>1. UNCHANGED mirror
      BY <1>10, <2>1, <2>2, <2>6 DEF RecvExit, NoUpsert
    <3> QED BY <1>1, <1>4, <2>4, <2>5, <3>1
  <2>7. CASE ~(old = Absent /\ ~e.value.tombstone)
    <3>1. Upsert(e.key, TombstoneOf(value, Now), e.hasMark \/ CanInherit(old))
      BY <1>10, <2>1, <2>2, <2>3, <2>7 DEF RecvExit
    <3>2. value \in ProcessValue
      BY <2>3, <2>5 DEF Entry
    <3>3. Stamped(value)
      BY <2>2, <2>3, <2>5, <2>7 DEF ZeroValue, ClockInv
    <3>4. PICK k \in Key : k = e.key
      BY <2>5
    <3>5. PICK v \in ProcessValue : v = TombstoneOf(value, Now)
      BY <3>2, ConstructorTypes
    <3>6. v.tombstone
      BY <3>2, <3>3, <3>5, TombstoneStamp
    <3>7. mirror'[k] = MergeEntry(old, v) /\ \A j \in Key \ {k} : mirror'[j] = mirror[j]
      BY <2>2, <3>1, <3>4, <3>5 DEF Upsert, MapsOK
    <3>8. Fresh(k)'
      BY <2>5, <3>6, <3>7, TombstoneFresh
    <3> QED BY <1>1, <1>4, <2>4, <2>5, <3>7, <3>8
  <2> QED BY <2>6, <2>7
<1>11. CASE ForeignEvent
  BY <1>2, <1>11 DEF ForeignEvent
<1>12. CASE CollectTombstones
  <2>1. /\ pc = "free" /\ pc' = "sweep" /\ UNCHANGED generation
        /\ mirror' = [k \in Key |-> IF k \in Expired THEN Absent ELSE mirror[k]]
    BY <1>12 DEF CollectTombstones, Acquire
  <2>2. ASSUME NEW k \in Key PROVE Fresh(k)'
    <3>1. CASE k \in Expired
      BY <2>1, <3>1 DEF Fresh, StaleGeneration, Live
    <3>2. CASE k \notin Expired
      BY <1>1, <2>1, <3>2 DEF GenInv
    <3> QED BY <3>1, <3>2
  <2> QED BY <1>4, <2>1, <2>2
<1>13. CASE \E k \in Key : SweepDead(k)
  <2> PICK k \in Key : SweepDead(k)
    BY <1>13
  <2>1. /\ pc = "sweep" /\ pc' = "sweep" /\ UNCHANGED generation
        /\ mirror[k] \in ProcessValue /\ UpsertNow(k, TombstoneOf(mirror[k], Now))
    BY DEF SweepDead, HandsOK
  <2>2. PICK v \in ProcessValue : v = TombstoneOf(mirror[k], Now)
    BY <2>1, ConstructorTypes
  <2>3. v.tombstone /\ v.timestamp = Now /\ v # Absent /\ v \in Entry
    BY <2>1, <2>2, TombstoneStamp, AbsentAssumption DEF ClockInv, Entry
  <2>4. /\ mirror'[k] = MergeEntry(mirror[k], v)
        /\ \A j \in Key \ {k} : mirror'[j] = mirror[j]
    BY <2>1, <2>2, <2>3, UpsertNowWrites DEF ClockInv
  <2>5. Fresh(k)'
    BY <2>3, <2>4, TombstoneFresh DEF MapsOK
  <2> QED BY <1>1, <1>4, <2>1, <2>4, <2>5 DEF GenInv
<1>14. CASE SweepDone
  <2>1. pc = "sweep" /\ UNCHANGED <<mirror, generation>> /\ pc' \in {"refresh", "free"}
    BY <1>14 DEF SweepDone, Release
  <2> QED BY <1>1, <1>3, <1>4, <2>1 DEF GenInv
<1>15. CASE Refresh
  BY <1>3, <1>15 DEF Refresh
<1>16. CASE RefreshAbort
  BY <1>16 DEF RefreshAbort
<1>17. CASE RepairAndList
  <2>1. pc' = "walk" /\ trav'.todo = {k \in Key : Visible(k)}
    BY <1>17 DEF RepairAndList
  <2>2. ASSUME NEW k \in Key \ trav'.todo PROVE Fresh(k)'
    BY <1>0, <2>1 DEF Fresh, Alive, Visible
  <2> QED BY <1>5, <2>1, <2>2
<1>18. CASE \E k \in Key : ListMiss(k)
  <2> PICK k \in Key : ListMiss(k)
    BY <1>18
  <2>1. /\ pc = "walk" /\ pc' = "walk" /\ ~Visible(k) /\ UNCHANGED <<mirror, generation>>
        /\ trav' = [trav EXCEPT !.todo = trav.todo \ {k}, !.listed = trav.listed \ {k}]
    BY DEF ListMiss
  <2>2. trav'.todo = trav.todo \ {k}
    BY <2>1 DEF Traversal
  <2>3. Fresh(k)'
    BY <1>0, <2>1 DEF Fresh, Alive, Visible
  <2>4. ASSUME NEW j \in Key \ trav.todo PROVE Fresh(j)'
    BY <1>1, <2>1 DEF GenInv
  <2> QED BY <1>5, <2>1, <2>2, <2>3, <2>4
<1>19. ASSUME NEW k \in Key, NEW p \in Entry, pc = "walk", Visit(k, p) PROVE GenInv'
  <2>1. /\ UpsertNow(k, WalkValue(k, p)) /\ pc' = "walk" /\ UNCHANGED generation
        /\ trav' = [trav EXCEPT !.todo = trav.todo \ {k}, !.value[k] = WalkValue(k, p)]
    BY <1>19 DEF Visit
  <2>2. PICK v \in Entry : v = WalkValue(k, p)
    BY CandidateTypes
  <2>3. /\ v # Absent => v.timestamp = Now /\ v.generation = generation
        /\ v = Absent => ~Live(mirror[k])
    BY <2>2, NewValueStamps, NewValueGeneration
  <2>4. Fresh(k)' /\ \A j \in Key \ {k} : mirror'[j] = mirror[j]
    BY <2>1, <2>2, <2>3, UpsertRefreshes
  <2>5. trav'.todo = trav.todo \ {k}
    BY <2>1 DEF Traversal
  <2>6. ASSUME NEW j \in Key \ trav.todo, j # k PROVE Fresh(j)'
    BY <1>1, <1>19, <2>1, <2>4, <2>6 DEF GenInv
  <2> QED BY <1>5, <2>1, <2>4, <2>5, <2>6
<1>20. CASE \E k \in Key : Walk(k) \/ WalkOrphan(k)
  <2> PICK k \in Key : Walk(k) \/ WalkOrphan(k)
    BY <1>20
  <2>1. /\ Lookup(trav.value, trav.parent[k]) \in Entry
        /\ (IF trav.parent[k] \in trav.listed THEN mirror[trav.parent[k]] ELSE Absent) \in Entry
    BY LookupType DEF Traversal, MapsOK, Entry
  <2> QED BY <1>19, <2>1 DEF Walk, WalkOrphan
<1>21. CASE TraversalDone
  <2>1. pc = "walk" /\ trav.todo = {} /\ pc' = "free" /\ UNCHANGED <<mirror, generation>>
    BY <1>21 DEF TraversalDone, Release
  <2> QED BY <1>1, <1>4, <2>1 DEF GenInv
<1>22. CASE RunTraverse \/ ForceProcessTraversal \/ \E p \in Policies : SetPolicy(p)
  BY <1>3, <1>22 DEF RunTraverse, ForceProcessTraversal, SetPolicy, Acquire
<1>23. CASE RunAttach \/ UpdateHooks
  BY <1>2, <1>23 DEF RunAttach, Attach, UpdateHooks
<1>24. CASE \E k \in Key, d \in ApiMarks : SetProcessMark(k, d)
  <2> PICK k \in Key, d \in ApiMarks : SetProcessMark(k, d)
    BY <1>24
  <2>1. /\ pc = "free" /\ pc' = "free" /\ UNCHANGED generation
        /\ UpsertNow(k, NewProcessValue(d, generation, Now))
    BY DEF SetProcessMark
  <2>2. PICK v \in ProcessValue : v = NewProcessValue(d, generation, Now)
    BY ExplicitType DEF Decision
  <2>3. v.timestamp = Now /\ v.generation = generation /\ v # Absent /\ v \in Entry
    BY <2>2, AbsentAssumption DEF NewProcessValue, Entry
  <2>4. Fresh(k)' /\ \A j \in Key \ {k} : mirror'[j] = mirror[j]
    BY <2>1, <2>2, <2>3, UpsertRefreshes
  <2> QED BY <1>1, <1>4, <2>1, <2>4 DEF GenInv
<1> QED BY <1>6, <1>7, <1>8, <1>9, <1>10, <1>11, <1>12, <1>13, <1>14, <1>15, <1>16, <1>17,
           <1>18, <1>20, <1>21, <1>22, <1>23, <1>24
        DEF DaemonNext, EventLoopStep, TraversalStep, RunStep, ApiStep

(* Nor does a step of the system, for callers that mark nobody unborn. *)
LEMMA GenInvStep ==
  ASSUME AbortIteration = FALSE
  PROVE  IInv /\ CInv /\ GenInv /\ UnbornUnmarked /\ [Next]_vars => GenInv'
<1> SUFFICES ASSUME IInv, CInv, GenInv, UnbornUnmarked, [Next]_vars PROVE GenInv'
  OBVIOUS
<1>1. CASE (KernelNext \/ Tick) /\ UNCHANGED uvars
  <2>1. UNCHANGED <<mirror, generation, pc, job, trav>>
    BY <1>1 DEF uvars
  <2>2. ASSUME NEW k \in Key, Fresh(k) PROVE Fresh(k)'
    <3>1. Alive(k)' => Alive(k) \/ life[k] = "unborn"
      BY <1>1, LifeSteps DEF IInv, CInv, TypeOK
    <3>2. life[k] = "unborn" => ~Live(mirror[k])
      BY DEF UnbornUnmarked, Live
    <3> QED BY <2>1, <2>2, <3>1, <3>2 DEF Fresh, StaleGeneration
  <2> QED BY <2>1, <2>2 DEF GenInv
<1>2. CASE UNCHANGED vars
  <2>1. UNCHANGED <<life, mirror, generation, pc, job, trav>>
    BY <1>2 DEF vars, kvars, uvars
  <2> QED BY <2>1 DEF GenInv, Fresh, StaleGeneration, Alive
<1>3. CASE DaemonNext
  BY <1>3, DaemonGenerations DEF CInv
<1> QED BY <1>1, <1>2, <1>3 DEF Next, KernelStep, TimePasses, DaemonNext

(* NoStaleGeneration: while iterating the kernel map does not fail and no   *)
(* caller of SetProcessMark marks a process that does not exist yet, no     *)
(* running process is left behind by a policy switch, whatever it and its   *)
(* parents do while the switch is under way.                                *)
THEOREM NobodyForgotten ==
  ASSUME AbortIteration = FALSE
  PROVE  Spec /\ []UnbornUnmarked => []NoStaleGeneration
<1>1. IInv /\ CInv /\ GenInv /\ UnbornUnmarked /\ [Next]_vars => (IInv /\ CInv /\ GenInv)'
  BY IInvStep, CInvStep, GenInvStep
<1>2. Init => GenInv
  BY DEF Init, FreshInit, BootedInit, MarkerInit, GenInv, Fresh, StaleGeneration, Live
<1>3. GenInv => NoStaleGeneration
  BY DEF GenInv, NoStaleGeneration, Fresh
<1> QED BY IInvInit, CInvInit, <1>1, <1>2, <1>3, PTL DEF Spec

-----------------------------------------------------------------------------
(* Lifetimes that have not begun *)

(* The programs write and report about processes that exist. *)
LEMMA KernelUnborn ==
  ASSUME KernelTypeOK, LifeInv, KernelNext \/ Tick, NEW k \in Key, life'[k] = "unborn"
  PROVE  /\ life[k] = "unborn" /\ processes'[k] = processes[k]
         /\ (\A i \in 1..Len(events) : events[i].key # k) =>
               \A i \in 1..Len(events') : events'[i].key # k
<1> DEFINE G == /\ processes'[k] = processes[k]
                /\ (\A i \in 1..Len(events) : events[i].key # k) =>
                     \A i \in 1..Len(events') : events'[i].key # k
<1>1. life[k] = "unborn" /\ events \in Seq(Event) /\ processes \in [Key -> Entry]
  BY LifeSteps DEF KernelTypeOK
<1>2. bpf[k].stage = "idle"
  BY <1>1 DEF LifeInv
<1>3. ASSUME NEW type \in Program, NEW c \in Key \ {k}, NEW pk, NEW found, NEW e,
             Submit(type, c, pk, found, e)
      PROVE  (\A i \in 1..Len(events) : events[i].key # k) =>
                  \A i \in 1..Len(events') : events'[i].key # k
  <2>1. CASE events' = events
    BY <2>1
  <2>2. CASE /\ Len(events) \in Nat /\ Len(events') = Len(events) + 1
             /\ \A i \in 1..Len(events) : events'[i] = events[i]
             /\ events'[Len(events) + 1].key = c
    BY <2>2
  <2>3. \/ events' = events
        \/ /\ Len(events) \in Nat /\ Len(events') = Len(events) + 1
           /\ \A i \in 1..Len(events) : events'[i] = events[i]
           /\ events'[Len(events) + 1] =
                [type |-> type, key |-> c, parentKey |-> pk, hasMark |-> CanInherit(found),
                 value |-> ValueOf(e), comm |-> comm[c]]
    BY <1>1, <1>3, SubmitFacts
  <2> QED BY <2>1, <2>2, <2>3
<1>4. ASSUME NEW c \in Key, ForkLookup(c) \/ ForkCommit(c) \/ ExecLookup(c) \/ ExecCommit(c)
      PROVE  G
  <2>1. c # k
    BY <1>2, <1>4 DEF ForkLookup, ForkCommit, ExecLookup, ExecCommit
  <2>2. processes'[k] = processes[k]
    BY <1>1, <1>4, <2>1 DEF ForkLookup, ForkCommit, ExecLookup, ExecCommit
  <2>3. \/ events' = events
        \/ \E type \in Program, pk \in Key \cup {Foreign} :
             \E found, e : Submit(type, c, pk, found, e)
    <3>1. bpf[c].forker \in Key \cup {Foreign} /\ Program = {"fork", "exec", "exit"}
      BY InFlightFields DEF Program
    <3>2. CASE ForkLookup(c)
      BY <3>1, <3>2 DEF ForkLookup
    <3>3. CASE ForkCommit(c)
      BY <3>1, <3>3 DEF ForkCommit
    <3>4. CASE ExecLookup(c)
      BY <3>1, <3>4 DEF ExecLookup
    <3>5. CASE ExecCommit(c)
      BY <3>1, <3>5 DEF ExecCommit
    <3> QED BY <1>4, <3>2, <3>3, <3>4, <3>5
  <2> QED BY <1>3, <2>1, <2>2, <2>3
<1>5. ASSUME NEW c \in Key, NEW others \in BOOLEAN, ExitCommit(c, others) PROVE G
  <2>1. c # k
    BY <1>2, <1>5 DEF ExitCommit
  <2>2. processes'[k] = processes[k]
    BY <1>1, <1>5, <2>1 DEF ExitCommit
  <2>3. \E found, e : Submit("exit", c, Foreign, found, e)
    BY <1>5 DEF ExitCommit
  <2>4. "exit" \in Program
    BY DEF Program
  <2> QED BY <1>3, <2>1, <2>2, <2>3, <2>4
<1>6. ASSUME UNCHANGED <<processes, events>> PROVE G
  BY <1>6
<1>7. CASE \E c \in Key : \/ \E p, pk \in Key \cup {Foreign} : Clone(p, c, pk)
                          \/ \E m \in Comm : Execve(c, m)
                          \/ ExitLookup(c) \/ LastThreadExit(c) \/ Reap(c) \/ UnobservedStep(c)
  <2>1. UNCHANGED <<processes, events>>
    BY <1>7 DEF Clone, Execve, ExitLookup, LastThreadExit, Reap, UnobservedStep
  <2> QED BY <1>1, <1>6, <2>1
<1>8. CASE Tick
  BY <1>6, <1>8 DEF Tick
<1> QED BY <1>1, <1>4, <1>5, <1>7, <1>8 DEF KernelNext

(* The daemon makes no entry for a process that it has not heard of. *)
LEMMA DaemonUnborn ==
  ASSUME IInv, ClockInv, UnbornInv, ApiMarks = {}, DaemonNext, NEW k \in Key, life[k] = "unborn"
  PROVE  mirror'[k] = Absent /\ processes'[k] = Absent
<1> TypeOK /\ HandsOK
  BY DEF IInv
<1> MapsOK /\ clock \in Nat /\ Now \in Nat /\ trav \in Traversal /\ job \in Job
  BY TypeFacts DEF TypeOK, MarkerTypeOK
<1>1. /\ mirror[k] = Absent /\ processes[k] = Absent
      /\ \A i \in 1..Len(events) : events[i].key # k
      /\ pc \in {"fork", "exec"} => job.key # k
      /\ pc = "walk" => k \notin trav.todo
  BY DEF UnbornInv
<1>2. events # <<>> => Head(events).key # k
  <2>1. events # <<>> => 1 \in 1..Len(events) /\ Head(events) = events[1]
    BY EmptySeq DEF TypeOK, KernelTypeOK
  <2> QED BY <1>1, <2>1
<1>3. \A j \in Key : Stamped(mirror[j]) /\ Stamped(processes[j])
  BY DEF ClockInv
<1>4. ASSUME NEW j \in Key \ {k}, NEW v, SyncKernel(j, v) PROVE processes'[k] = processes[k]
  BY <1>4, SyncKernelWrites
<1>5. ASSUME NEW j \in Key \ {k}, NEW v, NEW log, Upsert(j, v, log)
      PROVE  mirror'[k] = mirror[k] /\ processes'[k] = processes[k]
  BY <1>4, <1>5 DEF Upsert, MapsOK
<1>6. ASSUME NEW j \in Key \ {k}, NEW v, UpsertNow(j, v)
      PROVE  mirror'[k] = mirror[k] /\ processes'[k] = processes[k]
  BY <1>5, <1>6 DEF UpsertNow, NoUpsert
<1>7. CASE RecvFork
  <2>1. PICK e : e = Head(events)
    OBVIOUS
  <2>2. e.key \in Key \ {k}
    BY <1>2, <1>7, <2>1, HeadFacts DEF RecvFork, Receive
  <2>3. \/ Upsert(e.key, e.value, TRUE)
        \/ SyncKernel(e.key, mirror[e.key]) /\ UNCHANGED mirror
        \/ NoUpsert
    BY <1>7, <2>1 DEF RecvFork
  <2> QED BY <1>1, <1>4, <1>5, <2>2, <2>3 DEF NoUpsert
<1>8. CASE DecideFork \/ DecideExec
  <2>1. job.key \in Key \ {k}
    BY <1>1, <1>8 DEF DecideFork, DecideExec, HandsOK
  <2>2. \E v : UpsertNow(job.key, v)
    BY <1>8 DEF DecideFork, DecideExec
  <2> QED BY <1>1, <1>6, <2>1, <2>2
<1>9. CASE RecvExec
  <2>1. PICK e : e = Head(events)
    OBVIOUS
  <2>2. e.key \in Key \ {k}
    BY <1>2, <1>9, <2>1, HeadFacts DEF RecvExec, Receive
  <2>3. \E v : /\ mirror' = [mirror EXCEPT ![e.key] = v]
               /\ SyncKernel(e.key, v) \/ UNCHANGED processes
    BY <1>9, <2>1 DEF RecvExec
  <2> QED BY <1>1, <1>4, <2>2, <2>3 DEF MapsOK
<1>10. CASE RecvExit
  <2>1. PICK e : e = Head(events)
    OBVIOUS
  <2>2. e.key \in Key \ {k}
    BY <1>2, <1>10, <2>1, HeadFacts DEF RecvExit, Receive
  <2>3. NoUpsert \/ \E v, log : Upsert(e.key, v, log)
    BY <1>10, <2>1 DEF RecvExit
  <2> QED BY <1>1, <1>5, <2>2, <2>3 DEF NoUpsert
<1>11. CASE CollectTombstones
  <2>1. /\ mirror'[k] = IF k \in Expired THEN Absent ELSE mirror[k]
        /\ processes'[k] = IF k \in Expired THEN Absent ELSE processes[k]
    BY <1>11 DEF CollectTombstones
  <2> QED BY <1>1, <2>1
<1>12. CASE \E j \in Key : SweepDead(j)
  <2> PICK j \in Key : SweepDead(j)
    BY <1>12
  <2>1. j # k /\ \E v : UpsertNow(j, v)
    BY <1>1, AbsentAssumption DEF SweepDead, HandsOK
  <2> QED BY <1>1, <1>6, <2>1
<1>13. CASE Refresh \/ RefreshAbort
  <2>1. MergeKernelEntry(k) = mirror[k]
    BY <1>1 DEF MergeKernelEntry
  <2>2. mirror'[k] \in {MergeKernelEntry(k), mirror[k]} /\ UNCHANGED processes
    BY <1>13 DEF Refresh, RefreshAbort
  <2> QED BY <1>1, <2>1, <2>2
<1>14. CASE RepairAndList
  <2>1. processes'[k] = Repaired(k) /\ UNCHANGED mirror
    BY <1>14 DEF RepairAndList
  <2> QED BY <1>1, <2>1 DEF Repaired
<1>15. CASE \E j \in Key : Walk(j) \/ WalkOrphan(j)
  <2> PICK j \in Key : Walk(j) \/ WalkOrphan(j)
    BY <1>15
  <2>1. j # k /\ \E v : UpsertNow(j, v)
    BY <1>1 DEF Walk, WalkOrphan, Visit
  <2> QED BY <1>1, <1>6, <2>1
<1>16. ASSUME UNCHANGED <<mirror, processes>> PROVE mirror'[k] = Absent /\ processes'[k] = Absent
  BY <1>1, <1>16
<1>17. CASE SweepDone \/ TraversalDone \/ ForeignEvent \/ \E j \in Key : ListMiss(j)
  BY <1>16, <1>17 DEF SweepDone, TraversalDone, ForeignEvent, ListMiss, kvars
<1>18. CASE RunStep
  BY <1>16, <1>18 DEF RunStep, RunTraverse, RunAttach, Attach, kvars
<1>19. CASE ApiStep
  BY <1>16, <1>19 DEF ApiStep, SetPolicy, ForceProcessTraversal, UpdateHooks
<1> QED BY <1>7, <1>8, <1>9, <1>10, <1>11, <1>12, <1>13, <1>14, <1>15, <1>17, <1>18, <1>19
        DEF DaemonNext, EventLoopStep, TraversalStep

(* Nor does it begin to handle one. *)
LEMMA DaemonUnbornHands ==
  ASSUME IInv, ClockInv, UnbornInv, DaemonNext, NEW k \in Key, life[k] = "unborn"
  PROVE  /\ \A i \in 1..Len(events') : events'[i].key # k
         /\ pc' \in {"fork", "exec"} => job'.key # k
         /\ pc' = "walk" => k \notin trav'.todo
<1> TypeOK /\ trav \in Traversal /\ events \in Seq(Event)
  BY DEF IInv, TypeOK, MarkerTypeOK, KernelTypeOK
<1>1. /\ \A i \in 1..Len(events) : events[i].key # k
      /\ pc \in {"fork", "exec"} => job.key # k
      /\ pc = "walk" => k \notin trav.todo
  BY DEF UnbornInv
<1>2. \A i \in 1..Len(events') : events'[i].key # k
  <2>1. events' = events \/ (events # <<>> /\ events' = Tail(events))
    BY DaemonShape DEF RecvFork, RecvExec, RecvExit, Receive
  <2>2. CASE events # <<>> /\ events' = Tail(events)
    <3>1. /\ Len(events) \in Nat \ {0} /\ Len(events') = Len(events) - 1
          /\ \A i \in 1..Len(events') : events'[i] = events[i + 1]
      BY <2>2, HeadTailProperties, EmptySeq
    <3> QED BY <1>1, <3>1
  <2> QED BY <1>1, <2>1, <2>2
<1>3. events # <<>> => Head(events).key # k
  <2>1. events # <<>> => 1 \in 1..Len(events) /\ Head(events) = events[1]
    BY EmptySeq
  <2> QED BY <1>1, <2>1
<1> DEFINE G == /\ pc' \in {"fork", "exec"} => job'.key # k
                /\ pc' = "walk" => k \notin trav'.todo
<1>4. CASE RecvFork \/ RecvExec
  <2>1. /\ events # <<>> /\ pc' # "walk"
        /\ pc' \in {"fork", "exec"} => \E v : job' = JobOf(Head(events), v)
    BY <1>4 DEF RecvFork, RecvExec, Receive, Acquire
  <2>2. \A v : JobOf(Head(events), v).key = Head(events).key
    BY DEF JobOf
  <2> QED BY <1>2, <1>3, <2>1, <2>2
<1>5. CASE RepairAndList
  <2>1. pc' = "walk" /\ trav'.todo = {j \in Key : Visible(j)}
    BY <1>5 DEF RepairAndList
  <2> QED BY <1>2, <2>1 DEF Visible
<1>6. ASSUME UNCHANGED <<pc, job>>, pc = "walk" => trav'.todo \subseteq trav.todo PROVE G
  BY <1>1, <1>6
<1>7. ASSUME pc' \notin {"fork", "exec", "walk"} PROVE G
  BY <1>7
<1>8. CASE RecvExit \/ DecideFork \/ DecideExec \/ CollectTombstones \/ SweepDone
  BY <1>2, <1>7, <1>8 DEF RecvExit, DecideFork, DecideExec, EventDone, CollectTombstones,
     SweepDone, Receive, Acquire, Release
<1>9. ASSUME NEW j \in Key, SweepDead(j) PROVE G
  BY <1>7, <1>9 DEF SweepDead
<1>10. ASSUME NEW j \in Key, NEW p, Visit(j, p) PROVE G
  <2>1. trav' = [trav EXCEPT !.todo = trav.todo \ {j}, !.value[j] = WalkValue(j, p)]
    BY <1>10 DEF Visit
  <2>2. trav'.todo \subseteq trav.todo
    BY <2>1 DEF Traversal
  <2> QED BY <1>6, <1>10, <2>2 DEF Visit
<1>11. ASSUME NEW j \in Key, ListMiss(j) PROVE G
  <2>1. trav' = [trav EXCEPT !.todo = trav.todo \ {j}, !.listed = trav.listed \ {j}]
    BY <1>11 DEF ListMiss
  <2>2. trav'.todo \subseteq trav.todo
    BY <2>1 DEF Traversal
  <2> QED BY <1>6, <1>11, <2>2 DEF ListMiss
<1>12. CASE Refresh \/ RefreshAbort \/ TraversalDone
  BY <1>2, <1>7, <1>12 DEF Refresh, RefreshAbort, TraversalDone, Release
<1>13. CASE RunTraverse \/ ForceProcessTraversal \/ \E p \in Policies : SetPolicy(p)
  BY <1>2, <1>7, <1>13 DEF RunTraverse, ForceProcessTraversal, SetPolicy, Acquire
<1>14. CASE ForeignEvent \/ RunAttach \/ UpdateHooks
            \/ \E j \in Key, d \in ApiMarks : SetProcessMark(j, d)
  BY <1>2, <1>6, <1>14 DEF ForeignEvent, RunAttach, Attach, UpdateHooks, SetProcessMark
<1> QED BY <1>2, <1>4, <1>5, <1>8, <1>9, <1>10, <1>11, <1>12, <1>13, <1>14
        DEF DaemonNext, EventLoopStep, TraversalStep, RunStep, ApiStep, Walk, WalkOrphan

(* A daemon whose callers do not use SetProcessMark marks nobody unborn.    *)
LEMMA UnbornStep ==
  ASSUME ApiMarks = {}
  PROVE  IInv /\ CInv /\ UnbornInv /\ [Next]_vars => UnbornInv'
<1> SUFFICES ASSUME IInv, CInv, UnbornInv, [Next]_vars PROVE UnbornInv'
  OBVIOUS
<1>1. CASE (KernelNext \/ Tick) /\ UNCHANGED uvars
  <2>1. UNCHANGED <<mirror, pc, job, trav>>
    BY <1>1 DEF uvars
  <2>2. ASSUME NEW k \in Key, life'[k] = "unborn"
        PROVE  /\ life[k] = "unborn" /\ processes'[k] = processes[k]
               /\ (\A i \in 1..Len(events) : events[i].key # k) =>
                     \A i \in 1..Len(events') : events'[i].key # k
    BY <1>1, <2>2, KernelUnborn DEF IInv, TypeOK, CInv
  <2> QED BY <2>1, <2>2 DEF UnbornInv
<1>2. CASE UNCHANGED vars
  BY <1>2 DEF vars, kvars, uvars, UnbornInv
<1>3. CASE DaemonNext
  <2>1. UNCHANGED life
    BY <1>3, DaemonShape
  <2> SUFFICES ASSUME NEW k \in Key, life[k] = "unborn"
               PROVE  /\ mirror'[k] = Absent /\ processes'[k] = Absent
                      /\ \A i \in 1..Len(events') : events'[i].key # k
                      /\ pc' \in {"fork", "exec"} => job'.key # k
                      /\ pc' = "walk" => k \notin trav'.todo
    BY <2>1 DEF UnbornInv
  <2> QED BY <1>3, DaemonUnborn, DaemonUnbornHands DEF CInv
<1> QED BY <1>1, <1>2, <1>3 DEF Next, KernelStep, TimePasses, DaemonNext

(* NoStaleGeneration of a daemon that nobody calls SetProcessMark on: the   *)
(* hypothesis of NobodyForgotten is then the daemon's own doing, as no      *)
(* program, event or traversal makes an entry for a process to come.        *)
THEOREM NobodyForgottenByPolicy ==
  ASSUME AbortIteration = FALSE, ApiMarks = {}
  PROVE  Spec => []NoStaleGeneration
<1>1. IInv /\ CInv /\ UnbornInv /\ [Next]_vars => (IInv /\ CInv /\ UnbornInv)'
  BY IInvStep, CInvStep, UnbornStep
<1>2. Init => UnbornInv
  <2> SUFFICES ASSUME Init PROVE UnbornInv
    OBVIOUS
  <2>1. /\ processes = [k \in Key |-> Absent] /\ mirror = [k \in Key |-> Absent]
        /\ events = <<>> /\ pc = "free"
    BY DEF Init, FreshInit, BootedInit, KernelInit, MarkerInit
  <2>2. Len(events) = 0
    BY <2>1, EmptySeq
  <2> QED BY <2>1, <2>2 DEF UnbornInv
<1>3. UnbornInv => UnbornUnmarked
  BY DEF UnbornInv, UnbornUnmarked
<1>4. Spec => []UnbornUnmarked
  BY IInvInit, CInvInit, <1>1, <1>2, <1>3, PTL DEF Spec
<1> QED BY <1>4, NobodyForgotten, PTL
=============================================================================
