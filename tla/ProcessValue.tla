---------------------------- MODULE ProcessValue ----------------------------
(***************************************************************************)
(* The value that p-mark keeps for one process lifetime, in the pinned     *)
(* kernel map `processes` and in the daemon's mirror, and the merge order  *)
(* that both sides apply to competing values.  The order is written twice  *)
(* in the program, in Go (preferProcessValue) and in C                     *)
(* (next_process_value_wins); the two are translated separately here and   *)
(* module ProcessValueProofs shows that they agree.                        *)
(*                                                                         *)
(* `inheritance' keeps the source's historical name: TRUE means that the   *)
(* mark was chosen explicitly, FALSE that it came from the parent.         *)
(***************************************************************************)
EXTENDS Integers

CONSTANT Absent      \* a key that is not in the map

Int8 == -128 .. 127

ProcessValue == [tombstone : BOOLEAN, inheritance : BOOLEAN, hasMark : BOOLEAN,
                 priority : Int8, generation : Nat, mark : Nat, timestamp : Nat]

ASSUME AbsentAssumption == Absent \notin ProcessValue

\* What a lookup returns.
Entry == ProcessValue \cup {Absent}

\* The zero struct: what an event carries when the kernel had no entry.
ZeroValue == [tombstone |-> FALSE, inheritance |-> FALSE, hasMark |-> FALSE,
              priority |-> 0, generation |-> 0, mark |-> 0, timestamp |-> 0]

Tombstone(e) == e # Absent /\ e.tombstone
Live(e) == e # Absent /\ ~e.tombstone

\* canInherit, and the kernel's test before it copies a parent's value.
CanInherit(e) == Live(e) /\ e.hasMark

\* The mark that policy consumers act on; 0 is "unmarked".
EffectiveMark(e) == IF CanInherit(e) THEN e.mark ELSE 0

-----------------------------------------------------------------------------
(* Two wrong orders, kept as mutants: explicit marks do not break a tie;   *)
(* the generation is compared before the tombstone.                        *)
OldPreferredIgnoringExplicit(old, next) ==
    IF old.tombstone # next.tombstone THEN old.tombstone
    ELSE IF old.generation # next.generation THEN old.generation > next.generation
    ELSE IF old.priority # next.priority THEN old.priority > next.priority
    ELSE old.timestamp > next.timestamp

OldPreferredGenerationFirst(old, next) ==
    IF old.generation # next.generation THEN old.generation > next.generation
    ELSE IF old.tombstone # next.tombstone THEN old.tombstone
    ELSE old.timestamp > next.timestamp

(* preferProcessValue of mark.go: `old' is returned when it wins. *)
OldPreferred(old, next) ==
    IF old.tombstone # next.tombstone THEN old.tombstone
    ELSE IF old.generation # next.generation THEN old.generation > next.generation
    ELSE IF old.priority # next.priority THEN old.priority > next.priority
    ELSE IF old.inheritance # next.inheritance THEN old.inheritance
    ELSE old.timestamp > next.timestamp

PreferProcessValue(old, next) == IF OldPreferred(old, next) THEN old ELSE next

(* next_process_value_wins of mark.c. *)
NextProcessValueWins(old, next) ==
    IF old.tombstone # next.tombstone THEN next.tombstone
    ELSE IF old.generation # next.generation THEN next.generation > old.generation
    ELSE IF old.priority # next.priority THEN next.priority > old.priority
    ELSE IF old.inheritance # next.inheritance THEN next.inheritance
    ELSE next.timestamp >= old.timestamp

(* What upsertProcessWithLog and refreshMirrorFromKernelLocked leave in a map *)
(* that held e: a missing entry takes the value as it is.                     *)
MergeEntry(e, next) == IF e = Absent THEN next ELSE PreferProcessValue(e, next)

-----------------------------------------------------------------------------
(* Constructors; `now' is the boot-time clock. *)

NewProcessValue(decision, generation, now) ==
    [tombstone |-> FALSE, inheritance |-> TRUE, hasMark |-> TRUE,
     priority |-> decision.priority, generation |-> generation,
     mark |-> decision.mark, timestamp |-> now]

NewNoMarkProcessValue(old, generation, now) ==
    [tombstone |-> FALSE, inheritance |-> old.inheritance, hasMark |-> FALSE,
     priority |-> old.priority, generation |-> generation,
     mark |-> old.mark, timestamp |-> now]

InheritedValue(parent, generation, now) ==
    [parent EXCEPT !.tombstone = FALSE, !.inheritance = FALSE, !.hasMark = TRUE,
                   !.generation = generation, !.timestamp = now]

TombstoneOf(value, now) ==
    [value EXCEPT !.tombstone = TRUE,
                  !.timestamp = IF @ > now THEN @ ELSE now]
=============================================================================
