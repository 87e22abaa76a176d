------------------------- MODULE ProcessValueProofs -------------------------
(***************************************************************************)
(* The merge order for every value of its fields: the Go and the C         *)
(* implementation agree, the order is total and transitive, and a merge    *)
(* yields the better value.                                                *)
(***************************************************************************)
EXTENDS ProcessValue, TLAPS

(* The fields of a value, as facts the provers can use. *)
LEMMA ProcessValueFields ==
  ASSUME NEW v \in ProcessValue
  PROVE  /\ v.tombstone \in BOOLEAN /\ v.inheritance \in BOOLEAN
         /\ v.hasMark \in BOOLEAN /\ v.priority \in Int
         /\ v.generation \in Int /\ v.mark \in Int /\ v.timestamp \in Int
BY DEF ProcessValue, Int8

(* preferProcessValue (mark.go) keeps the old value exactly when            *)
(* next_process_value_wins (mark.c) refuses the new one: the two copies of  *)
(* the order, which the comments ask to keep in sync, are the same order.   *)
THEOREM GoAndKernelAgree ==
  ASSUME NEW old \in ProcessValue, NEW next \in ProcessValue
  PROVE  OldPreferred(old, next) <=> ~NextProcessValueWins(old, next)
BY ProcessValueFields DEF OldPreferred, NextProcessValueWins

(* Every value beats itself or is beaten by itself: the order is reflexive. *)
LEMMA WinsReflexive ==
  ASSUME NEW a \in ProcessValue
  PROVE  NextProcessValueWins(a, a)
BY ProcessValueFields DEF NextProcessValueWins

(* Of two values one is accepted over the other. *)
LEMMA WinsTotal ==
  ASSUME NEW a \in ProcessValue, NEW b \in ProcessValue
  PROVE  NextProcessValueWins(a, b) \/ NextProcessValueWins(b, a)
BY ProcessValueFields DEF NextProcessValueWins

(* Acceptance is transitive, so no chain of merges cycles. *)
LEMMA WinsTransitive ==
  ASSUME NEW a \in ProcessValue, NEW b \in ProcessValue, NEW c \in ProcessValue,
         NextProcessValueWins(a, b), NextProcessValueWins(b, c)
  PROVE  NextProcessValueWins(a, c)
BY ProcessValueFields DEF NextProcessValueWins

(* What a merge leaves in the map is one of the two values, and it beats both. *)
LEMMA MergeEntryFacts ==
  ASSUME NEW e \in Entry, NEW v \in ProcessValue
  PROVE  LET w == MergeEntry(e, v)
         IN  /\ w \in ProcessValue
             /\ w \in {e, v}
             /\ NextProcessValueWins(v, w)
             /\ e # Absent => NextProcessValueWins(e, w)
             /\ v.tombstone \/ Tombstone(e) => w.tombstone
<1>1. CASE e = Absent
  BY <1>1, WinsReflexive DEF MergeEntry, Tombstone
<1>2. CASE e # Absent
  <2>1. e \in ProcessValue
    BY <1>2 DEF Entry
  <2>2. CASE OldPreferred(e, v)
    <3>1. MergeEntry(e, v) = e
      BY <1>2, <2>2 DEF MergeEntry, PreferProcessValue
    <3>2. NextProcessValueWins(v, e) /\ NextProcessValueWins(e, e)
      BY <2>1, <2>2, GoAndKernelAgree, WinsTotal, WinsReflexive
    <3>3. v.tombstone => e.tombstone
      BY <2>1, <2>2, ProcessValueFields DEF OldPreferred
    <3> QED  BY <1>2, <2>1, <3>1, <3>2, <3>3 DEF Tombstone
  <2>3. CASE ~OldPreferred(e, v)
    <3>1. MergeEntry(e, v) = v
      BY <1>2, <2>3 DEF MergeEntry, PreferProcessValue
    <3>2. NextProcessValueWins(e, v) /\ NextProcessValueWins(v, v)
      BY <2>1, <2>3, GoAndKernelAgree, WinsReflexive
    <3>3. e.tombstone => v.tombstone
      BY <2>1, <2>3, ProcessValueFields DEF OldPreferred
    <3> QED  BY <1>2, <2>1, <3>1, <3>2, <3>3 DEF Tombstone
  <2> QED  BY <2>2, <2>3
<1> QED  BY <1>1, <1>2

(* Merging the winner again changes nothing: a repeated event is harmless. *)
LEMMA MergeIdempotent ==
  ASSUME NEW e, NEW v
  PROVE  MergeEntry(e, MergeEntry(e, v)) = MergeEntry(e, v)
BY DEF MergeEntry, PreferProcessValue

-----------------------------------------------------------------------------
(* The zero struct is a value. *)
LEMMA ZeroType == ZeroValue \in ProcessValue
BY DEF ZeroValue, ProcessValue, Int8

(* The constructors of mark.go and mark.c make well-formed values. *)
LEMMA ConstructorTypes ==
  ASSUME NEW v \in ProcessValue, NEW g \in Nat, NEW t \in Nat
  PROVE  /\ NewNoMarkProcessValue(v, g, t) \in ProcessValue
         /\ InheritedValue(v, g, t) \in ProcessValue
         /\ TombstoneOf(v, t) \in ProcessValue
         /\ [v EXCEPT !.tombstone = TRUE, !.timestamp = t] \in ProcessValue
         /\ [ZeroValue EXCEPT !.generation = g, !.timestamp = t] \in ProcessValue
<1> USE DEF ProcessValue, Int8
<1>1. NewNoMarkProcessValue(v, g, t) \in ProcessValue
  BY DEF NewNoMarkProcessValue
<1>2. InheritedValue(v, g, t) \in ProcessValue
  BY DEF InheritedValue
<1>3. TombstoneOf(v, t) \in ProcessValue
  BY DEF TombstoneOf
<1>4. [v EXCEPT !.tombstone = TRUE, !.timestamp = t] \in ProcessValue
  OBVIOUS
<1>5. [ZeroValue EXCEPT !.generation = g, !.timestamp = t] \in ProcessValue
  BY ZeroType
<1> QED BY <1>1, <1>2, <1>3, <1>4, <1>5

(* So does the value of an explicit match. *)
LEMMA ExplicitType ==
  ASSUME NEW d \in [priority : Int8, mark : Nat], NEW g \in Nat, NEW t \in Nat
  PROVE  NewProcessValue(d, g, t) \in ProcessValue
BY DEF NewProcessValue, ProcessValue
=============================================================================
