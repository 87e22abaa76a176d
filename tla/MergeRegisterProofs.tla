------------------------ MODULE MergeRegisterProofs ------------------------
(***************************************************************************)
(* The entry of a key is the best value that was offered for it.           *)
(***************************************************************************)
EXTENDS MergeRegister, ProcessValueProofs

MergeInv == MergeTypeOK /\ MergeSafe

(* A key that was never offered a value satisfies the invariant. *)
LEMMA MergeInvInit == MergeInit => MergeInv
BY DEF MergeInit, MergeInv, MergeTypeOK, MergeSafe, BestOffered, TombstoneAbsorbs, Entry

(* An offer and a removal keep it: the new winner beats the old one, and    *)
(* with it everything that the old one beat.                                *)
LEMMA MergeInvStep == MergeInv /\ [MergeNext]_mvars => MergeInv'
<1> SUFFICES ASSUME MergeInv, [MergeNext]_mvars PROVE MergeInv'
  OBVIOUS
<1> USE DEF MergeInv
<1>1. ASSUME NEW v \in Values, Offer(v) PROVE MergeInv'
  <2> DEFINE w == MergeEntry(entry, v)
  <2>0. v \in ProcessValue /\ entry \in Entry /\ offered \subseteq ProcessValue
    BY MergeAssumption DEF MergeTypeOK
  <2>1. entry' = w /\ offered' = offered \cup {v}
    BY <1>1 DEF Offer
  <2>2. /\ w \in ProcessValue /\ w \in {entry, v} /\ NextProcessValueWins(v, w)
        /\ entry # Absent => NextProcessValueWins(entry, w)
        /\ v.tombstone \/ Tombstone(entry) => w.tombstone
    BY <2>0, MergeEntryFacts
  <2> HIDE DEF w
  <2>3. w # Absent
    BY <2>2, AbsentAssumption
  <2>4. MergeTypeOK'
    BY <2>0, <2>1, <2>2 DEF MergeTypeOK, Entry
  <2>5. w \in offered \cup {v}
    BY <2>2, <2>3 DEF MergeSafe, BestOffered
  <2>6. ASSUME NEW u \in offered PROVE NextProcessValueWins(u, w)
    <3>1. entry # Absent /\ entry \in ProcessValue /\ NextProcessValueWins(u, entry)
      BY <2>0, <2>6 DEF MergeSafe, BestOffered, Entry
    <3> QED  BY <2>0, <2>2, <2>6, <3>1, WinsTransitive
  <2>7. BestOffered'
    BY <2>1, <2>2, <2>3, <2>5, <2>6 DEF BestOffered
  <2>8. TombstoneAbsorbs'
    BY <2>1, <2>2, <2>3 DEF MergeSafe, TombstoneAbsorbs, Tombstone
  <2> QED  BY <2>4, <2>7, <2>8 DEF MergeSafe
<1>2. CASE Remove
  BY <1>2 DEF Remove, MergeTypeOK, MergeSafe, BestOffered, TombstoneAbsorbs, Entry
<1>3. CASE UNCHANGED mvars
  BY <1>3 DEF mvars, MergeTypeOK, MergeSafe, BestOffered, TombstoneAbsorbs
<1> QED  BY <1>1, <1>2, <1>3 DEF MergeNext

(* The invariant holds in every behaviour, for every set of values and any  *)
(* number of offers.                                                        *)
LEMMA MergeInvariant == MergeSpec => []MergeInv
BY MergeInvInit, MergeInvStep, PTL DEF MergeSpec

(* BestOffered: whatever the order of arrival, the entry that               *)
(* upsertProcessWithLog leaves is the best value offered since the key was  *)
(* removed.                                                                 *)
THEOREM MergeKeepsBest == MergeSpec => []BestOffered
<1>1. MergeInv => BestOffered
  BY DEF MergeInv, MergeSafe
<1> QED BY MergeInvariant, <1>1, PTL

(* TombstoneAbsorbs: a tombstone is never displaced by a live value, which  *)
(* is what keeps late events from reviving an exited process.               *)
THEOREM TombstonesAbsorb == MergeSpec => []TombstoneAbsorbs
<1>1. MergeInv => TombstoneAbsorbs
  BY DEF MergeInv, MergeSafe
<1> QED BY MergeInvariant, <1>1, PTL
=============================================================================
