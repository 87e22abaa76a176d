--------------------------- MODULE MergeRegister ---------------------------
(***************************************************************************)
(* What the merge order promises about one key: whatever the order in      *)
(* which values reach a map (ring events, /proc traversals, API calls),    *)
(* the entry is the best of all the values offered since the key was last  *)
(* removed.  `offered' records those values.                               *)
(***************************************************************************)
EXTENDS ProcessValue, FiniteSets

CONSTANTS Values,     \* the values that may be offered
          MaxOffers   \* bound on the offers between two removals

ASSUME MergeAssumption == Values \subseteq ProcessValue /\ MaxOffers \in Nat

VARIABLES entry, offered

mvars == <<entry, offered>>

MergeTypeOK == entry \in Entry /\ offered \in SUBSET ProcessValue

MergeInit == entry = Absent /\ offered = {}

\* upsertProcessWithLog, or the merge of one kernel entry by a refresh.
Offer(v) ==
    /\ Cardinality(offered \cup {v}) <= MaxOffers
    /\ entry' = MergeEntry(entry, v)
    /\ offered' = offered \cup {v}

\* collectTombstones: only a tombstone is ever removed.
Remove ==
    /\ Tombstone(entry)
    /\ entry' = Absent
    /\ offered' = {}

MergeNext == (\E v \in Values : Offer(v)) \/ Remove

MergeSpec == MergeInit /\ [][MergeNext]_mvars

-----------------------------------------------------------------------------
(* The entry was offered, and no offered value beats it in the kernel's    *)
(* order: mark.go and mark.c agree about the winner, and the order of      *)
(* arrival matters only between values that differ in nothing the order    *)
(* looks at (the comment of preferProcessValue: the merge order is         *)
(* "independent of event source").                                         *)
BestOffered ==
    /\ entry = Absent <=> offered = {}
    /\ entry # Absent =>
         /\ entry \in offered
         /\ \A v \in offered : NextProcessValueWins(v, entry)

(* Once a tombstone has been offered for a lifetime, no live value is      *)
(* accepted until collectTombstones removes the entry, however late the    *)
(* live value was produced or delivered.                                   *)
TombstoneAbsorbs ==
    (\E v \in offered : v.tombstone) => Tombstone(entry)

MergeSafe == BestOffered /\ TombstoneAbsorbs
=============================================================================
