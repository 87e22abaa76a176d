------------------------------ MODULE Registry ------------------------------
(***************************************************************************)
(* What the userspace mirror promises, without saying how it gets there: a *)
(* key's entry appears once, only ever improves in the merge order, and    *)
(* disappears only as a tombstone.  In particular a process lifetime that  *)
(* was tombstoned is never live again while its entry is kept, and a live  *)
(* entry never falls back to an older policy generation.                   *)
(***************************************************************************)
EXTENDS ProcessValue

CONSTANT Key

VARIABLE entries

RegistryInit == entries = [k \in Key |-> Absent]

\* The new value is one that the merge order prefers to the old one.
Improve(k) ==
    /\ entries'[k] \in ProcessValue
    /\ MergeEntry(entries[k], entries'[k]) = entries'[k]

Drop(k) == Tombstone(entries[k]) /\ entries'[k] = Absent

RegistryNext ==
    /\ entries' = [k \in Key |-> entries'[k]]
    /\ \A k \in Key : entries'[k] = entries[k] \/ Improve(k) \/ Drop(k)

RegistrySpec == RegistryInit /\ [][RegistryNext]_entries
=============================================================================
