------------------------------ MODULE MCFwmark ------------------------------
(* Two lifetimes under one PID, one descriptor, and a mark whose upper half  *)
(* is not its lower half.                                                    *)
EXTENDS Fwmark, TLC

CONSTANTS p

OnePid == [k \in Key |-> p]
Symmetry == Permutations(Key)
=============================================================================
