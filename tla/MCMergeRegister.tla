-------------------------- MODULE MCMergeRegister --------------------------
(* Every class of value that the merge order tells apart, two timestamps. *)
EXTENDS MergeRegister

MCValues ==
    {[tombstone |-> t, inheritance |-> i, hasMark |-> h, priority |-> p,
      generation |-> g, mark |-> 1, timestamp |-> s] :
        t \in BOOLEAN, i \in BOOLEAN, h \in BOOLEAN, p \in {-1, 0},
        g \in {1, 2}, s \in {1, 2}}
=============================================================================
