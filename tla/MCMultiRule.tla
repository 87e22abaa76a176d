---------------------------- MODULE MCMultiRule ----------------------------
(* Three lifetimes, the first and the last under the same PID. *)
EXTENDS MultiRule

CONSTANTS k1, k2, k3, one, two, a, b

SharedPid == [k \in Key |-> IF k = k2 THEN two ELSE one]
RuleForB == {[comms |-> {b}]}

\* The second one is a nil rule: it matches nothing.
TwoRules == {[comms |-> {b}], [comms |-> {}]}
=============================================================================
