--------------------------- MODULE MCKernelPolicy ---------------------------
(* Two command names, and policies of two, one and no rules. *)
EXTENDS KernelPolicy

CONSTANTS app, shell, one, two

Table(a, s) == [c \in Comm |-> IF c = app THEN a ELSE s]

TwoRules == [mode |-> "authoritative", rules |-> Table(one, two)]
OneRule == [mode |-> "positive-only", rules |-> Table(two, NoMatch)]

SomePolicies == {TwoRules, OneRule}
=============================================================================
