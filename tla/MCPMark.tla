------------------------------ MODULE MCPMark ------------------------------
(* Small instances of p-mark. *)
EXTENDS PMark

CONSTANTS app, shell   \* the two command names

D(p, m) == [priority |-> p, mark |-> m]
Table(a, s) == [c \in Comm |-> IF c = app THEN a ELSE IF c = shell THEN s ELSE NoMatch]
UserPolicy(t) == [mode |-> "userspace-only", rules |-> NoRules, check |-> t]
KernelOnly(t) == [mode |-> "authoritative", rules |-> t, check |-> t]
Mixed(r, t) == [mode |-> "positive-only", rules |-> r, check |-> t]

NothingMatches == UserPolicy(Table(NoMatch, NoMatch))
AppInKernel == KernelOnly(Table(D(0, 1), NoMatch))
ShellInKernel == KernelOnly(Table(NoMatch, D(0, 2)))
AppInKernelShellInCheck ==
    Mixed(Table(D(0, 1), NoMatch), Table(D(0, 1), D(0, 2)))

SteadyPolicies == {ShellInKernel}
FaultPolicies == {NothingMatches}
NoApiMarks == {}
SomeApiMarks == {D(1, 3)}
NoPolicies == {}
=============================================================================
