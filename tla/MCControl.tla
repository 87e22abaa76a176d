------------------------------ MODULE MCControl ------------------------------
(* Two requests at a time and three in all.  Between them the bodies and the *)
(* command line have every mode, a name that is promoted twice, an empty     *)
(* name and a pattern that does not compile.                                 *)
EXTENDS Control

CONSTANTS a, b, o

Exact(c) == [form |-> "exact", matches |-> {c}]
Loose(S) == [form |-> "other", matches |-> S]
Bad == [form |-> "bad", matches |-> {}]

MCInitRules == [comm |-> <<Exact(a), Exact(a)>>, rest |-> {}]         \* authoritative
MCBodies == {
    [comm |-> <<Exact(b), Exact(EmptyComm)>>, rest |-> {Loose({o})}], \* positive-only
    [comm |-> <<Loose({a, b})>>, rest |-> {}],                        \* userspace-only
    [comm |-> <<Exact(a), Bad>>, rest |-> {}]}                        \* refused
=============================================================================
