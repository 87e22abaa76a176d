------------------------------ MODULE CommRules ------------------------------
(***************************************************************************)
(* What main makes of a set of default rules (compileDefaultKernelPolicy   *)
(* and compileDefaultCheckRules): the check callback for userspace, and    *)
(* the mode and the exact rules for the exec program.                      *)
(*                                                                         *)
(* A pattern is known by the values it matches and by its form: an exact   *)
(* one is an anchored literal that fits a task's comm (what                *)
(* ExactCommFromRegexp accepts), a bad one does not compile.  The command  *)
(* line, the executable and the parent of a process are its `other'.       *)
(***************************************************************************)
EXTENDS Naturals, Sequences, FiniteSets

CONSTANTS
    Comm, EmptyComm,     \* command names, and the empty one
    Other,               \* what rule_cmd, rule_exe and rule_ppid look at
    Decision,            \* a priority and a mark
    NoMatch,             \* the check returned false
    MaxKernelCommRules

CommPattern ==
    {p \in [form : {"exact", "other", "bad"}, matches : SUBSET Comm] :
        p.form = "exact" => \E c \in Comm : p.matches = {c}}
OtherPattern == [form : {"other", "bad"}, matches : SUBSET Other]

\* defaultCheckRules after splitRegexpList.
Rules == [comm : Seq(CommPattern), rest : SUBSET OtherPattern]

Info == [comm : Comm, other : Other]
RuleTable == [Comm -> Decision \cup {NoMatch}]
Mode == {"userspace-only", "positive-only", "authoritative"}
Policy == [mode : Mode, rules : RuleTable]

ASSUME CommRulesAssumption ==
    /\ EmptyComm \in Comm
    /\ NoMatch \notin Decision
    /\ MaxKernelCommRules \in Nat

-----------------------------------------------------------------------------
(* The check callback: defaultCheck and defaultCheckMatcher *)

\* Every regular expression and every PPID parses.
Parses(rs) ==
    /\ \A i \in DOMAIN rs.comm : rs.comm[i].form # "bad"
    /\ \A p \in rs.rest : p.form # "bad"

HasRules(rs) == rs.comm # <<>> \/ rs.rest # {}

\* anyRegexpMatches: no expression matches an empty name.
CommMatches(rs, c) == c # EmptyComm /\ \E i \in DOMAIN rs.comm : c \in rs.comm[i].matches

Matches(rs, info) ==
    \/ CommMatches(rs, info.comm)
    \/ \E p \in rs.rest : info.other \in p.matches

Check(rs, d, info) == IF HasRules(rs) /\ Matches(rs, info) THEN d ELSE NoMatch

-----------------------------------------------------------------------------
(* The kernel policy: compileDefaultKernelPolicy, ExactCommFromRegexp and   *)
(* validateAndNormalizeKernelPolicy                                         *)

\* The patterns that ExactCommFromRegexp supports, by their place in the list.
Promoted(rs) == {i \in DOMAIN rs.comm : rs.comm[i].form = "exact"}

\* Mutant: rules on the command line, executable or parent are forgotten.
FallbackCommOnly(rs) == Promoted(rs) # DOMAIN rs.comm

Fallback(rs) == Promoted(rs) # DOMAIN rs.comm \/ rs.rest # {}

CompiledMode(rs) ==
    IF ~Fallback(rs) THEN "authoritative"
    ELSE IF Promoted(rs) # {} THEN "positive-only" ELSE "userspace-only"

\* A name that several patterns promote is one rule after normalisation.
CompiledTable(rs, d) ==
    [c \in Comm |-> IF \E i \in Promoted(rs) : rs.comm[i].matches = {c} THEN d ELSE NoMatch]

Compile(rs, d) == [mode |-> CompiledMode(rs), rules |-> CompiledTable(rs, d)]

\* Duplicates count: the limit is tested before normalisation.
Compiles(rs) == Parses(rs) /\ Cardinality(Promoted(rs)) <= MaxKernelCommRules

-----------------------------------------------------------------------------
(* The contract of SetKernelPolicy between a policy and the check that goes *)
(* with it (and what module Marker assumes): for every process with a name, *)
(* an exact rule decides as the check does, and an authoritative policy has *)
(* a rule for all that the check marks.                                     *)
Agree(p, rs, d) ==
    /\ p.mode = "userspace-only" => \A c \in Comm : p.rules[c] = NoMatch
    /\ \A info \in Info : info.comm # EmptyComm =>
          /\ p.rules[info.comm] # NoMatch => Check(rs, d, info) = p.rules[info.comm]
          /\ p.mode = "authoritative" => Check(rs, d, info) = p.rules[info.comm]
=============================================================================
